--------------------------- MODULE ReplicasProofs ---------------------------
(* Theorems about what the replicas agree on, for every value of the       *)
(* constants: which tokens are over (AccessTokens), and which keys tokens  *)
(* are verified by (Boot).  The two share no name.                         *)
EXTENDS AccessTokens, Boot, TLAPS

-----------------------------------------------------------------------------
(* AccessTokens.                                                           *)

(* The program counter of a request tells its kind. *)
LEMMA RequestFields ==
  ASSUME NEW r \in Request
  PROVE  /\ r.pc \in {"idle", "record", "mirror", "denylist", "user", "member", "accepted"}
         /\ r.pc = "idle" <=> r = Idle
         /\ r.pc \in {"record", "mirror"} <=> r \in LoggingOut
         /\ r.pc \in {"denylist", "user", "member", "accepted"} <=> r \in Validating
BY DEF Request, Idle, LoggingOut, Validating

(* A logout that goes on to the mirror keeps its token. *)
LEMMA MirrorPc ==
  ASSUME NEW r \in LoggingOut
  PROVE  /\ [r EXCEPT !.pc = "mirror"] \in LoggingOut
         /\ [r EXCEPT !.pc = "mirror"].jti = r.jti
         /\ [r EXCEPT !.pc = "mirror"].pc = "mirror"
BY DEF LoggingOut

(* A validation that passes a check keeps its token and what bars it. *)
LEMMA NextPc ==
  ASSUME NEW r \in Validating, NEW step \in {"user", "member", "accepted"}
  PROVE  /\ [r EXCEPT !.pc = step] \in Validating
         /\ [r EXCEPT !.pc = step].pc = step
         /\ [r EXCEPT !.pc = step].jti = r.jti
         /\ [r EXCEPT !.pc = step].barred = r.barred
         /\ [r EXCEPT !.pc = step].at = r.at
BY DEF Validating

(* Taking a reason off a validation changes nothing else of it. *)
LEMMA Lifted ==
  ASSUME NEW r \in Validating, NEW x
  PROVE  /\ [r EXCEPT !.barred = @ \ {x}] \in Validating
         /\ [r EXCEPT !.barred = @ \ {x}].pc = r.pc
         /\ [r EXCEPT !.barred = @ \ {x}].jti = r.jti
         /\ [r EXCEPT !.barred = @ \ {x}].at = r.at
         /\ [r EXCEPT !.barred = @ \ {x}].barred = r.barred \ {x}
BY DEF Validating

(* Requests name tokens that were issued. *)
Typed == TypeOK /\ \A h \in Handlers : req[h] # Idle => req[h].jti \in Issued

(* A read of ValidateToken keeps the types. *)
LEMMA CheckTyped ==
  ASSUME Typed, NEW h \in Handlers, NEW step \in {"denylist", "user", "member"}, NEW ok \in BOOLEAN,
         NEW next \in {"user", "member", "accepted"}, Check(h, step, ok, next)
  PROVE  Typed'
<1>1. req[h] \in Validating
  BY RequestFields DEF Check, Typed, TypeOK
<1>2. [req[h] EXCEPT !.pc = next] \in Validating /\ [req[h] EXCEPT !.pc = next].jti = req[h].jti
  BY <1>1, NextPc
<1>3. req[h] # Idle
  BY <1>1 DEF Idle, Validating
<1> QED BY <1>2, <1>3 DEF Check, Become, Typed, TypeOK, stores, standing, redis, Issued, Request

(* A restore or an AddMember, which lift a reason, keeps the types. *)
LEMMA LiftTyped ==
  ASSUME Typed, NEW x, Lift(x), UNCHANGED <<now, stores, redis>>, active' \in BOOLEAN, member' \in BOOLEAN
  PROVE  Typed'
<1>1. ASSUME NEW h \in Handlers
      PROVE  req'[h] \in Request /\ (req'[h] # Idle => req[h] # Idle /\ req'[h].jti = req[h].jti)
  <2>1. CASE req[h] \in Validating
    <3>1. req'[h] = [req[h] EXCEPT !.barred = @ \ {x}]
      BY <2>1 DEF Lift
    <3>2. req[h] # Idle
      BY <2>1 DEF Idle, Validating
    <3> QED BY <2>1, <3>1, <3>2, Lifted DEF Request
  <2>2. CASE req[h] \notin Validating
    BY <2>2 DEF Lift, Typed, TypeOK
  <2> QED BY <2>1, <2>2
<1> QED BY <1>1 DEF Lift, Typed, TypeOK, stores, redis, Issued

(* Every step keeps the types, and requests to issued tokens. *)
LEMMA TypedStep == Typed /\ [Next]_vars => Typed'
<1> SUFFICES ASSUME Typed, [Next]_vars PROVE Typed'
  OBVIOUS
<1> USE DEF Typed, TypeOK, Issued, stores, redis, standing
<1>1. ASSUME NEW j \in Tokens, Issue(j) PROVE Typed'
  BY <1>1, AccessTokensAssumption DEF Issue
<1>2. ASSUME NEW h \in Handlers, NEW r \in Replicas, NEW j \in Tokens, Logout(h, r, j) PROVE Typed'
  <2>1. [pc |-> "record", jti |-> j, at |-> r] \in Request
    BY DEF Request, LoggingOut
  <2> QED BY <1>2, <2>1 DEF Logout, Parses, Become
<1>3. ASSUME NEW h \in Handlers, NEW r \in Replicas, NEW j \in Tokens, ValidateToken(h, r, j)
      PROVE Typed'
  <2> DEFINE q == [pc |-> "denylist", jti |-> j, at |-> r,
                   barred |-> {x \in Reason : \/ x = "recorded" /\ j \in revoked_tokens \cap answered
                                              \/ x = "settled" /\ j \in settled
                                              \/ x = "deleted" /\ ~active
                                              \/ x = "removed" /\ ~member}]
  <2>1. q \in Request /\ q.jti = j
    BY DEF Request, Validating
  <2>2. req' = [req EXCEPT ![h] = q] /\ j \in Issued /\ UNCHANGED <<now, stores, standing, redis>>
    BY <1>3 DEF ValidateToken, Parses, Become
  <2> HIDE DEF q
  <2> QED BY <2>1, <2>2
<1>4. ASSUME NEW h \in Handlers, RevokeAccessJTI(h) PROVE Typed'
  <2>1. req[h] \in LoggingOut /\ req[h] # Idle
    BY <1>4, RequestFields DEF RevokeAccessJTI, Idle
  <2>2. [req[h] EXCEPT !.pc = "mirror"] \in LoggingOut
        /\ [req[h] EXCEPT !.pc = "mirror"].jti = req[h].jti
    BY <2>1, MirrorPc
  <2> QED BY <1>4, <2>1, <2>2 DEF RevokeAccessJTI, Become, Request
<1>5. ASSUME NEW h \in Handlers, Deny(h) PROVE Typed'
  <2>1. req[h] \in LoggingOut /\ req[h] # Idle
    BY <1>5, RequestFields DEF Deny, Idle
  <2> QED BY <1>5, <2>1 DEF Deny, Become, Request, LoggingOut
<1>6. ASSUME NEW h \in Handlers, IsDenied(h) \/ IsUserActive(h) \/ IsActiveMember(h) PROVE Typed'
  BY <1>6, CheckTyped DEF IsDenied, IsUserActive, IsActiveMember, Denied
<1>7. ASSUME NEW h \in Handlers, Finish(h) PROVE Typed'
  BY <1>7 DEF Finish, Become, Request
<1>8. CASE RestoreUser \/ AddMember
  BY <1>8, LiftTyped DEF RestoreUser, AddMember
<1>9. CASE SoftDeleteUser \/ RemoveMember
  BY <1>9 DEF SoftDeleteUser, RemoveMember
<1>14. CASE Tick
  BY <1>14 DEF Tick
<1>13. CASE RedisFlips
  BY <1>13 DEF RedisFlips
<1>10. ASSUME NEW r \in Replicas, Boot(r) PROVE Typed'
  BY <1>10, AccessTokensAssumption DEF Boot, Request
<1>11. CASE UNCHANGED vars
  BY <1>11 DEF vars
<1>12. CASE Next
  <2> HIDE DEF Typed, TypeOK, Issued, stores, redis, standing
  <2> QED BY <1>1, <1>2, <1>3, <1>4, <1>5, <1>6, <1>7, <1>8, <1>9, <1>10, <1>12,
            <1>13, <1>14 DEF Next
<1> QED BY <1>11, <1>12

(* Requests name issued tokens only. *)
LEMMA AlwaysTyped == Spec => []Typed
<1>1. Init => Typed
  BY AccessTokensAssumption DEF Init, Typed, TypeOK, Issued, Request
<1> QED BY <1>1, TypedStep, PTL DEF Spec

(* No state ever leaves the types. *)
THEOREM TypeCorrect == Spec => []TypeOK
BY AlwaysTyped, PTL DEF Typed

-----------------------------------------------------------------------------
(* What a token written to both denylists looks like there. *)
Mirrored == \A j \in settled : j \in revoked_tokens /\ denylist[j] = exp[j]

(* How far a validation can get: past the denylist only after expiry if    *)
(* the token was settled, past each later check only if its reason does    *)
(* not hold; and a reason it remembers still holds.                        *)
Screened(r) ==
  /\ "settled" \in r.barred => r.jti \in settled
  /\ "deleted" \in r.barred => ~active
  /\ "removed" \in r.barred => ~member
  /\ r.pc # "denylist" /\ "settled" \in r.barred => exp[r.jti] <= now
  /\ r.pc \in {"member", "accepted"} => "deleted" \notin r.barred
  /\ r.pc = "accepted" => "removed" \notin r.barred

Progress == \A h \in Handlers : req[h] \in Validating => Screened(req[h])

(* A settled token stays in both denylists, whatever Redis and the         *)
(* replicas do.                                                            *)
LEMMA MirroredStep == Typed /\ Mirrored /\ [Next]_vars => Mirrored'
<1> SUFFICES ASSUME Typed, Mirrored, [Next]_vars PROVE Mirrored'
  OBVIOUS
<1> USE DEF Typed, TypeOK, Issued, stores, redis, standing, Mirrored
<1>1. ASSUME NEW j \in Tokens, Issue(j) PROVE Mirrored'
  BY <1>1 DEF Issue
<1>2. ASSUME NEW h \in Handlers, RevokeAccessJTI(h) PROVE Mirrored'
  BY <1>2 DEF RevokeAccessJTI
<1>3. ASSUME NEW h \in Handlers, Deny(h) PROVE Mirrored'
  BY <1>3 DEF Deny
<1>4. CASE UNCHANGED stores
  BY <1>4
<1> HIDE DEF Typed, TypeOK, Issued, redis, standing, Mirrored
<1> QED BY <1>1, <1>2, <1>3, <1>4
        DEF Next, vars, Logout, ValidateToken, IsDenied, IsUserActive, IsActiveMember, Check,
            Finish, SoftDeleteUser, RestoreUser, RemoveMember, AddMember, RedisFlips, Boot, Tick

(* Steps that leave requests alone, or end some, and undo no reason. *)
LEMMA WorldKeepsProgress ==
  ASSUME Typed, Typed', Progress, now <= now', settled \subseteq settled',
         \A j \in Issued : exp'[j] = exp[j],
         active' => active, member' => member,
         \A h \in Handlers : req'[h] = req[h] \/ req'[h] \notin Validating
  PROVE  Progress'
<1> SUFFICES ASSUME NEW h \in Handlers, req'[h] \in Validating PROVE Screened(req[h])'
  BY DEF Progress
<1>1. req'[h] = req[h] /\ req[h] # Idle /\ req[h].jti \in Issued
  BY DEF Idle, Validating, Typed
<1>2. exp'[req[h].jti] = exp[req[h].jti] /\ exp[req[h].jti] \in Nat /\ now \in Nat /\ now' \in Nat
  BY <1>1 DEF Typed, TypeOK, Issued
<1>3. Screened(req[h])
  BY <1>1 DEF Progress
<1> QED BY <1>1, <1>2, <1>3 DEF Screened

(* One check of one validation. *)
LEMMA CheckKeepsProgress ==
  ASSUME Typed, Progress, NEW h \in Handlers, NEW step \in {"denylist", "user", "member"},
         NEW ok, NEW next \in {"user", "member", "accepted"}, Check(h, step, ok, next),
         ok => Screened([req[h] EXCEPT !.pc = next])
  PROVE  Progress'
<1> SUFFICES ASSUME NEW g \in Handlers, req'[g] \in Validating PROVE Screened(req[g])'
  BY DEF Progress
<1>1. UNCHANGED <<exp, now, settled, active, member>>
  BY DEF Check, stores, standing
<1>2. CASE g # h
  <2>1. req'[g] = req[g] /\ Screened(req[g])
    BY <1>2 DEF Check, Become, Typed, TypeOK, Progress
  <2> QED BY <1>1, <2>1 DEF Screened
<1>3. CASE g = h
  <2> PICK q : q = [req[h] EXCEPT !.pc = next]
    OBVIOUS
  <2>1. ok /\ req'[h] = q
    BY <1>3 DEF Check, Become, Typed, TypeOK, Idle, Validating
  <2>2. Screened(q)
    BY <2>1
  <2> QED BY <1>1, <1>3, <2>1, <2>2 DEF Screened
<1> QED BY <1>2, <1>3

(* Undoing a deletion or a removal keeps what passed checks promise. *)
LEMMA LiftKeepsProgress ==
  ASSUME Typed, Progress, NEW x, Lift(x), UNCHANGED <<now, stores, redis>>,
         active' = active \/ x = "deleted", member' = member \/ x = "removed"
  PROVE  Progress'
<1> SUFFICES ASSUME NEW h \in Handlers, req'[h] \in Validating PROVE Screened(req[h])'
  BY DEF Progress
<1>1. CASE req[h] \in Validating
  <2> PICK q \in Validating : q = [req[h] EXCEPT !.barred = @ \ {x}]
    BY <1>1, Lifted
  <2>1. req'[h] = q /\ q.pc = req[h].pc /\ q.jti = req[h].jti /\ q.barred = req[h].barred \ {x}
    BY <1>1, Lifted DEF Lift
  <2>2. Screened(req[h])
    BY <1>1 DEF Progress
  <2>3. /\ exp' = exp /\ now' = now /\ settled' = settled
        /\ active' = active \/ "deleted" \notin q.barred
        /\ member' = member \/ "removed" \notin q.barred
    BY <2>1 DEF stores
  <2> QED BY <2>1, <2>2, <2>3 DEF Screened
<1>2. CASE req[h] \notin Validating
  BY <1>2 DEF Lift
<1> QED BY <1>1, <1>2

(* No step makes a validation pass a check that a standing reason should   *)
(* have failed.                                                            *)
LEMMA ProgressStep == Typed /\ Mirrored /\ Progress /\ [Next]_vars => Progress'
<1> SUFFICES ASSUME Typed, Mirrored, Progress, [Next]_vars PROVE Progress'
  OBVIOUS
<1>0. Typed' /\ now \in Nat /\ settled \subseteq Issued
  BY TypedStep DEF Typed, TypeOK
<1>1. ASSUME NEW j \in Tokens, Issue(j) PROVE Progress'
  BY <1>0, <1>1, WorldKeepsProgress DEF Issue, standing
<1>2. ASSUME NEW h \in Handlers, NEW r \in Replicas, NEW j \in Tokens, Logout(h, r, j)
      PROVE Progress'
  <2>1. [pc |-> "record", jti |-> j, at |-> r] \notin Validating
    BY DEF Validating
  <2> QED BY <1>0, <1>2, <2>1, WorldKeepsProgress DEF Logout, Become, Typed, TypeOK, stores, standing
<1>3. ASSUME NEW h \in Handlers, NEW r \in Replicas, NEW j \in Tokens, ValidateToken(h, r, j)
      PROVE Progress'
  <2> PICK q : q = [pc |-> "denylist", jti |-> j, at |-> r,
                    barred |-> {x \in Reason : \/ x = "recorded" /\ j \in revoked_tokens \cap answered
                                               \/ x = "settled" /\ j \in settled
                                               \/ x = "deleted" /\ ~active
                                               \/ x = "removed" /\ ~member}]
    OBVIOUS
  <2>1. /\ q.pc = "denylist" /\ q.jti = j
        /\ "settled" \in q.barred => j \in settled
        /\ "deleted" \in q.barred => ~active
        /\ "removed" \in q.barred => ~member
    OBVIOUS
  <2>2. req' = [req EXCEPT ![h] = q] /\ UNCHANGED <<now, stores, standing>>
    BY <1>3 DEF ValidateToken, Become
  <2>3. Screened(q)
    BY <2>1 DEF Screened
  <2>4. ASSUME NEW g \in Handlers, req'[g] \in Validating PROVE Screened(req'[g])
    BY <2>2, <2>3, <2>4 DEF Progress, Typed, TypeOK
  <2>5. ASSUME NEW p, Screened(p) PROVE Screened(p)'
    BY <2>2, <2>5 DEF Screened, stores, standing
  <2>6. ASSUME NEW g \in Handlers, req'[g] \in Validating PROVE Screened(req[g])'
    BY <2>4, <2>6, <2>2 DEF Screened, stores, standing
  <2> QED BY <2>6 DEF Progress
<1>4. ASSUME NEW h \in Handlers, RevokeAccessJTI(h) PROVE Progress'
  <2>1. req[h] \in LoggingOut
    BY <1>4, RequestFields DEF RevokeAccessJTI, Typed, TypeOK
  <2>2. [req[h] EXCEPT !.pc = "mirror"] \notin Validating
    BY <2>1, MirrorPc, RequestFields DEF Request
  <2> QED BY <1>0, <1>4, <2>2, WorldKeepsProgress
          DEF RevokeAccessJTI, Become, Typed, TypeOK, standing
<1>5. ASSUME NEW h \in Handlers, Deny(h) PROVE Progress'
  <2>1. Idle \notin Validating
    BY DEF Idle, Validating
  <2> QED BY <1>0, <1>5, <2>1, WorldKeepsProgress DEF Deny, Become, Typed, TypeOK, standing
<1>6. ASSUME NEW h \in Handlers, IsDenied(h) PROVE Progress'
  <2> PICK q : q = [req[h] EXCEPT !.pc = "user"]
    OBVIOUS
  <2>1. req[h] \in Validating /\ req[h].pc = "denylist"
    BY <1>6, RequestFields DEF IsDenied, Check, Typed, TypeOK
  <2>2. q.pc = "user" /\ q.jti = req[h].jti /\ q.barred = req[h].barred
    BY <2>1, NextPc
  <2>3. Screened(req[h]) /\ req[h].jti \in Issued /\ exp[req[h].jti] \in Nat
    BY <2>1 DEF Progress, Typed, TypeOK, Idle, Validating, Issued
  <2>4. ~Denied(req[h].at, req[h].jti) /\ req[h].jti \in settled => exp[req[h].jti] <= now
    BY <1>0, <2>3 DEF Denied, Mirrored
  <2>5. ~Denied(req[h].at, req[h].jti) => Screened(q)
    BY <2>2, <2>3, <2>4 DEF Screened
  <2> QED BY <1>6, <2>5, CheckKeepsProgress DEF IsDenied
<1>7. ASSUME NEW h \in Handlers, IsUserActive(h) PROVE Progress'
  <2> PICK q : q = [req[h] EXCEPT !.pc = "member"]
    OBVIOUS
  <2>1. req[h] \in Validating /\ req[h].pc = "user"
    BY <1>7, RequestFields DEF IsUserActive, Check, Typed, TypeOK
  <2>2. q.pc = "member" /\ q.jti = req[h].jti /\ q.barred = req[h].barred
    BY <2>1, NextPc
  <2>3. active => Screened(q)
    BY <2>1, <2>2 DEF Screened, Progress
  <2> QED BY <1>7, <2>3, CheckKeepsProgress DEF IsUserActive
<1>8. ASSUME NEW h \in Handlers, IsActiveMember(h) PROVE Progress'
  <2> PICK q : q = [req[h] EXCEPT !.pc = "accepted"]
    OBVIOUS
  <2>1. req[h] \in Validating /\ req[h].pc = "member"
    BY <1>8, RequestFields DEF IsActiveMember, Check, Typed, TypeOK
  <2>2. q.pc = "accepted" /\ q.jti = req[h].jti /\ q.barred = req[h].barred
    BY <2>1, NextPc
  <2>3. member => Screened(q)
    BY <2>1, <2>2 DEF Screened, Progress
  <2> QED BY <1>8, <2>3, CheckKeepsProgress DEF IsActiveMember
<1>9. ASSUME NEW h \in Handlers, Finish(h) PROVE Progress'
  <2>1. Idle \notin Validating
    BY DEF Idle, Validating
  <2> QED BY <1>0, <1>9, <2>1, WorldKeepsProgress
          DEF Finish, Become, Typed, TypeOK, stores, standing
<1>10. CASE RestoreUser \/ AddMember
  BY <1>10, LiftKeepsProgress DEF RestoreUser, AddMember
<1>11. CASE SoftDeleteUser \/ RemoveMember
  BY <1>0, <1>11, WorldKeepsProgress DEF SoftDeleteUser, RemoveMember, stores
<1>12. CASE RedisFlips
  BY <1>0, <1>12, WorldKeepsProgress DEF RedisFlips, stores, standing
<1>13. CASE Tick
  <2>1. now <= now'
    BY <1>0, <1>13 DEF Tick
  <2> QED BY <1>0, <1>13, <2>1, WorldKeepsProgress DEF Tick, stores, standing
<1>14. ASSUME NEW r \in Replicas, Boot(r) PROVE Progress'
  <2>1. Idle \notin Validating
    BY DEF Idle, Validating
  <2> QED BY <1>0, <1>14, <2>1, WorldKeepsProgress DEF Boot, stores, standing
<1>15. CASE UNCHANGED vars
  BY <1>0, <1>15, WorldKeepsProgress DEF vars, stores, standing
<1>16. CASE Next
  BY <1>1, <1>2, <1>3, <1>4, <1>5, <1>6, <1>7, <1>8, <1>9, <1>10, <1>11, <1>12, <1>13, <1>14,
     <1>16 DEF Next
<1> QED BY <1>15, <1>16

(* A logout that reached both denylists, a deletion and a removal are      *)
(* honoured by every validation that starts after them, until the token    *)
(* expires or they are undone: on every replica, with or without a Redis   *)
(* client, whatever fails and restarts in between.                         *)
THEOREM NoStaleAcceptanceCorrect == Spec => []NoStaleAcceptance
<1>1. Init => Mirrored /\ Progress
  BY DEF Init, Mirrored, Progress, Idle, Validating
<1>2. Typed /\ Progress => NoStaleAcceptance
  <2> SUFFICES ASSUME Typed, Progress, NEW h \in Handlers, req[h].pc = "accepted"
               PROVE  /\ "deleted" \notin req[h].barred
                      /\ "removed" \notin req[h].barred
                      /\ "settled" \in req[h].barred => exp[req[h].jti] <= now
    BY DEF NoStaleAcceptance
  <2>1. req[h] \in Validating
    BY RequestFields DEF Typed, TypeOK
  <2> QED BY <2>1 DEF Progress, Screened
<1> QED BY <1>1, <1>2, AlwaysTyped, TypedStep, MirroredStep, ProgressStep, PTL DEF Spec

-----------------------------------------------------------------------------
(* A validation that started with its token in the durable denylist, on a  *)
(* replica without a Redis client, never gets past the denylist.           *)
Held(r) ==
  "recorded" \in r.barred /\ ~client[r.at] => r.jti \in revoked_tokens /\ r.pc = "denylist"

AllHeld == \A h \in Handlers : req[h] \in Validating => Held(req[h])

(* A validation of a recorded token on a replica without a Redis client    *)
(* never gets past the denylist.                                           *)
LEMMA HeldStep == Typed /\ AllHeld /\ [Next]_vars => AllHeld'
<1> SUFFICES ASSUME Typed, AllHeld, [Next]_vars PROVE AllHeld'
  OBVIOUS
<1> DEFINE StillHeld(r) == "recorded" \in r.barred /\ ~client'[r.at]
                             => r.jti \in revoked_tokens' /\ r.pc = "denylist"
           Kept == \A g \in Handlers : req'[g] \in Validating => StillHeld(req'[g])
<1>1. revoked_tokens \subseteq revoked_tokens'
  BY DEF Next, vars, Issue, Logout, ValidateToken, RevokeAccessJTI, Deny, IsDenied,
         IsUserActive, IsActiveMember, Check, Finish, SoftDeleteUser, RestoreUser,
         RemoveMember, AddMember, RedisFlips, Tick, Boot, stores
<1>2. ASSUME NEW g \in Handlers, req'[g] = req[g], req[g] \in Validating,
             client'[req[g].at] = client[req[g].at]
      PROVE  StillHeld(req'[g])
  <2>1. Held(req[g])
    BY <1>2 DEF AllHeld
  <2> QED BY <1>1, <1>2, <2>1 DEF Held
(* A step that changes one request, to r. *)
<1>3. ASSUME NEW h \in Handlers, NEW r, Become(h, r), UNCHANGED client, r \in Validating => StillHeld(r)
      PROVE  Kept
  <2> SUFFICES ASSUME NEW g \in Handlers, req'[g] \in Validating PROVE StillHeld(req'[g])
    OBVIOUS
  <2>1. req'[g] = IF g = h THEN r ELSE req[g]
    BY <1>3 DEF Become, Typed, TypeOK
  <2>2. CASE g = h
    BY <1>3, <2>1, <2>2
  <2>3. CASE g # h
    BY <1>2, <1>3, <2>1, <2>3
  <2> QED BY <2>2, <2>3
<1>4. Idle \notin Validating
  BY DEF Idle, Validating
<1>5. ASSUME NEW h \in Handlers, NEW r \in Replicas, NEW j \in Tokens, ValidateToken(h, r, j)
      PROVE Kept
  <2> PICK q : q = [pc |-> "denylist", jti |-> j, at |-> r,
                    barred |-> {x \in Reason : \/ x = "recorded" /\ j \in revoked_tokens \cap answered
                                               \/ x = "settled" /\ j \in settled
                                               \/ x = "deleted" /\ ~active
                                               \/ x = "removed" /\ ~member}]
    OBVIOUS
  <2>1. q.pc = "denylist" /\ q.jti = j /\ ("recorded" \in q.barred => j \in revoked_tokens)
    OBVIOUS
  <2>2. Become(h, q) /\ UNCHANGED client
    BY <1>5 DEF ValidateToken, redis
  <2> QED BY <1>1, <1>3, <2>1, <2>2
<1>6. ASSUME NEW h \in Handlers, NEW r \in Replicas, NEW j \in Tokens, Logout(h, r, j) PROVE Kept
  <2>1. [pc |-> "record", jti |-> j, at |-> r] \notin Validating
    BY DEF Validating
  <2>2. Become(h, [pc |-> "record", jti |-> j, at |-> r]) /\ UNCHANGED client
    BY <1>6 DEF Logout, redis
  <2> QED BY <1>3, <2>1, <2>2
<1>7. ASSUME NEW h \in Handlers, RevokeAccessJTI(h) PROVE Kept
  <2>1. [req[h] EXCEPT !.pc = "mirror"] \notin Validating
    BY <1>7, MirrorPc, RequestFields DEF Request, RevokeAccessJTI, Typed, TypeOK
  <2>2. Become(h, [req[h] EXCEPT !.pc = "mirror"]) /\ UNCHANGED client
    BY <1>7 DEF RevokeAccessJTI, redis
  <2> QED BY <1>3, <2>1, <2>2
<1>8. ASSUME NEW h \in Handlers, Deny(h) \/ Finish(h) PROVE Kept
  <2>1. Become(h, Idle) /\ UNCHANGED client
    BY <1>8 DEF Deny, Finish, redis
  <2> QED BY <1>3, <1>4, <2>1
<1>9. ASSUME NEW h \in Handlers, IsDenied(h) PROVE Kept
  <2> PICK q : q = [req[h] EXCEPT !.pc = "user"]
    OBVIOUS
  <2>1. req[h] \in Validating /\ req[h].pc = "denylist"
    BY <1>9, RequestFields DEF IsDenied, Check, Typed, TypeOK
  <2>2. q.jti = req[h].jti /\ q.barred = req[h].barred /\ q.at = req[h].at
    BY <2>1, NextPc
  <2>3. UNCHANGED client /\ Become(h, IF ~Denied(req[h].at, req[h].jti) THEN q ELSE Idle)
    BY <1>9 DEF IsDenied, Check, redis
  <2>4. CASE Denied(req[h].at, req[h].jti)
    BY <1>3, <1>4, <2>3, <2>4
  <2>5. CASE ~Denied(req[h].at, req[h].jti)
    <3>1. Held(req[h])
      BY <2>1 DEF AllHeld
    <3>2. "recorded" \in q.barred => client[q.at]
      BY <2>2, <2>5, <3>1 DEF Denied, AsksRedis, Held
    <3> QED BY <1>3, <2>3, <2>5, <3>2
  <2> QED BY <2>4, <2>5
<1>10. ASSUME NEW h \in Handlers, NEW step \in {"user", "member"}, NEW ok,
              NEW next \in {"member", "accepted"}, Check(h, step, ok, next)
       PROVE  Kept
  <2> PICK q : q = [req[h] EXCEPT !.pc = next]
    OBVIOUS
  <2>1. req[h] \in Validating /\ req[h].pc = step
    BY <1>10, RequestFields DEF Check, Typed, TypeOK
  <2>2. q.barred = req[h].barred /\ q.at = req[h].at
    BY <2>1, NextPc
  <2>3. UNCHANGED client /\ Become(h, IF ok THEN q ELSE Idle)
    BY <1>10 DEF Check, redis
  <2>4. Held(req[h])
    BY <2>1 DEF AllHeld
  <2>5. StillHeld(q)
    BY <2>1, <2>2, <2>3, <2>4 DEF Held
  <2> QED BY <1>3, <1>4, <2>3, <2>5
<1>11. ASSUME NEW x \in {"deleted", "removed"}, Lift(x), UNCHANGED client PROVE Kept
  <2> SUFFICES ASSUME NEW h \in Handlers, req'[h] \in Validating PROVE StillHeld(req'[h])
    OBVIOUS
  <2>1. CASE req[h] \in Validating
    <3>1. req'[h] = [req[h] EXCEPT !.barred = @ \ {x}]
      BY <1>11, <2>1 DEF Lift
    <3> PICK q : q = [req[h] EXCEPT !.barred = @ \ {x}]
      OBVIOUS
    <3>2. /\ q.pc = req[h].pc /\ q.jti = req[h].jti /\ q.at = req[h].at
          /\ q.barred = req[h].barred \ {x}
      BY <2>1, Lifted
    <3>3. Held(req[h])
      BY <2>1 DEF AllHeld
    <3>4. StillHeld(q)
      BY <1>1, <1>11, <3>2, <3>3 DEF Held
    <3> QED BY <3>1, <3>4
  <2>2. CASE req[h] \notin Validating
    BY <1>11, <2>2 DEF Lift
  <2> QED BY <2>1, <2>2
<1>12. ASSUME NEW r \in Replicas, Boot(r) PROVE Kept
  <2> SUFFICES ASSUME NEW g \in Handlers, req'[g] \in Validating PROVE StillHeld(req'[g])
    OBVIOUS
  <2>1. req'[g] = req[g] /\ req[g].at # r
    BY <1>4, <1>12 DEF Boot, Idle, Validating
  <2>2. req[g].at \in Replicas /\ req[g] \in Validating
    BY <2>1 DEF Validating
  <2>3. client'[req[g].at] = client[req[g].at]
    BY <1>12, <2>1, <2>2 DEF Boot, Typed, TypeOK
  <2> QED BY <1>2, <2>1, <2>2, <2>3
<1>13. ASSUME UNCHANGED <<req, client>> PROVE Kept
  BY <1>2, <1>13
<1>14. Kept
  <2> HIDE DEF Kept
  <2>1. ASSUME NEW h \in Handlers, IsUserActive(h) \/ IsActiveMember(h) PROVE Kept
    BY <1>10, <2>1 DEF IsUserActive, IsActiveMember
  <2>2. CASE RestoreUser \/ AddMember
    <3>1. UNCHANGED client /\ (Lift("deleted") \/ Lift("removed"))
      BY <2>2 DEF RestoreUser, AddMember, redis
    <3> QED BY <1>11, <3>1
  <2>3. CASE SoftDeleteUser \/ RemoveMember \/ RedisFlips \/ Tick
    <3>1. UNCHANGED <<req, client>>
      BY <2>3 DEF SoftDeleteUser, RemoveMember, RedisFlips, Tick, redis
    <3> QED BY <1>13, <3>1
  <2>4. CASE UNCHANGED vars
    BY <1>13, <2>4 DEF vars, redis
  <2>5. ASSUME NEW j \in Tokens, Issue(j) PROVE Kept
    BY <1>13, <2>5 DEF Issue, redis
  <2> QED BY <1>5, <1>6, <1>7, <1>8, <1>9, <1>12, <2>1, <2>2, <2>3, <2>4, <2>5 DEF Next
<1> QED BY <1>14 DEF AllHeld, Held

(* Every replica without a Redis client honours the durable denylist, and  *)
(* does so past the expiry, until the end of the leeway.                   *)
THEOREM DurableDenylistCorrect == Spec => []DurableDenylistHonored
<1>1. Init => AllHeld
  BY DEF Init, AllHeld, Idle, Validating
<1>2. Typed /\ AllHeld => DurableDenylistHonored
  BY RequestFields DEF DurableDenylistHonored, Typed, TypeOK, AllHeld, Held
<1> QED BY <1>1, <1>2, AlwaysTyped, HeldStep, PTL DEF Spec

-----------------------------------------------------------------------------
(* Boot: the keys a server has not loaded are those newer than its own.    *)

KeysHeld == \A p \in Servers : HasKeys(p) => keys \subseteq loaded[p].verifiers \cup newer[p]

BootInv == BootTypeOK /\ KeysHeld

(* Nothing runs at first, and there is no key. *)
LEMMA BootInitInv == BootInit => BootInv
<1> SUFFICES ASSUME BootInit PROVE BootInv
  OBVIOUS
<1>1. \A p \in Servers : p \in Processes /\ pc[p] = "down" /\ loaded[p] = NoKeys /\ newer[p] = {}
  BY DEF BootInit, Processes
<1>2. \A p \in Servers : ~HasKeys(p)
  BY <1>1 DEF HasKeys
<1>3. /\ attempts \in [Processes -> 0..MaxAttempts] /\ deletes \in 0..MaxDeletes
      /\ pc \in [Processes -> Step] /\ newer \in [Servers -> SUBSET keys]
  BY BootAssumption DEF BootInit, Step
<1>4. NoKeys \in [active : Kids \cup {None}, verifiers : SUBSET Kids] /\ NoKeys.verifiers = {}
  BY DEF NoKeys
<1>5. BootTypeOK
  BY <1>1, <1>2, <1>3, <1>4 DEF BootInit, BootTypeOK
<1> QED BY <1>2, <1>5 DEF BootInv, KeysHeld

(* A process walks on, or anything happens that leaves the keys alone.     *)
LEMMA Walks ==
  ASSUME BootInv, NEW p \in Processes, NEW step \in Step, Goto(p, step),
         step \in {"listen", "serving"} <=> pc[p] \in {"listen", "serving"},
         migrated' \in BOOLEAN, console' \in BOOLEAN, accounts' \subseteq Accounts,
         attempts' \in [Processes -> 0..MaxAttempts],
         UNCHANGED <<keys, current, loaded, deletes, quiet, history>>
  PROVE  BootInv'
<1>1. pc' \in [Processes -> Step] /\ \A q \in Processes : HasKeys(q)' <=> HasKeys(q)
  BY DEF Goto, HasKeys, BootInv, BootTypeOK
<1>2. \A q \in Servers : HasKeys(q)' <=> HasKeys(q)
  BY <1>1 DEF Processes
<1> QED BY <1>1, <1>2 DEF BootInv, BootTypeOK, KeysHeld, history

LEMMA Rests ==
  ASSUME BootInv, migrated' \in BOOLEAN, console' \in BOOLEAN, accounts' \subseteq Accounts,
         attempts' \in [Processes -> 0..MaxAttempts], deletes' \in 0..MaxDeletes, quiet' \in BOOLEAN,
         signed' \subseteq keys,
         UNCHANGED <<pc, keys, current, loaded, newer>>
  PROVE  BootInv'
BY DEF BootInv, BootTypeOK, KeysHeld, HasKeys

(* A process ends; what it had loaded is gone. *)
LEMMA StopStep ==
  ASSUME BootInv, NEW p \in Processes, Stop(p)
  PROVE  BootInv'
<1>1. "down" \in Step /\ pc' = [pc EXCEPT ![p] = "down"]
  BY DEF Stop, Goto, Step
<1>2. pc' \in [Processes -> Step] /\ ~HasKeys(p)' /\ \A q \in Processes \ {p} : HasKeys(q)' <=> HasKeys(q)
  BY <1>1 DEF HasKeys, BootInv, BootTypeOK
<1>3. NoKeys \in [active : Kids \cup {None}, verifiers : SUBSET Kids] /\ NoKeys.verifiers = {}
  BY DEF NoKeys
<1>4. \A q \in Servers : IF q = p THEN loaded'[q] = NoKeys /\ newer'[q] = {}
                                  ELSE loaded'[q] = loaded[q] /\ newer'[q] = newer[q]
  BY DEF Stop, BootInv, BootTypeOK
<1>5. loaded' \in [Servers -> [active : Kids \cup {None}, verifiers : SUBSET Kids]]
      /\ newer' \in [Servers -> SUBSET keys]
  BY <1>3 DEF Stop, BootInv, BootTypeOK
<1>6. UNCHANGED <<migrated, accounts, console, keys, current, attempts, deletes, quiet, signed>>
  BY DEF Stop, db
<1>7. \A q \in Servers : q \in Processes
  BY DEF Processes
<1>8. ASSUME NEW q \in Servers
      PROVE  /\ loaded'[q].verifiers \subseteq keys
             /\ IF HasKeys(q)' THEN loaded'[q].active \in loaded'[q].verifiers ELSE loaded'[q] = NoKeys
             /\ HasKeys(q)' => keys \subseteq loaded'[q].verifiers \cup newer'[q]
  BY <1>2, <1>3, <1>4, <1>7 DEF BootInv, BootTypeOK, KeysHeld
<1> QED BY <1>2, <1>5, <1>6, <1>8 DEF BootInv, BootTypeOK, KeysHeld

(* A server loads all keys there are, after the one it inserts, if any.    *)
(* If it inserts one no other server has keys yet.                         *)
LEMMA LoadStep ==
  ASSUME BootInv, NEW p \in Servers, Goto(p, "listen"),
         Load(p, [active |-> current', verifiers |-> keys']),
         keys' \subseteq Kids, current' \in keys', keys = {} \/ keys' = keys,
         UNCHANGED <<migrated, accounts, console, attempts, deletes, quiet, signed>>
  PROVE  BootInv'
<1> DEFINE mine == [active |-> current', verifiers |-> keys']
<1>1. "listen" \in Step /\ pc' = [pc EXCEPT ![p] = "listen"] /\ p \in Processes
  BY DEF Goto, Step, Processes
<1>2. pc' \in [Processes -> Step] /\ HasKeys(p)' /\ \A q \in Processes \ {p} : HasKeys(q)' <=> HasKeys(q)
  BY <1>1 DEF HasKeys, BootInv, BootTypeOK
<1>3. /\ mine \in [active : Kids \cup {None}, verifiers : SUBSET Kids]
      /\ mine.verifiers = keys' /\ mine.active \in mine.verifiers
  OBVIOUS
<1>4. loaded' = [loaded EXCEPT ![p] = mine] /\ newer' = [newer EXCEPT ![p] = {}]
  BY DEF Load
<1> HIDE DEF mine
<1>5. keys \subseteq keys'
  OBVIOUS
<1>6. /\ loaded' \in [Servers -> [active : Kids \cup {None}, verifiers : SUBSET Kids]]
      /\ newer' \in [Servers -> SUBSET keys']
  BY <1>3, <1>4, <1>5 DEF BootInv, BootTypeOK
<1>7. ASSUME NEW q \in Servers
      PROVE  /\ loaded'[q].verifiers \subseteq keys'
             /\ IF HasKeys(q)' THEN loaded'[q].active \in loaded'[q].verifiers ELSE loaded'[q] = NoKeys
             /\ HasKeys(q)' => keys' \subseteq loaded'[q].verifiers \cup newer'[q]
  <2>1. CASE q = p
    BY <1>2, <1>3, <1>4, <2>1 DEF BootInv, BootTypeOK
  <2>2. CASE q # p
    <3>1. loaded'[q] = loaded[q] /\ newer'[q] = newer[q] /\ (HasKeys(q)' <=> HasKeys(q))
      BY <1>2, <1>4, <2>2 DEF BootInv, BootTypeOK, Processes
    <3>2. HasKeys(q) => keys' = keys
      BY DEF BootInv, BootTypeOK
    <3> QED BY <1>5, <3>1, <3>2 DEF BootInv, BootTypeOK, KeysHeld
  <2> QED BY <2>1, <2>2
<1>8. signed' \subseteq keys' /\ keys' # {}
  BY <1>5 DEF BootInv, BootTypeOK
<1> QED BY <1>2, <1>6, <1>7, <1>8 DEF BootInv, BootTypeOK, KeysHeld

LEMMA ReadKeysStep ==
  ASSUME BootInv, NEW p \in Servers, ReadKeys(p)
  PROVE  BootInv'
<1>1. CASE keys = {}
  <2>1. p \in Processes /\ "key" \in Step /\ Goto(p, "key") /\ pc[p] \notin {"listen", "serving"}
    BY <1>1 DEF ReadKeys, Processes, Step
  <2>2. UNCHANGED <<migrated, accounts, console, attempts, keys, current, loaded, deletes, quiet, history>>
    BY <1>1 DEF ReadKeys, db, history
  <2> QED BY <2>1, <2>2, Walks DEF BootInv, BootTypeOK
<1>2. CASE keys # {}
  <2>1. Goto(p, "listen") /\ Load(p, [active |-> current', verifiers |-> keys']) /\ UNCHANGED <<db, attempts, deletes, quiet, signed>>
    BY <1>2 DEF ReadKeys, db
  <2>2. keys' = keys /\ current' \in keys' /\ keys' \subseteq Kids
    BY <1>2, <2>1 DEF db, BootInv, BootTypeOK
  <2> QED BY <2>1, <2>2, LoadStep DEF db
<1> QED BY <1>1, <1>2

LEMMA InsertKeyStep ==
  ASSUME BootInv, NEW p \in Servers, NEW k \in Kids, InsertKey(p, k)
  PROVE  BootInv'
<1>1. keys = {}
  BY BootAssumption DEF InsertKey, BootInv, BootTypeOK
<1>2. keys' = {k} /\ current' = k /\ Load(p, [active |-> current', verifiers |-> keys'])
  BY <1>1 DEF InsertKey
<1> QED BY <1>1, <1>2, LoadStep DEF InsertKey

(* A rotation is noted by every server that has loaded its keys. *)
LEMMA RotateStep ==
  ASSUME BootInv, NEW k \in Kids, Rotate(k)
  PROVE  BootInv'
<1>1. keys' = keys \cup {k} /\ current' = k /\ UNCHANGED <<pc, loaded>>
  BY DEF Rotate
<1>2. \A p \in Servers : newer'[p] = IF HasKeys(p) THEN newer[p] \cup {k} ELSE {}
  BY DEF Rotate
<1>3. newer' \in [Servers -> SUBSET keys']
  BY <1>1 DEF Rotate, BootInv, BootTypeOK
<1>4. \A p \in Servers : HasKeys(p)' <=> HasKeys(p)
  BY <1>1 DEF HasKeys
<1>5. BootTypeOK'
  BY <1>1, <1>3, <1>4 DEF Rotate, BootInv, BootTypeOK
<1> QED BY <1>1, <1>2, <1>4, <1>5 DEF BootInv, KeysHeld

(* What a process does of its own. *)
LEMMA ProceedStep ==
  ASSUME BootInv, NEW p \in Processes, Proceed(p)
  PROVE  BootInv'
<1> USE DEF db, history
<1>0. /\ \A q \in Servers : q \in Processes
      /\ attempts \in [Processes -> 0..MaxAttempts] /\ accounts \subseteq Accounts
      /\ migrated \in BOOLEAN /\ console \in BOOLEAN /\ 0 \in 0..MaxAttempts
  BY BootAssumption DEF Processes, BootInv, BootTypeOK
<1>1. CASE Start(p)
  <2>1. PICK step \in {"migrate", "admin?"} : Goto(p, step)
    BY <1>1 DEF Start
  <2>2. attempts' \in [Processes -> 0..MaxAttempts]
    BY <1>0, <1>1 DEF Start
  <2> QED BY <1>0, <1>1, <2>1, <2>2, Walks DEF Start, Step
<1>2. CASE Migrate(p)
  <2>1. PICK step \in {"done", "admin?"} : Goto(p, step)
    BY <1>2 DEF Migrate
  <2> QED BY <1>0, <1>2, <2>1, Walks DEF Migrate, Step
<1>3. ASSUME NEW step \in {"admin?", "demo?"}, NEW account \in Accounts,
             NEW create \in {"admin", "demo"}, NEW next \in {"console", "keys?"},
             LookUp(p, step, account, create, next)
      PROVE  BootInv'
  <2>1. PICK to \in {create, next} : Goto(p, to)
    BY <1>3 DEF LookUp
  <2>2. to \in Step /\ to \notin {"listen", "serving"} /\ pc[p] \notin {"listen", "serving"}
    BY <1>3 DEF LookUp, Step
  <2> QED BY <1>0, <1>3, <2>1, <2>2, Walks DEF LookUp
<1>4. ASSUME NEW step \in {"admin", "demo"}, NEW account \in Accounts, NEW next \in {"console", "keys?"},
             Create(p, step, account, next)
      PROVE  BootInv'
  <2>1. next \in Step /\ next \notin {"listen", "serving"} /\ pc[p] \notin {"listen", "serving"}
    BY <1>4 DEF Create, Step
  <2> QED BY <1>0, <1>4, <2>1, Walks DEF Create
<1>5. CASE BootstrapOIDCClient(p)
  BY <1>0, <1>5, Walks DEF BootstrapOIDCClient, Step
<1>6. CASE Serve(p)
  BY <1>0, <1>6, Walks DEF Serve, Step
<1>7. CASE Collide(p)
  BY <1>7, StopStep DEF Collide
<1>8. ASSUME FindAdmin(p) \/ CreateAdmin(p) \/ FindDemo(p) \/ CreateDemo(p) PROVE BootInv'
  BY <1>3, <1>4, <1>8 DEF FindAdmin, CreateAdmin, FindDemo, CreateDemo, Accounts
<1> QED BY <1>1, <1>2, <1>5, <1>6, <1>7, <1>8, ReadKeysStep, InsertKeyStep DEF Proceed

LEMMA BootInvStep == BootInv /\ [BootNext]_bootVars => BootInv'
<1> SUFFICES ASSUME BootInv, [BootNext]_bootVars PROVE BootInv'
  OBVIOUS
<1> USE DEF db, history
<1>0. /\ attempts \in [Processes -> 0..MaxAttempts] /\ accounts \subseteq Accounts
      /\ migrated \in BOOLEAN /\ console \in BOOLEAN /\ quiet \in BOOLEAN
      /\ deletes \in 0..MaxDeletes /\ signed \subseteq keys
  BY DEF BootInv, BootTypeOK
<1>1. ASSUME NEW p \in Processes, RetryMigrate(p) PROVE BootInv'
  <2>1. attempts' \in [Processes -> 0..MaxAttempts]
    BY <1>0, <1>1, BootAssumption DEF RetryMigrate
  <2> QED BY <1>0, <1>1, <2>1, Rests DEF RetryMigrate
<1>2. ASSUME NEW p \in Processes, Exit(p) PROVE BootInv'
  BY <1>2, StopStep DEF Exit
<1>3. ASSUME NEW p \in Servers, Sign(p) PROVE BootInv'
  <2>1. loaded[p].active \in keys
    BY <1>3 DEF Sign, HasKeys, BootInv, BootTypeOK
  <2> QED BY <1>0, <1>3, <2>1, Rests DEF Sign
<1>4. ASSUME NEW account \in Accounts, HardDeleteUser(account) PROVE BootInv'
  <2>1. deletes' \in 0..MaxDeletes
    BY <1>0, <1>4, BootAssumption DEF HardDeleteUser
  <2> QED BY <1>0, <1>4, <2>1, Rests DEF HardDeleteUser
<1>5. CASE Quiet
  BY <1>0, <1>5, Rests DEF Quiet
<1>6. CASE UNCHANGED bootVars
  BY <1>0, <1>6, Rests DEF bootVars
<1> QED BY <1>1, <1>2, <1>3, <1>4, <1>5, <1>6, ProceedStep, RotateStep DEF BootNext

(* No reachable state leaves the types: among others, a server signs with  *)
(* a key it verifies by, and never has a key that is not in the table.     *)
THEOREM BootTypeCorrect == BootSpec => []BootTypeOK
<1>1. BootInv => BootTypeOK
  BY DEF BootInv
<1> QED BY <1>1, BootInitInv, BootInvStep, PTL DEF BootSpec

(* For any number of replicas, start-ups, crashes and rotations: a token   *)
(* signed by one replica is verified by every other that serves, unless    *)
(* its key was rotated in since that one started.                          *)
THEOREM KeysAgreeCorrect == BootSpec => []KeysAgree
<1>1. BootInv => KeysAgree
  BY DEF BootInv, BootTypeOK, KeysHeld, KeysAgree, HasKeys
<1> QED BY <1>1, BootInitInv, BootInvStep, PTL DEF BootSpec
=============================================================================
