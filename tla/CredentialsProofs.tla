------------------------- MODULE CredentialsProofs -------------------------
(* Theorems about Credentials, for every value of its constants. *)
EXTENDS Credentials, TLAPS

(* The program counter of a request tells its kind. *)
LEMMA RequestFields ==
  ASSUME NEW r \in Request
  PROVE  /\ r.pc = "idle" <=> r = Idle
         /\ r.pc = "store" <=> r \in Storing
         /\ r.pc = "mark" <=> r \in Marking
         /\ r.pc = "revoke" <=> r \in Revoking
         /\ r.pc = "open" <=> r \in Opening
         /\ r.pc = "rotate" <=> r \in Rotating
BY DEF Request, Idle, Storing, Marking, Revoking, Opening, Rotating

-----------------------------------------------------------------------------
(* The inductive invariant.  Every login that has anything, or a request   *)
(* running, has proved the floor of its user or was spared by the last     *)
(* revocation; the floor is never above the password in force, nor is what *)
(* a revocation will raise it to.                                          *)

Held == sessions \cup graced \cup access \cup vouchers

Fresh(l) == floor[origin[l].user] <= origin[l].proved \/ l \in spared

Sound(r) ==
  /\ r \in Request
  /\ r.pc \in {"open", "rotate"} => r.login \in Begun /\ Fresh(r.login)
  /\ r.pc = "revoke" => r.stored <= password[r.user]

Tables ==
  /\ users \subseteq Users
  /\ password \in [Users -> Nat]
  /\ verified \subseteq users
  /\ Sent \subseteq Tickets
  /\ tickets \in [Sent -> [kind : Kind, user : Users, state : {"open", "consumed", "void"}]]
  /\ \A t \in Sent : tickets[t].state = "open" => tickets[t].user \in users
  /\ honoured \in [Tickets -> Nat]

Origins ==
  /\ Begun \subseteq Logins /\ origin \in [Begun -> [user : Users, proved : Nat]]
  /\ spared \subseteq Begun

Traced ==
  /\ Held \subseteq Begun
  /\ \A l \in Held : Fresh(l)

Floors ==
  /\ floor \in [Users -> Nat]
  /\ \A u \in Users : floor[u] <= password[u]

IInv ==
  /\ Tables /\ Origins /\ Traced /\ Floors
  /\ req \in [Handlers -> Request]
  /\ \A h \in Handlers : Sound(req[h])

(* No request is running, nobody has logged in, no password was changed. *)
LEMMA InitIInv == Init => IInv
<1> SUFFICES ASSUME Init PROVE IInv
  OBVIOUS
<1>1. Tables
  BY DEF Init, Tables, Sent
<1>2. Origins /\ Traced /\ Floors
  BY DEF Init, Origins, Traced, Held, Floors, Begun
<1>3. Sound(Idle)
  BY DEF Sound, Request, Idle
<1>4. req \in [Handlers -> Request] /\ \A h \in Handlers : req[h] = Idle
  BY DEF Init, Request
<1> QED BY <1>1, <1>2, <1>3, <1>4 DEF IInv

(* The inductive invariant implies the properties it is for. *)
LEMMA IInvImplies == IInv => TypeOK /\ OldPasswordShutOut
<1> SUFFICES ASSUME IInv PROVE TypeOK /\ OldPasswordShutOut
  OBVIOUS
<1>1. TypeOK
  BY DEF IInv, Tables, Origins, Traced, Held, Floors, Sound, TypeOK
<1>2. ASSUME NEW l \in sessions \cup graced, origin[l].proved < floor[origin[l].user]
      PROVE  l \in spared
  <2>1. l \in Begun /\ Fresh(l)
    BY DEF IInv, Traced, Held
  <2>2. origin[l].user \in Users /\ origin[l].proved \in Nat
    BY <2>1 DEF IInv, Origins
  <2>3. floor[origin[l].user] \in Nat
    BY <2>2 DEF IInv, Floors
  <2> QED BY <1>2, <2>1, <2>2, <2>3 DEF Fresh
<1> QED BY <1>1, <1>2 DEF OldPasswordShutOut

-----------------------------------------------------------------------------
(* Steps that revoke nothing.  Logins only begin and passwords only go up, *)
(* so what is fresh, or sound, stays so.                                   *)

Risen ==
  /\ floor' = floor /\ spared' = spared
  /\ Begun \subseteq Begun' /\ \A l \in Begun : origin'[l] = origin[l]
  /\ \A u \in Users : password[u] <= password'[u]

LEMMA FreshLasts ==
  ASSUME Risen, NEW l \in Begun, Fresh(l)
  PROVE  l \in Begun' /\ Fresh(l)'
BY DEF Risen, Fresh

LEMMA SoundLasts ==
  ASSUME IInv, Tables', Risen, NEW r, Sound(r)
  PROVE  Sound(r)'
<1>1. ASSUME r.pc = "revoke" PROVE r.stored <= password'[r.user]
  <2>1. r.user \in Users /\ r.stored \in Nat /\ r.stored <= password[r.user]
    BY <1>1, RequestFields DEF Sound, Revoking
  <2>2. password[r.user] \in Nat /\ password'[r.user] \in Nat /\ password[r.user] <= password'[r.user]
    BY <2>1 DEF IInv, Tables, Risen
  <2> QED BY <2>1, <2>2
<1>2. ASSUME r.pc \in {"open", "rotate"} PROVE r.login \in Begun' /\ Fresh(r.login)'
  BY <1>2, FreshLasts DEF Sound
<1> QED BY <1>1, <1>2 DEF Sound

LEMMA FloorsLast ==
  ASSUME IInv, Tables', Risen
  PROVE  Floors'
<1>1. ASSUME NEW u \in Users PROVE floor[u] <= password'[u]
  <2>1. floor[u] \in Nat /\ password[u] \in Nat /\ password'[u] \in Nat
    BY DEF IInv, Tables, Floors
  <2>2. floor[u] <= password[u] /\ password[u] <= password'[u]
    BY DEF IInv, Floors, Risen
  <2> QED BY <2>1, <2>2
<1> QED BY <1>1 DEF IInv, Floors, Risen

(* What has to be shown of a step that revokes nothing: what it gives to a *)
(* login that did not have it, it gives to a fresh one.                    *)
LEMMA StepRule ==
  ASSUME IInv, Tables', Risen, Origins',
         \A l \in Held' \ Held : l \in Begun' /\ Fresh(l)',
         NEW r, Sound(r)', UNCHANGED req \/ \E h \in Handlers : Become(h, r)
  PROVE  IInv'
<1>1. r \in Request
  BY DEF Sound
<1>2. req' \in [Handlers -> Request]
  BY <1>1 DEF IInv, Become
<1>3. ASSUME NEW i \in Handlers PROVE Sound(req[i])'
  <2>1. PICK x : x = req'[i]
    OBVIOUS
  <2>2. Sound(x) \/ x = r
    BY <2>1 DEF IInv, Become
  <2>3. Sound(x)'
    BY <2>2, SoundLasts DEF Sound
  <2> QED BY <2>1, <2>3 DEF Sound
<1>4. ASSUME NEW l \in Held' PROVE l \in Begun' /\ Fresh(l)'
  <2>1. CASE l \in Held
    BY <2>1, FreshLasts DEF IInv, Traced
  <2> QED BY <2>1
<1>5. Traced'
  BY <1>4 DEF Traced
<1> QED BY <1>2, <1>3, <1>5, FloorsLast DEF IInv

LEMMA IdleSound == Sound(Idle) /\ Sound(Idle)'
BY DEF Sound, Request, Idle

(* The same for a step in which no login begins. *)
LEMMA SteadyRule ==
  ASSUME IInv, Tables', UNCHANGED <<password, origin, floor, spared>>,
         NEW S \in SUBSET Begun, \A l \in S : Fresh(l), Held' \subseteq Held \cup S,
         NEW r, Sound(r), UNCHANGED req \/ \E h \in Handlers : Become(h, r)
  PROVE  IInv'
<1>1. Risen
  BY DEF IInv, Tables, Risen, Begun
<1>2. Origins'
  BY DEF IInv, Origins, Begun
<1>3. ASSUME NEW l \in Held' \ Held PROVE l \in Begun' /\ Fresh(l)'
  BY <1>1, FreshLasts
<1> QED BY <1>1, <1>2, <1>3, SoundLasts, StepRule

(* The same for a step that gives nothing to anybody. *)
LEMMA QuietRule ==
  ASSUME IInv, Tables', UNCHANGED <<password, origin, floor, spared>>, Held' \subseteq Held,
         NEW r, Sound(r), UNCHANGED req \/ \E h \in Handlers : Become(h, r)
  PROVE  IInv'
<1>1. PICK S \in SUBSET Begun : S = {}
  OBVIOUS
<1>2. (\A l \in S : Fresh(l)) /\ Held' \subseteq Held \cup S
  BY <1>1
<1> QED BY <1>2, SteadyRule

(* A request step: the tables, and what the logins have, stay. *)
LEMMA RequestStep ==
  ASSUME IInv, NEW h \in Handlers, NEW r, Sound(r), Become(h, r),
         UNCHANGED <<account, tickets, origin, tokens, history>>
  PROVE  IInv'
<1>1. Tables'
  BY DEF IInv, Tables, account, history, Sent
<1>2. Held' = Held
  BY DEF Held, tokens
<1> QED BY <1>1, <1>2, QuietRule DEF account, history

(* The same for a step of no request. *)
LEMMA EnvironmentRule ==
  ASSUME IInv, Tables', UNCHANGED <<password, origin, floor, spared, req>>, Held' \subseteq Held
  PROVE  IInv'
BY IdleSound, QuietRule

-----------------------------------------------------------------------------
(* Tickets. *)

LEMMA RequestTicketStep ==
  ASSUME IInv, NEW t \in Tickets, NEW u \in Users, NEW kind \in Kind, RequestTicket(t, u, kind)
  PROVE  IInv'
<1>1. Sent' = Sent \cup {t}
  BY DEF RequestTicket, Sent
<1>2. /\ tickets'[t] = [kind |-> kind, user |-> u, state |-> "open"]
      /\ \A x \in Sent : tickets'[x] = tickets[x]
      /\ tickets' = [x \in Sent \cup {t} |-> tickets'[x]]
  BY DEF RequestTicket
<1>3. tickets' \in [Sent \cup {t} -> [kind : Kind, user : Users, state : {"open", "consumed", "void"}]]
  BY <1>2 DEF IInv, Tables
<1>4. u \in users /\ UNCHANGED <<account, origin, honoured, floor, spared, tokens, req>>
  BY DEF RequestTicket, history
<1>5. Tables'
  BY <1>1, <1>2, <1>3, <1>4 DEF IInv, Tables, account
<1> QED BY <1>4, <1>5, EnvironmentRule DEF Held, account, tokens

(* A ticket that is no longer open owes nothing to its user. *)
LEMMA ConsumeTables ==
  ASSUME IInv, NEW t \in Sent, UNCHANGED <<account, honoured>>, NEW state \in {"consumed", "void"},
         tickets' = [tickets EXCEPT ![t].state = state]
  PROVE  Tables' /\ Sent' = Sent
<1>1. tickets[t] \in [kind : Kind, user : Users, state : {"open", "consumed", "void"}]
  BY DEF IInv, Tables
<1>2. [tickets[t] EXCEPT !.state = state] \in [kind : Kind, user : Users, state : {"open", "consumed", "void"}]
  BY <1>1
<1>3. [tickets[t] EXCEPT !.state = state].state = state
  BY <1>1
<1>4. tickets' = [tickets EXCEPT ![t] = [tickets[t] EXCEPT !.state = state]]
  OBVIOUS
<1>5. Sent' = Sent /\ tickets'[t].state # "open" /\ \A x \in Sent \ {t} : tickets'[x] = tickets[x]
  BY <1>3, <1>4 DEF Sent
<1>6. tickets' \in [Sent -> [kind : Kind, user : Users, state : {"open", "consumed", "void"}]]
  BY <1>2, <1>4 DEF IInv, Tables, Sent
<1> QED BY <1>5, <1>6 DEF IInv, Tables, account

LEMMA ConsumeStep ==
  ASSUME IInv, NEW h \in Handlers, NEW t \in Tickets, NEW kind, NEW next \in {"store", "mark"},
         Consume(h, t, kind, next)
  PROVE  IInv'
<1> DEFINE r == [pc |-> next, user |-> tickets[t].user, ticket |-> t]
<1>1. t \in Sent /\ UNCHANGED <<account, origin, honoured, floor, spared, tokens>> /\ Become(h, r)
  BY DEF Consume, history
<1>2. tickets[t].user \in Users
  BY <1>1 DEF IInv, Tables
<1>3. r \in Storing \/ r \in Marking
  BY <1>2 DEF Storing, Marking
<1>4. r \in Request /\ r.pc \in {"store", "mark"}
  BY <1>3 DEF Request
<1> HIDE DEF r
<1>5. Sound(r)
  BY <1>4 DEF Sound
<1>6. Tables'
  BY <1>1, ConsumeTables DEF Consume
<1>7. Held' = Held
  BY <1>1 DEF Held, tokens
<1> QED BY <1>1, <1>5, <1>6, <1>7, QuietRule DEF account

LEMMA TicketExpiresStep ==
  ASSUME IInv, NEW t \in Tickets, TicketExpires(t)
  PROVE  IInv'
<1>1. t \in Sent /\ UNCHANGED <<account, origin, honoured, floor, spared, tokens, req>>
  BY DEF TicketExpires, history
<1>2. Tables'
  BY <1>1, ConsumeTables DEF TicketExpires
<1> QED BY <1>1, <1>2, EnvironmentRule DEF Held, account, tokens

(* A ticket's effect is counted as a number. *)
LEMMA EffectTyped ==
  ASSUME IInv, NEW u, NEW t, Effect(u, t)
  PROVE  honoured' \in [Tickets -> Nat]
BY DEF IInv, Tables, Effect

LEMMA MarkEmailVerifiedStep ==
  ASSUME IInv, NEW h \in Handlers, MarkEmailVerified(h)
  PROVE  IInv'
<1>1. UNCHANGED <<users, password, tickets, origin, tokens, floor, spared>> /\ Become(h, Idle)
  BY DEF MarkEmailVerified
<1>2. verified' \subseteq users
  BY DEF MarkEmailVerified, IInv, Tables
<1>3. honoured' \in [Tickets -> Nat]
  BY EffectTyped DEF MarkEmailVerified
<1>4. Tables'
  BY <1>1, <1>2, <1>3 DEF IInv, Tables, Sent
<1>5. Held' = Held
  BY <1>1 DEF Held, tokens
<1> QED BY <1>1, <1>4, <1>5, IdleSound, QuietRule

-----------------------------------------------------------------------------
(* The password and its revocation. *)

LEMMA ChangePasswordStep ==
  ASSUME IInv, NEW h \in Handlers, NEW l, ChangePassword(h, l)
  PROVE  IInv'
<1> DEFINE r == [pc |-> "store", user |-> origin[l].user, ticket |-> NoTicket]
<1>1. origin[l].user \in Users
  BY DEF ChangePassword, IInv, Tables
<1>2. r \in Request /\ r.pc = "store"
  BY <1>1 DEF Request, Storing
<1>3. Sound(r)
  BY <1>2 DEF Sound
<1> QED BY <1>3, RequestStep DEF ChangePassword

LEMMA UpdatePasswordStep ==
  ASSUME IInv, NEW h \in Handlers, UpdatePassword(h)
  PROVE  IInv'
<1>1. PICK u : u = req[h].user
  OBVIOUS
<1>2. req[h] \in Storing /\ u \in Users
  BY <1>1, RequestFields DEF IInv, UpdatePassword, Storing
<1>3. /\ password' = (IF u \in users THEN [password EXCEPT ![u] = @ + 1] ELSE password)
      /\ Effect(u, req[h].ticket)
      /\ Become(h, [pc |-> "revoke", user |-> u, stored |-> password'[u]])
      /\ UNCHANGED <<users, verified, tickets, origin, tokens, floor, spared>>
  BY <1>1 DEF UpdatePassword
<1>4. password' \in [Users -> Nat] /\ \A v \in Users : password[v] <= password'[v]
  BY <1>2, <1>3 DEF IInv, Tables
<1>5. honoured' \in [Tickets -> Nat]
  BY <1>3, EffectTyped
<1>6. Tables'
  BY <1>3, <1>4, <1>5 DEF IInv, Tables, Sent
<1>7. Risen /\ Origins' /\ Held' = Held
  BY <1>3, <1>4 DEF Risen, IInv, Origins, Begun, Held, tokens
<1>8. PICK r : r = [pc |-> "revoke", user |-> u, stored |-> password'[u]]
  OBVIOUS
<1>9. password'[u] \in Nat
  BY <1>2, <1>4
<1>10. r \in Revoking /\ r \in Request /\ r.pc = "revoke" /\ r.stored = password'[u] /\ r.user = u
  BY <1>2, <1>8, <1>9 DEF Request, Revoking
<1>11. Sound(r)'
  BY <1>9, <1>10 DEF Sound
<1> QED BY <1>3, <1>6, <1>7, <1>8, <1>11, StepRule

(* The revocation leaves its user the logins under way only.  Those it     *)
(* spares; the others of which anything is left are not of its user.       *)
LEMMA RevokeAllStep ==
  ASSUME IInv, NEW h \in Handlers, RevokeAll(h)
  PROVE  IInv'
<1>1. PICK u, g : u = req[h].user /\ g = req[h].stored
  OBVIOUS
<1>2. req[h] \in Revoking /\ req[h].pc = "revoke" /\ u \in Users /\ g \in Nat /\ g <= password[u]
  BY <1>1, RequestFields DEF IInv, RevokeAll, Revoking, Sound
<1>3. /\ sessions' = sessions \ Of(u, sessions)
      /\ Revoked(u, g)
      /\ req' = [req EXCEPT ![h] = Idle]
      /\ UNCHANGED <<account, tickets, origin, graced, access, vouchers, honoured>>
  BY <1>1 DEF RevokeAll, Become
<1>4. Tables'
  BY <1>3 DEF IInv, Tables, account, Sent
<1>5. UNCHANGED <<password, origin>> /\ Begun' = Begun
  BY <1>3 DEF account, Begun
<1>6. /\ floor' \in [Users -> Nat]
      /\ floor'[u] = floor[u] \/ floor'[u] = g
      /\ \A v \in Users \ {u} : floor'[v] = floor[v]
  BY <1>2, <1>3 DEF Revoked, IInv, Floors
<1>7. Floors'
  BY <1>2, <1>5, <1>6 DEF IInv, Floors
<1>8. Underway(u) \subseteq Begun
  <2>1. \A i \in Handlers : req[i].pc \in {"open", "rotate"} => req[i].login \in Begun
    BY DEF IInv, Sound
  <2> QED BY <2>1 DEF Underway, Of, IInv, Traced, Held
<1>9. spared' = (spared \ Of(u, Begun)) \cup {l \in Underway(u) : origin[l].proved < floor'[u]}
  BY <1>3 DEF Revoked
<1>10. Origins'
  BY <1>5, <1>8, <1>9 DEF IInv, Origins
<1>11. ASSUME NEW l \in Begun, Fresh(l), origin[l].user # u \/ l \in Underway(u) PROVE Fresh(l)'
  <2>1. origin[l].user \in Users /\ origin[l].proved \in Nat
    BY DEF IInv, Origins
  <2>2. CASE origin[l].user # u
    <3>1. floor'[origin[l].user] = floor[origin[l].user] /\ l \notin Of(u, Begun)
      BY <1>6, <2>1, <2>2 DEF Of
    <3> QED BY <1>5, <1>9, <1>11, <3>1 DEF Fresh
  <2>3. CASE l \in Underway(u)
    <3>1. origin[l].user = u /\ floor'[u] \in Nat
      BY <1>2, <1>6, <2>3 DEF Underway, Of
    <3> QED BY <1>5, <1>9, <2>1, <2>3, <3>1 DEF Fresh
  <2> QED BY <1>11, <2>2, <2>3
<1>12. ASSUME NEW l \in Held' PROVE l \in Begun' /\ Fresh(l)'
  <2>1. l \in Begun /\ Fresh(l)
    BY <1>3, <1>12 DEF IInv, Traced, Held
  <2>2. origin[l].user # u \/ l \in Underway(u)
    BY <1>3, <1>12, <2>1 DEF Held, Underway, Of
  <2> QED BY <1>5, <1>11, <2>1, <2>2
<1>13. Traced'
  BY <1>12 DEF Traced
<1>14. ASSUME NEW i \in Handlers PROVE Sound(req[i])'
  <2>1. PICK x : x = req'[i]
    OBVIOUS
  <2>2. x = Idle \/ (x = req[i] /\ Sound(x))
    BY <1>3, <2>1 DEF IInv
  <2>3. ASSUME x.pc \in {"open", "rotate"} PROVE x.login \in Begun' /\ Fresh(x.login)'
    <3>1. x = req[i] /\ x.login \in Begun /\ Fresh(x.login)
      BY <2>2, <2>3 DEF Idle, Sound
    <3>2. origin[x.login].user = u => x.login \in Underway(u)
      BY <2>3, <3>1 DEF Underway, Of
    <3> QED BY <1>5, <1>11, <3>1, <3>2
  <2>4. x \in Request
    BY <2>2, IdleSound DEF Sound
  <2>5. x.pc = "revoke" => x.stored <= password[x.user]
    BY <2>2 DEF Sound, Idle
  <2>6. Sound(x)'
    BY <1>5, <2>3, <2>4, <2>5 DEF Sound
  <2> QED BY <2>1, <2>6 DEF Sound
<1>15. req' \in [Handlers -> Request]
  BY <1>3, IdleSound DEF IInv, Sound
<1> QED BY <1>4, <1>7, <1>10, <1>13, <1>14, <1>15 DEF IInv

-----------------------------------------------------------------------------
(* Logins and what descends from them: a login proves the password in      *)
(* force, and everything else has its login from what was presented.       *)

(* A request that opens a session for a fresh login is sound. *)
LEMMA OpeningSound ==
  ASSUME IInv, NEW l \in Begun, Fresh(l), NEW b \in BOOLEAN
  PROVE  /\ Sound([pc |-> "open", login |-> l, rotates |-> b])
         /\ Sound([pc |-> "rotate", login |-> l])
<1>1. l \in Logins
  BY DEF IInv, Origins
<1> QED BY <1>1 DEF Sound, Request, Opening, Rotating

LEMMA LoginStep ==
  ASSUME IInv, NEW h \in Handlers, NEW u \in Users, NEW l \in Logins, Login(h, u, l)
  PROVE  IInv'
<1>1. PICK row : row = [user |-> u, proved |-> password[u]]
  OBVIOUS
<1>2. row \in [user : Users, proved : Nat] /\ row.user = u /\ row.proved = password[u]
  BY <1>1 DEF IInv, Tables
<1>3. /\ l \notin Begun /\ UNCHANGED <<account, tickets, sessions, graced, access, history>>
      /\ origin' = [x \in Begun \cup {l} |-> IF x = l THEN row ELSE origin[x]]
  BY <1>1 DEF Login
<1>4. /\ Begun' = Begun \cup {l} /\ origin'[l] = row
      /\ \A x \in Begun : origin'[x] = origin[x]
  BY <1>3 DEF Begun
<1>5. Tables'
  BY <1>3 DEF IInv, Tables, account, history, Sent
<1>6. Risen
  BY <1>3, <1>4 DEF IInv, Tables, Risen, account, history
<1>7. Origins'
  BY <1>2, <1>3, <1>4 DEF IInv, Origins, history
<1>8. l \in Begun' /\ Fresh(l)'
  BY <1>2, <1>3, <1>4 DEF Fresh, IInv, Floors, history
<1>9. CASE Become(h, [pc |-> "open", login |-> l, rotates |-> FALSE]) /\ UNCHANGED vouchers
  <2>1. PICK r : r = [pc |-> "open", login |-> l, rotates |-> FALSE]
    OBVIOUS
  <2>2. r \in Request /\ r.pc = "open" /\ r.login = l
    BY <2>1 DEF Request, Opening
  <2>3. Sound(r)'
    BY <1>8, <2>2 DEF Sound
  <2>4. Held' = Held
    BY <1>3, <1>9 DEF Held
  <2> QED BY <1>5, <1>6, <1>7, <1>9, <2>1, <2>3, <2>4, StepRule
<1>10. CASE vouchers' = vouchers \cup {l} /\ UNCHANGED req
  <2>1. Held' = Held \cup {l}
    BY <1>3, <1>10 DEF Held
  <2> QED BY <1>5, <1>6, <1>7, <1>8, <1>10, <2>1, IdleSound, StepRule
<1> QED BY <1>9, <1>10 DEF Login

(* Whatever a client presents, for a login that has it. *)
LEMMA OpenStep ==
  ASSUME IInv, NEW h \in Handlers, NEW l,
         LoginTotp(h, l) \/ Refresh(h, l) \/ SwitchTenant(h, l) \/ ExchangeAuthorizationCode(h, l)
  PROVE  IInv'
<1>1. PICK b \in BOOLEAN : Open(h, l, b)
  BY DEF LoginTotp, Refresh, SwitchTenant, ExchangeAuthorizationCode
<1>2. l \in Begun /\ Fresh(l)
  BY DEF LoginTotp, Refresh, SwitchTenant, ExchangeAuthorizationCode, IInv, Traced, Held
<1>3. PICK r : r = [pc |-> "open", login |-> l, rotates |-> b]
  OBVIOUS
<1>4. Sound(r) /\ Become(h, r)
  BY <1>1, <1>2, <1>3, OpeningSound DEF Open
<1>5. UNCHANGED <<account, tickets, origin, history>> /\ Held' \subseteq Held
  BY DEF LoginTotp, Refresh, SwitchTenant, ExchangeAuthorizationCode, Held, tokens
<1>6. Tables'
  BY <1>5 DEF IInv, Tables, account, history, Sent
<1> QED BY <1>4, <1>5, <1>6, QuietRule DEF account, history

LEMMA CreateAuthorizationCodeStep ==
  ASSUME IInv, NEW l, CreateAuthorizationCode(l)
  PROVE  IInv'
<1>1. UNCHANGED <<account, tickets, origin, req, history>> /\ Held' \subseteq Held
  BY DEF CreateAuthorizationCode, Held
<1>2. Tables'
  BY <1>1 DEF IInv, Tables, account, history, Sent
<1> QED BY <1>1, <1>2, EnvironmentRule DEF account, history

LEMMA IssueTokensStep ==
  ASSUME IInv, NEW h \in Handlers, IssueTokens(h)
  PROVE  IInv'
<1>1. PICK l : l = req[h].login
  OBVIOUS
<1>2. l \in Begun /\ Fresh(l)
  BY <1>1 DEF IInv, IssueTokens, Sound
<1>3. PICK r : Become(h, r) /\ (r = Idle \/ r = [pc |-> "rotate", login |-> l])
  BY <1>1 DEF IssueTokens
<1>4. Sound(r)
  BY <1>2, <1>3, OpeningSound, IdleSound
<1>5. UNCHANGED <<account, tickets, origin, history>> /\ Held' \subseteq Held \cup {l}
  BY <1>1 DEF IssueTokens, Held
<1>6. Tables'
  BY <1>5 DEF IInv, Tables, account, history, Sent
<1>7. {l} \in SUBSET Begun /\ \A x \in {l} : Fresh(x)
  BY <1>2
<1> QED BY <1>3, <1>4, <1>5, <1>6, <1>7, SteadyRule DEF account, history

LEMMA MarkRotatedStep ==
  ASSUME IInv, NEW h \in Handlers, MarkRotated(h)
  PROVE  IInv'
<1>1. UNCHANGED <<account, tickets, origin, history>> /\ Become(h, Idle) /\ Held' \subseteq Held
  BY DEF MarkRotated, Held
<1>2. Tables'
  BY <1>1 DEF IInv, Tables, account, history, Sent
<1> QED BY <1>1, <1>2, IdleSound, QuietRule DEF account, history

LEMMA TokenEndsStep ==
  ASSUME IInv, NEW l, TokenEnds(l)
  PROVE  IInv'
<1>1. UNCHANGED <<account, tickets, origin, req, history>>
  BY DEF TokenEnds
<1>2. Held' \subseteq Held
  BY DEF TokenEnds, Held
<1>3. Tables'
  BY <1>1 DEF IInv, Tables, account, history, Sent
<1> QED BY <1>1, <1>2, <1>3, EnvironmentRule DEF account, history

(* A hard delete leaves no open ticket of the user. *)
LEMMA HardDeleteStep ==
  ASSUME IInv, NEW u \in Users, HardDeleteUser(u)
  PROVE  IInv'
<1> DEFINE Row == [kind : Kind, user : Users, state : {"open", "consumed", "void"}]
<1>1. UNCHANGED <<password, origin, access, vouchers, req, honoured, floor, spared>>
  BY DEF HardDeleteUser, history
<1>2. users' = users \ {u} /\ verified' = verified \ {u}
  BY DEF HardDeleteUser
<1>3. Held' \subseteq Held
  BY <1>1 DEF HardDeleteUser, Held
<1>4. Sent' = Sent
  BY DEF HardDeleteUser, Sent
<1>5. ASSUME NEW t \in Sent
      PROVE  /\ tickets'[t] \in Row
             /\ tickets'[t].state = "open" => tickets'[t].user \in users'
  <2>1. tickets[t] \in Row /\ (tickets[t].state = "open" => tickets[t].user \in users)
    BY DEF IInv, Tables
  <2>2. CASE tickets[t].user = u
    <3>1. tickets'[t] = [tickets[t] EXCEPT !.state = "void"]
      BY <2>2 DEF HardDeleteUser
    <3> QED BY <2>1, <3>1
  <2>3. CASE tickets[t].user # u
    <3>1. tickets'[t] = tickets[t]
      BY <2>3 DEF HardDeleteUser
    <3> QED BY <1>2, <2>1, <2>3, <3>1
  <2> QED BY <2>2, <2>3
<1>6. tickets' = [t \in Sent |-> tickets'[t]]
  BY DEF HardDeleteUser
<1>7. tickets' \in [Sent -> Row]
  BY <1>5, <1>6
<1>8. Tables'
  BY <1>1, <1>2, <1>4, <1>5, <1>7 DEF IInv, Tables
<1> QED BY <1>1, <1>3, <1>8, EnvironmentRule

-----------------------------------------------------------------------------
(* Every step preserves the inductive invariant. *)
LEMMA NextStep == IInv /\ [Next]_vars => IInv'
<1> SUFFICES ASSUME IInv, [Next]_vars PROVE IInv'
  OBVIOUS
<1>1. ASSUME NEW h \in Handlers, NEW u \in Users, NEW l \in Logins, Login(h, u, l) PROVE IInv'
  BY <1>1, LoginStep
<1>2. ASSUME NEW h \in Handlers, NEW t \in Tickets, ResetPassword(h, t) \/ VerifyEmail(h, t) PROVE IInv'
  BY <1>2, ConsumeStep DEF ResetPassword, VerifyEmail
<1>3. ASSUME NEW h \in Handlers, Abort(h) PROVE IInv'
  BY <1>3, IdleSound, RequestStep DEF Abort
<1>4. ASSUME NEW h \in Handlers,
             \/ MarkEmailVerified(h) \/ UpdatePassword(h) \/ RevokeAll(h)
             \/ IssueTokens(h) \/ MarkRotated(h) \/ Abort(h)
      PROVE  IInv'
  BY <1>3, <1>4, MarkEmailVerifiedStep, UpdatePasswordStep, RevokeAllStep, IssueTokensStep, MarkRotatedStep
<1>5. ASSUME NEW h \in Handlers, NEW l \in Begun,
             \/ ChangePassword(h, l)
             \/ LoginTotp(h, l) \/ Refresh(h, l) \/ SwitchTenant(h, l) \/ ExchangeAuthorizationCode(h, l)
      PROVE  IInv'
  BY <1>5, ChangePasswordStep, OpenStep
<1>6. ASSUME NEW l \in Begun, CreateAuthorizationCode(l) \/ TokenEnds(l) PROVE IInv'
  BY <1>6, CreateAuthorizationCodeStep, TokenEndsStep
<1>7. ASSUME NEW t \in Tickets,
             \/ \E u \in Users, kind \in Kind : RequestTicket(t, u, kind)
             \/ TicketExpires(t)
      PROVE  IInv'
  BY <1>7, RequestTicketStep, TicketExpiresStep
<1>8. ASSUME UNCHANGED vars PROVE IInv'
  <2>1. Tables' /\ Held' = Held
    BY <1>8 DEF vars, account, history, tokens, IInv, Tables, Held, Sent
  <2> QED BY <1>8, <2>1, EnvironmentRule DEF vars, account, history
<1> QED BY <1>1, <1>2, <1>4, <1>5, <1>6, <1>7, <1>8, HardDeleteStep DEF Next

(* No reachable state leaves the types, and no ticket outlives its user    *)
(* while it is open.                                                       *)
THEOREM TypeCorrect == Spec => []TypeOK
BY InitIInv, NextStep, IInvImplies, PTL DEF Spec

(* Of the logins with an older password, only those that had something     *)
(* besides live refresh tokens when the revocation ran have a refresh      *)
(* token, live or within its grace, afterwards.                            *)
THEOREM OldPasswordShutOutCorrect == Spec => []OldPasswordShutOut
BY InitIInv, NextStep, IInvImplies, PTL DEF Spec

-----------------------------------------------------------------------------
(* Reset and verification tokens are tickets.  What the refinement needs   *)
(* besides: a token that is claimed is spent, has not had its effect, and  *)
(* is claimed by one request only.                                         *)

Single ==
  /\ \A t \in Tickets : honoured[t] <= 1 /\ (stageMap[t] # "spent" => honoured[t] = 0)
  /\ \A h \in Handlers : \A t \in claimMap[h] : t \in Tickets /\ stageMap[t] = "spent" /\ honoured[t] = 0
  /\ \A g, h \in Handlers : g # h => claimMap[g] \cap claimMap[h] = {}

Same == UNCHANGED <<stageMap, claimMap, honoured>>

(* The initial state maps to one of Ticket. *)
LEMMA InitMaps == Init => T!TicketInit /\ Single
<1> SUFFICES ASSUME Init PROVE T!TicketInit /\ Single
  OBVIOUS
<1>1. stageMap = [t \in Tickets |-> "unborn"]
  BY DEF Init, stageMap, Stage, Sent
<1>2. claimMap = [h \in Handlers |-> {}]
  BY DEF Init, claimMap, Claimed, Idle
<1> QED BY <1>1, <1>2 DEF Init, T!TicketInit, Single

(* The invariant is one of tickets. *)
LEMMA SingleKept ==
  ASSUME IInv, Single, T!TicketNext \/ Same
  PROVE  Single'
<1>0. honoured \in [Tickets -> Nat] /\ stageMap \in [Tickets -> {"unborn", "open", "spent"}]
      /\ claimMap = [h \in Handlers |-> claimMap[h]]
  BY DEF IInv, Tables, stageMap, Stage, claimMap
<1>1. ASSUME NEW t \in Tickets, T!Issue(t) PROVE Single'
  BY <1>0, <1>1 DEF T!Issue, Single
<1>2. ASSUME NEW S \in SUBSET Tickets, T!Withdraw(S) PROVE Single'
  BY <1>0, <1>2 DEF T!Withdraw, Single
<1>3. ASSUME NEW h \in Handlers, NEW t \in Tickets, T!Take(h, t) PROVE Single'
  BY <1>0, <1>3 DEF T!Take, Single
<1>4. ASSUME NEW h \in Handlers, NEW t \in Tickets, T!Honour(h, t) PROVE Single'
  BY <1>0, <1>4 DEF T!Honour, Single
<1>5. ASSUME NEW h \in Handlers, T!Waste(h) PROVE Single'
  BY <1>0, <1>5 DEF T!Waste, Single
<1>6. ASSUME Same PROVE Single'
  BY <1>6 DEF Same, Single
<1> QED BY <1>1, <1>2, <1>3, <1>4, <1>5, <1>6 DEF T!TicketNext

(* The map depends on the tickets and on the requests only. *)
LEMMA StageSame == UNCHANGED tickets => stageMap' = stageMap
BY DEF stageMap, Stage, Sent

(* A step of a request that changes no ticket and has no effect. *)
LEMMA RequestMaps ==
  ASSUME IInv, UNCHANGED <<tickets, honoured>>, NEW h \in Handlers, NEW r, Become(h, r),
         r.pc \notin {"store", "mark"} \/ (r.pc = "store" /\ r.ticket = NoTicket)
  PROVE  T!TicketNext \/ Same
<1>1. stageMap' = stageMap /\ honoured' = honoured
  BY StageSame
<1>2. req'[h] = r /\ \A g \in Handlers \ {h} : req'[g] = req[g]
  BY DEF Become, IInv
<1>3. claimMap' = [claimMap EXCEPT ![h] = {}]
  BY <1>2, CredentialsAssumption DEF claimMap, Claimed
<1>4. CASE claimMap[h] = {}
  BY <1>1, <1>3, <1>4 DEF Same, claimMap
<1>5. CASE claimMap[h] # {}
  BY <1>1, <1>3, <1>5 DEF T!TicketNext, T!Waste
<1> QED BY <1>4, <1>5

(* The insert of a token is its issue. *)
LEMMA RequestTicketMaps ==
  ASSUME IInv, NEW t \in Tickets, NEW u \in Users, NEW kind \in Kind, RequestTicket(t, u, kind)
  PROVE  T!Issue(t)
<1>1. stageMap[t] = "unborn" /\ UNCHANGED <<req, honoured>>
  BY DEF RequestTicket, stageMap, Stage, history
<1>2. Stage(t)' = "open" /\ \A x \in Tickets \ {t} : Stage(x)' = Stage(x)
  BY DEF RequestTicket, Stage, Sent
<1>3. stageMap' = [stageMap EXCEPT ![t] = "open"]
  BY <1>2 DEF stageMap
<1>4. claimMap' = claimMap
  BY <1>1 DEF claimMap, Claimed
<1> QED BY <1>1, <1>3, <1>4 DEF T!Issue

(* A token that is consumed is taken. *)
LEMMA ConsumeMaps ==
  ASSUME IInv, NEW h \in Handlers, NEW t \in Tickets, NEW kind, NEW next \in {"store", "mark"},
         Consume(h, t, kind, next)
  PROVE  T!Take(h, t)
<1>1. t \in Sent /\ tickets[t].state = "open" /\ req[h] = Idle /\ honoured' = honoured
  BY DEF Consume, history
<1>2. stageMap[t] = "open" /\ claimMap[h] = {}
  BY <1>1 DEF stageMap, Stage, claimMap, Claimed, Idle
<1>3. tickets[t] \in [kind : Kind, user : Users, state : {"open", "consumed", "void"}]
  BY <1>1 DEF IInv, Tables
<1>4. Sent' = Sent /\ tickets'[t].state # "open" /\ \A x \in Sent \ {t} : tickets'[x] = tickets[x]
  BY <1>1, <1>3 DEF Consume, Sent
<1>5. stageMap' = [stageMap EXCEPT ![t] = "spent"]
  BY <1>1, <1>4 DEF stageMap, Stage
<1>6. PICK r : r = [pc |-> next, user |-> tickets[t].user, ticket |-> t]
  OBVIOUS
<1>7. req'[h] = r /\ r.pc = next /\ r.ticket = t /\ \A g \in Handlers \ {h} : req'[g] = req[g]
  BY <1>6 DEF Consume, Become, IInv
<1>8. claimMap' = [claimMap EXCEPT ![h] = {t}]
  BY <1>7 DEF claimMap, Claimed
<1> QED BY <1>1, <1>2, <1>5, <1>8 DEF T!Take

(* The effect of a request on its user honours its ticket, if it has one   *)
(* and the user is there; otherwise the ticket is wasted.                  *)
LEMMA EffectMaps ==
  ASSUME IInv, Single, UNCHANGED tickets, NEW h \in Handlers, req[h].pc \in {"store", "mark"},
         Effect(req[h].user, req[h].ticket),
         NEW r, Become(h, r), r.pc \notin {"store", "mark"}
  PROVE  T!TicketNext \/ Same
<1>1. PICK t : t = req[h].ticket
  OBVIOUS
<1>2. stageMap' = stageMap
  BY StageSame
<1>3. req'[h] = r /\ \A g \in Handlers \ {h} : req'[g] = req[g]
  BY DEF Become, IInv
<1>4. claimMap' = [claimMap EXCEPT ![h] = {}]
  BY <1>3 DEF claimMap, Claimed
<1>5. CASE honoured' = honoured
  BY <1>5, RequestMaps
     DEF Same
<1>6. CASE t \in Tickets /\ honoured' = [honoured EXCEPT ![t] = @ + 1]
  <2>1. claimMap[h] = {t}
    BY <1>1, <1>6 DEF claimMap, Claimed
  <2>2. honoured[t] = 0
    BY <2>1 DEF Single
  <2>3. honoured' = [honoured EXCEPT ![t] = 1]
    <3>1. honoured' = [honoured EXCEPT ![t] = honoured[t] + 1] /\ honoured[t] + 1 = 1
      BY <1>6, <2>2
    <3> QED BY <3>1
  <2>4. T!Honour(h, t)
    BY <1>2, <1>4, <2>1, <2>2, <2>3 DEF T!Honour
  <2> QED BY <1>6, <2>4 DEF T!TicketNext
<1> QED BY <1>1, <1>5, <1>6 DEF Effect

(* Tokens that are given up are withdrawn. *)
LEMMA WithdrawMaps ==
  ASSUME IInv, UNCHANGED <<req, honoured>>, NEW S \in SUBSET Sent, Sent' = Sent,
         \A t \in S : tickets'[t].state # "open",
         \A t \in Sent \ S : tickets'[t] = tickets[t]
  PROVE  T!TicketNext
<1>1. S \in SUBSET Tickets
  BY DEF IInv, Tables
<1>2. \A t \in S : stageMap[t] \in {"open", "spent"}
  BY <1>1 DEF stageMap, Stage
<1>3. stageMap' = [t \in Tickets |-> IF t \in S THEN "spent" ELSE stageMap[t]]
  BY DEF stageMap, Stage
<1>4. claimMap' = claimMap
  BY DEF claimMap, Claimed
<1>5. T!Withdraw(S)
  BY <1>2, <1>3, <1>4 DEF T!Withdraw
<1> QED BY <1>1, <1>5 DEF T!TicketNext

LEMMA HardDeleteMaps ==
  ASSUME IInv, NEW u \in Users, HardDeleteUser(u)
  PROVE  T!TicketNext
<1>0. PICK S \in SUBSET Sent : S = {t \in Sent : tickets[t].user = u}
  OBVIOUS
<1>1. Sent' = Sent /\ UNCHANGED <<req, honoured>>
  BY DEF HardDeleteUser, Sent, history
<1>2. ASSUME NEW t \in S PROVE tickets'[t].state # "open"
  <2>1. tickets[t] \in [kind : Kind, user : Users, state : {"open", "consumed", "void"}]
    BY DEF IInv, Tables
  <2>2. tickets'[t] = [tickets[t] EXCEPT !.state = "void"]
    BY <1>0 DEF HardDeleteUser
  <2> QED BY <2>1, <2>2
<1>3. \A t \in Sent \ S : tickets'[t] = tickets[t]
  BY <1>0 DEF HardDeleteUser
<1>4. \A t \in S : tickets'[t].state # "open"
  BY <1>2
<1> QED BY <1>1, <1>3, <1>4, WithdrawMaps

LEMMA TicketExpiresMaps ==
  ASSUME IInv, NEW t \in Tickets, TicketExpires(t)
  PROVE  T!TicketNext
<1>1. t \in Sent /\ UNCHANGED <<req, honoured>> /\ tickets' = [tickets EXCEPT ![t].state = "void"]
  BY DEF TicketExpires, history
<1>2. tickets[t] \in [kind : Kind, user : Users, state : {"open", "consumed", "void"}]
  BY <1>1 DEF IInv, Tables
<1>3. PICK S \in SUBSET Sent : S = {t}
  BY <1>1
<1>4. Sent' = Sent /\ \A x \in Sent \ S : tickets'[x] = tickets[x]
  BY <1>1, <1>3 DEF Sent
<1>5. \A x \in S : tickets'[x].state # "open"
  BY <1>1, <1>2, <1>3 DEF Sent
<1> QED BY <1>1, <1>4, <1>5, WithdrawMaps

(* Every step is a step of Ticket or leaves its variables alone. *)
LEMMA StepMaps ==
  ASSUME IInv, Single, [Next]_vars
  PROVE  T!TicketNext \/ Same
<1> DEFINE Maps == T!TicketNext \/ Same
<1>1. ASSUME UNCHANGED <<tickets, honoured, req>> PROVE Maps
  BY <1>1, StageSame DEF Same, claimMap, Claimed
<1>2. ASSUME NEW h \in Handlers, NEW r, Become(h, r), UNCHANGED <<tickets, honoured>>,
             r.pc \notin {"store", "mark"} \/ (r.pc = "store" /\ r.ticket = NoTicket)
      PROVE  Maps
  BY <1>2, RequestMaps
<1>3. ASSUME NEW h \in Handlers, NEW l, ChangePassword(h, l) PROVE Maps
  BY <1>2, <1>3 DEF ChangePassword, history
<1>4. ASSUME NEW h \in Handlers, NEW u \in Users, NEW l, Login(h, u, l) PROVE Maps
  BY <1>1, <1>2, <1>4 DEF Login, history
<1>5. ASSUME NEW h \in Handlers, NEW t \in Tickets, ResetPassword(h, t) \/ VerifyEmail(h, t) PROVE Maps
  BY <1>5, ConsumeMaps DEF ResetPassword, VerifyEmail, T!TicketNext
<1>6. ASSUME NEW h \in Handlers, MarkEmailVerified(h) PROVE Maps
  BY <1>6, EffectMaps DEF MarkEmailVerified, Idle
<1>7. ASSUME NEW h \in Handlers, UpdatePassword(h) PROVE Maps
  <2>1. PICK r : Become(h, r) /\ r.pc = "revoke"
    BY <1>7 DEF UpdatePassword
  <2> QED BY <1>7, <2>1, EffectMaps DEF UpdatePassword
<1>8. ASSUME NEW h \in Handlers, RevokeAll(h) \/ MarkRotated(h) \/ Abort(h) PROVE Maps
  <2>1. Become(h, Idle) /\ UNCHANGED <<tickets, honoured>>
    BY <1>8 DEF RevokeAll, MarkRotated, Abort, history
  <2> QED BY <1>2, <2>1 DEF Idle
<1>9. ASSUME NEW h \in Handlers, IssueTokens(h) PROVE Maps
  BY <1>2, <1>9 DEF IssueTokens, Idle, history
<1>10. ASSUME NEW h \in Handlers, NEW l,
              LoginTotp(h, l) \/ Refresh(h, l) \/ SwitchTenant(h, l) \/ ExchangeAuthorizationCode(h, l)
       PROVE  Maps
  <2>1. UNCHANGED <<tickets, honoured>>
    BY <1>10 DEF LoginTotp, Refresh, SwitchTenant, ExchangeAuthorizationCode, history
  <2>2. PICK b : Become(h, [pc |-> "open", login |-> l, rotates |-> b])
    BY <1>10 DEF LoginTotp, Refresh, SwitchTenant, ExchangeAuthorizationCode, Open
  <2> QED BY <1>2, <2>1, <2>2
<1>11. ASSUME \/ \E l \in Begun : CreateAuthorizationCode(l) \/ TokenEnds(l)
              \/ UNCHANGED vars
       PROVE  Maps
  BY <1>1, <1>11 DEF CreateAuthorizationCode, TokenEnds, vars, history
<1>12. ASSUME NEW t \in Tickets,
              \/ \E u \in Users, kind \in Kind : RequestTicket(t, u, kind)
              \/ TicketExpires(t)
       PROVE  Maps
  BY <1>12, RequestTicketMaps, TicketExpiresMaps DEF T!TicketNext
<1>13. ASSUME NEW u \in Users, HardDeleteUser(u) PROVE Maps
  BY <1>13, HardDeleteMaps
<1> HIDE DEF Maps
<1>14. ASSUME Next PROVE Maps
  BY <1>3, <1>4, <1>5, <1>6, <1>7, <1>8, <1>9, <1>10, <1>11, <1>12, <1>13, <1>14 DEF Next
<1> QED BY <1>11, <1>14 DEF Maps

(* Reset and verification tokens implement single-use tickets: the request *)
(* that consumes a token is the only one to do so, and changes the         *)
(* password, or marks the e-mail verified, at most once for it.            *)
THEOREM TokensAreTickets == Spec => ImplementsTicket
<1>1. IInv /\ Single /\ [Next]_vars => Single' /\ [T!TicketNext]_(T!ticketVars)
  BY StepMaps, SingleKept DEF Same, T!ticketVars
<1> QED BY <1>1, InitMaps, InitIInv, NextStep, PTL DEF Spec, ImplementsTicket, T!TicketSpec

(* A reset token sets one password, a verification token verifies one      *)
(* e-mail, and two requests never have the same token between them.        *)
THEOREM TokensHonouredOnce == Spec => []Single
BY StepMaps, SingleKept, InitMaps, InitIInv, NextStep, PTL DEF Spec
=============================================================================
