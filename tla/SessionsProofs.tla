--------------------------- MODULE SessionsProofs ---------------------------
(* Theorems about Sessions, for every value of its constants. *)
EXTENDS Sessions, TLAPS

(* The program counter of a request tells its kind. *)
LEMMA RequestFields ==
  ASSUME NEW r \in Request
  PROVE  /\ r.pc \in {"idle", "mint", "rotate", "logout", "revokeAll"}
         /\ r.pc = "idle" => r = Idle
         /\ r.pc = "mint" => r \in Minting
         /\ r.pc = "rotate" => r \in Rotating
         /\ r.pc = "logout" => r \in Leaving
         /\ r.pc = "revokeAll" => r \in Revoking
BY DEF Request, Idle, Minting, Rotating, Leaving, Revoking

(* A revoked or rotated row is a row. *)
LEMMA UpdatedRow ==
  ASSUME NEW r \in Row, NEW n \in Nat, NEW s \in Tokens
  PROVE  /\ [r EXCEPT !.revokedAt = n] \in Row
         /\ [r EXCEPT !.revokedAt = n, !.replacedBy = s] \in Row
BY DEF Row

-----------------------------------------------------------------------------
(* No state ever leaves the types: the base of every proof below. *)
THEOREM TypeCorrect == Spec => []TypeOK
<1>1. Init => TypeOK
  BY SessionsAssumption DEF Init, TypeOK, Table, Request, Never
<1>2. TypeOK /\ [Next]_vars => TypeOK'
  <2> SUFFICES ASSUME TypeOK, [Next]_vars PROVE TypeOK'
    OBVIOUS
  <2> USE SessionsAssumption DEF TypeOK, Table
  <2>1. ASSUME NEW h \in Handlers, NEW u \in Users, NEW b \in Bindings, Login(h, u, b) \/ SwitchTenant(h, u, b)
        PROVE TypeOK'
    <3>1. [pc |-> "mint", user |-> u, bind |-> b, from |-> NoToken, rotate |-> FALSE] \in Request
      BY DEF Request, Minting
    <3> QED BY <2>1, <3>1 DEF Login, SwitchTenant, Open, Become
  <2>2. ASSUME NEW h \in Handlers, NEW t \in Table, Refresh(h, t)
        PROVE TypeOK'
    <3> DEFINE r == refresh_tokens[t]
    <3>1. r \in Row /\ t \in Tokens
      OBVIOUS
    <3>2. /\ [pc |-> "mint", user |-> r.user, bind |-> r.bind, from |-> t, rotate |-> TRUE] \in Request
          /\ [pc |-> "mint", user |-> r.user, bind |-> r.bind, from |-> t, rotate |-> FALSE] \in Request
          /\ [pc |-> "revokeAll", user |-> r.user, why |-> "reuse", from |-> t] \in Request
      BY <3>1 DEF Request, Minting, Revoking, Row
    <3>3. req' \in [Handlers -> Request]
      BY <2>2, <3>2 DEF Refresh, RefreshLive, RefreshInGrace, RefreshReused, Become
    <3> QED BY <2>2, <3>3 DEF Refresh
  <2>3. ASSUME NEW h \in Handlers, NEW t \in Table, Logout(h, t)
        PROVE TypeOK'
    <3>1. [pc |-> "logout", from |-> t] \in Request
      BY DEF Request, Leaving
    <3> QED BY <2>3, <3>1 DEF Logout, Become
  <2>4. ASSUME NEW h \in Handlers, issueTokens(h)
        PROVE TypeOK'
    <3>1. req[h] \in Minting
      BY <2>4, RequestFields DEF issueTokens
    <3>2. PICK t \in Tokens \ DOMAIN parent :
            /\ refresh_tokens' = CreateRefreshToken(t, req[h].user, req[h].bind)
            /\ parent' = [x \in DOMAIN parent \cup {t} |->
                            IF x = t THEN req[h].from ELSE parent[x]]
            /\ Become(h, IF req[h].rotate
                           THEN [pc |-> "rotate", from |-> req[h].from, succ |-> t]
                           ELSE Idle)
      BY <2>4 DEF issueTokens
    <3>3. refresh_tokens' \in [Table \cup {t} -> Row]
      BY <3>1, <3>2 DEF CreateRefreshToken, Row, Minting, Never
    <3>4. parent' \in [DOMAIN parent \cup {t} -> Tokens \cup {NoToken}]
      BY <3>1, <3>2 DEF Minting
    <3>5. /\ Idle \in Request
          /\ req[h].rotate =>
               [pc |-> "rotate", from |-> req[h].from, succ |-> t] \in Request
      BY <3>1 DEF Request, Minting, Rotating
    <3>6. req' \in [Handlers -> Request]
      BY <3>2, <3>5 DEF Become
    <3> QED BY <2>4, <3>3, <3>4, <3>6 DEF issueTokens
  <2>5. ASSUME NEW h \in Handlers, MarkRotated(h)
        PROVE TypeOK'
    <3>1. req[h] \in Rotating
      BY <2>5, RequestFields DEF MarkRotated
    <3>2. refresh_tokens' \in [Table -> Row]
      <4> DEFINE succ == req[h].succ
      <4>1. \A x \in Table :
              [refresh_tokens[x] EXCEPT !.revokedAt = now, !.replacedBy = succ] \in Row
        BY <3>1, UpdatedRow DEF Rotating
      <4> HIDE DEF succ
      <4> QED BY <2>5, <4>1 DEF MarkRotated, RotateRefreshToken, succ
    <3>3. rotatedAt' \in [Tokens -> Nat] /\ req' \in [Handlers -> Request]
      BY <2>5, <3>1 DEF MarkRotated, Become, Request, Rotating
    <3> QED BY <2>5, <3>2, <3>3 DEF MarkRotated
  <2>6. ASSUME NEW h \in Handlers, RevokeOne(h)
        PROVE TypeOK'
    <3>1. refresh_tokens' \in [Table -> Row]
      BY <2>6 DEF RevokeOne, RevokeRefreshToken, Row
    <3> QED BY <2>6, <3>1 DEF RevokeOne, Become, Request
  <2>7. ASSUME NEW h \in Handlers, RevokeAll(h)
        PROVE TypeOK'
    <3>1. refresh_tokens' \in [Table -> Row]
      BY <2>7 DEF RevokeAll, RevokeAllUserRefreshTokens, Row
    <3> QED BY <2>7, <3>1 DEF RevokeAll, Become, Request, Seal, TokensOf
  <2>8. ASSUME NEW h \in Handlers, Abort(h)
        PROVE TypeOK'
    BY <2>8 DEF Abort, Become, Request
  <2>9. ASSUME NEW h \in Handlers, NEW u \in Users, ChangePassword(h, u)
        PROVE TypeOK'
    <3>1. [pc |-> "revokeAll", user |-> u, why |-> "password", from |-> NoToken] \in Request
      BY DEF Request, Revoking
    <3> QED BY <2>9, <3>1 DEF ChangePassword, Become
  <2>10. ASSUME NEW u \in Users, SoftDeleteUser(u)
         PROVE TypeOK'
    <3>1. refresh_tokens' \in [Table -> Row]
      BY <2>10 DEF SoftDeleteUser, RevokeAllUserRefreshTokens, Row
    <3> QED BY <2>10, <3>1 DEF SoftDeleteUser, Seal, TokensOf
  <2>11. ASSUME NEW u \in Users, HardDeleteUser(u)
         PROVE TypeOK'
    <3>1. refresh_tokens' \in [Table \ TokensOf(u) -> Row]
      BY <2>11 DEF HardDeleteUser, CascadeDelete
    <3> QED BY <2>11, <3>1 DEF HardDeleteUser
  <2>12. ASSUME NEW u \in Users, RestoreUser(u)
         PROVE TypeOK'
    BY <2>12 DEF RestoreUser
  <2>13. CASE Tick
    BY <2>13 DEF Tick
  <2>14. CASE UNCHANGED vars
    BY <2>14 DEF vars
  <2> QED BY <2>1, <2>2, <2>3, <2>4, <2>5, <2>6, <2>7, <2>8, <2>9, <2>10, <2>11, <2>12,
             <2>13, <2>14 DEF Next
<1> QED BY <1>1, <1>2, PTL DEF Spec

-----------------------------------------------------------------------------
(* A hard delete leaves no session behind, and no request that was already *)
(* running creates one afterwards: "gone" is final, the cascade empties    *)
(* the table of the user, and the foreign key refuses later inserts.       *)
THEOREM NoOrphanSessionCorrect == Spec => []NoOrphanSession
<1>1. Init => NoOrphanSession
  BY DEF Init, NoOrphanSession, Table
<1>2. TypeOK /\ NoOrphanSession /\ [Next]_vars => NoOrphanSession'
  <2> SUFFICES ASSUME TypeOK, NoOrphanSession, [Next]_vars PROVE NoOrphanSession'
    OBVIOUS
  <2> USE DEF TypeOK, NoOrphanSession, Table
  <2>1. CASE UNCHANGED <<users, refresh_tokens>>
    BY <2>1
  <2>2. ASSUME NEW h \in Handlers, issueTokens(h)
        PROVE NoOrphanSession'
    <3>1. req[h] \in Minting
      BY <2>2, RequestFields DEF issueTokens
    <3> QED BY <2>2, <3>1 DEF issueTokens, CreateRefreshToken, Minting, Row
  <2>3. ASSUME NEW h \in Handlers, MarkRotated(h)
        PROVE NoOrphanSession'
    <3>1. /\ Table' = Table /\ users' = users
          /\ \A x \in Table : refresh_tokens'[x].user = refresh_tokens[x].user
      BY <2>3 DEF MarkRotated, RotateRefreshToken, Row
    <3> QED BY <3>1
  <2>4. ASSUME NEW h \in Handlers, RevokeOne(h)
        PROVE NoOrphanSession'
    BY <2>4 DEF RevokeOne, RevokeRefreshToken, Row
  <2>5. ASSUME NEW h \in Handlers, RevokeAll(h)
        PROVE NoOrphanSession'
    BY <2>5 DEF RevokeAll, RevokeAllUserRefreshTokens, Row
  <2>6. ASSUME NEW u \in Users, SoftDeleteUser(u)
        PROVE NoOrphanSession'
    BY <2>6 DEF SoftDeleteUser, RevokeAllUserRefreshTokens, Row
  <2>7. ASSUME NEW u \in Users, HardDeleteUser(u)
        PROVE NoOrphanSession'
    BY <2>7 DEF HardDeleteUser, CascadeDelete, TokensOf, Row
  <2>8. ASSUME NEW u \in Users, RestoreUser(u)
        PROVE NoOrphanSession'
    BY <2>8 DEF RestoreUser, Row
  <2> QED BY <2>1, <2>2, <2>3, <2>4, <2>5, <2>6, <2>7, <2>8
          DEF Next, vars, Login, SwitchTenant, Open, Refresh, Logout, Abort, ChangePassword, Tick
<1> QED BY <1>1, <1>2, TypeCorrect, PTL DEF Spec

-----------------------------------------------------------------------------
(* RotationBound speaks of rows that are marked; between the insert of the *)
(* successor and the mark, the request carries the same facts.             *)
MintsBound ==
  \A h \in Handlers :
    req[h].pc = "mint" /\ req[h].from # NoToken =>
      LET p == req[h].from IN
      /\ p \in DOMAIN parent
      /\ p \in Table => /\ refresh_tokens[p].user = req[h].user
                        /\ refresh_tokens[p].bind = req[h].bind

RotatesBound ==
  \A h \in Handlers :
    req[h].pc = "rotate" =>
      LET p == req[h].from
          s == req[h].succ
      IN /\ {p, s} \subseteq DOMAIN parent /\ parent[s] = p
         /\ {p, s} \subseteq Table =>
              /\ refresh_tokens[s].user = refresh_tokens[p].user
              /\ refresh_tokens[s].bind = refresh_tokens[p].bind

Ledger == RotationBound /\ MintsBound /\ RotatesBound

(* What the statements that only revoke keep of a row. *)
Kept(r, q) == r.user = q.user /\ r.bind = q.bind /\ r.replacedBy = q.replacedBy

(* Revoking or deleting rows keeps the ledger of rotations. *)
LEMMA RevokingKeepsLedger ==
  ASSUME TypeOK, Ledger, parent' = parent, req' = req \/ \E h \in Handlers : Become(h, Idle),
         TypeOK', Table' \subseteq Table,
         \A x \in Table' : /\ Kept(refresh_tokens'[x], refresh_tokens[x])
                           /\ Revoked(refresh_tokens[x]) => Revoked(refresh_tokens'[x])
  PROVE  Ledger'
<1> USE DEF TypeOK, Ledger
<1>1. \A h \in Handlers : req'[h] = req[h] \/ req'[h] = Idle
  BY DEF Become
<1>2. RotationBound'
  BY DEF RotationBound, Kept, Rotated
<1>3. MintsBound'
  BY <1>1 DEF MintsBound, Kept, Idle
<1>4. RotatesBound'
  BY <1>1 DEF RotatesBound, Kept, Idle
<1> QED BY <1>2, <1>3, <1>4

(* Every step keeps the ledger. *)
LEMMA LedgerStep == TypeOK /\ TypeOK' /\ Ledger /\ [Next]_vars => Ledger'
<1> SUFFICES ASSUME TypeOK, TypeOK', Ledger, [Next]_vars PROVE Ledger'
  OBVIOUS
<1> USE DEF TypeOK, Table
<1>1. ASSUME NEW h \in Handlers, NEW u \in Users, NEW b \in Bindings, Login(h, u, b) \/ SwitchTenant(h, u, b)
      PROVE Ledger'
  BY <1>1 DEF Login, SwitchTenant, Open, Become, Ledger, RotationBound, MintsBound, RotatesBound
<1>2. ASSUME NEW h \in Handlers, NEW t \in Table, Refresh(h, t)
      PROVE Ledger'
  <2>1. \/ req'[h].pc = "revokeAll"
        \/ /\ req'[h].pc = "mint" /\ req'[h].from = t
           /\ req'[h].user = refresh_tokens[t].user
           /\ req'[h].bind = refresh_tokens[t].bind
    BY <1>2 DEF Refresh, RefreshLive, RefreshInGrace, RefreshReused, Become
  <2>2. \A g \in Handlers \ {h} : req'[g] = req[g]
    BY <1>2 DEF Refresh, RefreshLive, RefreshInGrace, RefreshReused, Become
  <2>3. UNCHANGED <<refresh_tokens, parent>>
    BY <1>2 DEF Refresh
  <2>4. RotationBound'
    BY <2>3 DEF Ledger, RotationBound
  <2>5. MintsBound'
    BY <2>1, <2>2, <2>3 DEF Ledger, MintsBound
  <2>6. RotatesBound'
    BY <2>1, <2>2, <2>3 DEF Ledger, RotatesBound
  <2> QED BY <2>4, <2>5, <2>6 DEF Ledger
<1>3. ASSUME NEW h \in Handlers, NEW t \in Table, Logout(h, t)
      PROVE Ledger'
  BY <1>3 DEF Logout, Become, Ledger, RotationBound, MintsBound, RotatesBound
<1>4. ASSUME NEW h \in Handlers, issueTokens(h)
      PROVE Ledger'
  <2>1. req[h] \in Minting
    BY <1>4, RequestFields DEF issueTokens
  <2>2. PICK t \in Tokens \ DOMAIN parent :
          /\ refresh_tokens' = CreateRefreshToken(t, req[h].user, req[h].bind)
          /\ parent' = [x \in DOMAIN parent \cup {t} |->
                          IF x = t THEN req[h].from ELSE parent[x]]
          /\ Become(h, IF req[h].rotate
                         THEN [pc |-> "rotate", from |-> req[h].from, succ |-> t]
                         ELSE Idle)
    BY <1>4 DEF issueTokens
  <2>3. /\ Table' = Table \cup {t} /\ t \notin Table
        /\ \A x \in Table : refresh_tokens'[x] = refresh_tokens[x]
        /\ refresh_tokens'[t].user = req[h].user /\ refresh_tokens'[t].bind = req[h].bind
        /\ refresh_tokens'[t].replacedBy = NoToken
    BY <2>2 DEF CreateRefreshToken
  <2>4. /\ DOMAIN parent' = DOMAIN parent \cup {t}
        /\ parent'[t] = req[h].from
        /\ \A x \in DOMAIN parent : parent'[x] = parent[x]
    BY <2>2
  <2>5. \A g \in Handlers \ {h} : req'[g] = req[g]
    BY <2>2 DEF Become
  <2>6. \/ req'[h] = Idle
        \/ /\ req[h].from # NoToken
           /\ req'[h].pc = "rotate" /\ req'[h].from = req[h].from /\ req'[h].succ = t
    BY <2>1, <2>2, SessionsAssumption DEF Become, Minting
  <2>7. RotationBound'
    BY <2>3, <2>4 DEF Ledger, RotationBound, Rotated, Revoked
  <2>8. MintsBound'
    BY <2>3, <2>4, <2>5, <2>6 DEF Ledger, MintsBound, Idle
  <2>9. RotatesBound'
    <3> SUFFICES ASSUME NEW g \in Handlers, req'[g].pc = "rotate"
                 PROVE  LET p == req'[g].from
                            s == req'[g].succ
                        IN /\ {p, s} \subseteq DOMAIN parent' /\ parent'[s] = p
                           /\ {p, s} \subseteq Table' =>
                                /\ refresh_tokens'[s].user = refresh_tokens'[p].user
                                /\ refresh_tokens'[s].bind = refresh_tokens'[p].bind
      BY DEF RotatesBound
    <3>1. CASE g = h
      BY <2>3, <2>4, <2>6, <3>1, <1>4 DEF Ledger, MintsBound, issueTokens, Idle
    <3>2. CASE g # h
      BY <2>2, <2>3, <2>4, <2>5, <3>2 DEF Ledger, RotatesBound
    <3> QED BY <3>1, <3>2
  <2> QED BY <2>7, <2>8, <2>9 DEF Ledger
<1>5. ASSUME NEW h \in Handlers, MarkRotated(h)
      PROVE Ledger'
  <2> DEFINE p == req[h].from
             s == req[h].succ
  <2>1. req[h] \in Rotating /\ s # NoToken
    BY <1>5, RequestFields, SessionsAssumption DEF MarkRotated, Rotating
  <2>2. /\ Table' = Table /\ parent' = parent
        /\ \A x \in Table : /\ refresh_tokens'[x].user = refresh_tokens[x].user
                            /\ refresh_tokens'[x].bind = refresh_tokens[x].bind
        /\ \A x \in Table \ {p} : refresh_tokens'[x] = refresh_tokens[x]
    BY <1>5 DEF MarkRotated, RotateRefreshToken, Row
  <2>3. p \in Table =>
          \/ refresh_tokens'[p] = refresh_tokens[p]
          \/ Revoked(refresh_tokens'[p]) /\ refresh_tokens'[p].replacedBy = s
    <3> DEFINE q == [refresh_tokens[p] EXCEPT !.revokedAt = now, !.replacedBy = s]
    <3>1. p \in Table => q.revokedAt = now /\ q.replacedBy = s
      BY DEF Row
    <3>2. p \in Table => refresh_tokens'[p] \in {refresh_tokens[p], q}
      BY <1>5 DEF MarkRotated, RotateRefreshToken
    <3>3. now # Never
      BY DEF Never
    <3> HIDE DEF q
    <3> QED BY <3>1, <3>2, <3>3 DEF Revoked
  <2>4. \A g \in Handlers : req'[g] = req[g] \/ req'[g] = Idle
    BY <1>5 DEF MarkRotated, Become
  <2>5. s \in DOMAIN parent /\ parent[s] = p /\
        ({p, s} \subseteq Table => /\ refresh_tokens[s].user = refresh_tokens[p].user
                                 /\ refresh_tokens[s].bind = refresh_tokens[p].bind)
    BY <1>5 DEF MarkRotated, Ledger, RotatesBound
  <2> HIDE DEF p, s
  <2>6. RotationBound'
    BY <2>2, <2>3, <2>5 DEF Ledger, RotationBound, Rotated, Revoked
  <2>7. MintsBound'
    BY <2>2, <2>4 DEF Ledger, MintsBound, Idle
  <2>8. RotatesBound'
    BY <2>2, <2>4 DEF Ledger, RotatesBound, Idle
  <2> QED BY <2>6, <2>7, <2>8 DEF Ledger
<1>6. ASSUME NEW h \in Handlers, RevokeOne(h)
      PROVE Ledger'
  <2>1. Table' \subseteq Table /\ now # Never
    BY <1>6 DEF RevokeOne, RevokeRefreshToken, Never
  <2>2. \A x \in Table' : /\ Kept(refresh_tokens'[x], refresh_tokens[x])
                          /\ Revoked(refresh_tokens[x]) => Revoked(refresh_tokens'[x])
    BY <1>6, <2>1 DEF RevokeOne, RevokeRefreshToken, Row, Kept, Revoked
  <2> QED BY <1>6, <2>1, <2>2, RevokingKeepsLedger DEF RevokeOne
<1>7. ASSUME NEW h \in Handlers, RevokeAll(h)
      PROVE Ledger'
  <2>1. Table' \subseteq Table /\ now # Never
    BY <1>7 DEF RevokeAll, RevokeAllUserRefreshTokens, Never
  <2>2. \A x \in Table' : /\ Kept(refresh_tokens'[x], refresh_tokens[x])
                          /\ Revoked(refresh_tokens[x]) => Revoked(refresh_tokens'[x])
    BY <1>7, <2>1 DEF RevokeAll, RevokeAllUserRefreshTokens, Row, Kept, Revoked
  <2> QED BY <1>7, <2>1, <2>2, RevokingKeepsLedger DEF RevokeAll
<1>8. ASSUME NEW h \in Handlers, Abort(h)
      PROVE Ledger'
  BY <1>8, RevokingKeepsLedger DEF Abort, Kept
<1>9. ASSUME NEW h \in Handlers, NEW u \in Users, ChangePassword(h, u)
      PROVE Ledger'
  BY <1>9 DEF ChangePassword, Become, Ledger, RotationBound, MintsBound, RotatesBound
<1>10. ASSUME NEW u \in Users, SoftDeleteUser(u)
       PROVE Ledger'
  <2>1. Table' \subseteq Table /\ now # Never
    BY <1>10 DEF SoftDeleteUser, RevokeAllUserRefreshTokens, Never
  <2>2. \A x \in Table' : /\ Kept(refresh_tokens'[x], refresh_tokens[x])
                          /\ Revoked(refresh_tokens[x]) => Revoked(refresh_tokens'[x])
    BY <1>10, <2>1 DEF SoftDeleteUser, RevokeAllUserRefreshTokens, Row, Kept, Revoked
  <2> QED BY <1>10, <2>1, <2>2, RevokingKeepsLedger DEF SoftDeleteUser
<1>11. ASSUME NEW u \in Users, HardDeleteUser(u)
       PROVE Ledger'
  <2>1. Table' \subseteq Table /\ \A x \in Table' : refresh_tokens'[x] = refresh_tokens[x]
    BY <1>11 DEF HardDeleteUser, CascadeDelete
  <2> QED BY <1>11, <2>1, RevokingKeepsLedger DEF HardDeleteUser, Kept
<1>12. CASE UNCHANGED <<refresh_tokens, req, parent>>
  BY <1>12, RevokingKeepsLedger DEF Kept
<1> QED BY <1>1, <1>2, <1>3, <1>4, <1>5, <1>6, <1>7, <1>8, <1>9, <1>10, <1>11, <1>12
        DEF Next, vars, RestoreUser, Tick

(* The ledger always holds. *)
LEMMA LedgerKept == Spec => []Ledger
<1>1. Init => Ledger
  BY DEF Init, Ledger, RotationBound, MintsBound, RotatesBound, Table, Idle
<1> QED BY <1>1, LedgerStep, TypeCorrect, PTL DEF Spec

(* A token marked rotated is revoked and names a token that was minted for *)
(* it, for the same user, tenant and project, although Refresh inserts the *)
(* successor and marks the presented token in two separate statements.     *)
THEOREM RotationBoundCorrect == Spec => []RotationBound
BY LedgerKept, PTL DEF Ledger

-----------------------------------------------------------------------------
(* What every step respects: revoked rows are frozen, a removed row never  *)
(* comes back, the clock does not run backwards.                           *)
Forward ==
  /\ RevokedIsFrozen
  /\ Table' \cap DOMAIN parent \subseteq Table
  /\ DOMAIN parent \subseteq DOMAIN parent'
  /\ now <= now'

(* In one step a row only moves forward, or goes. *)
LEMMA StepForward == TypeOK /\ [Next]_vars => Forward
<1> SUFFICES ASSUME TypeOK, [Next]_vars PROVE Forward
  OBVIOUS
<1> USE DEF TypeOK, Table, Forward, RevokedIsFrozen
<1>1. CASE UNCHANGED <<refresh_tokens, parent, now>>
  BY <1>1
<1>2. ASSUME NEW h \in Handlers, issueTokens(h)
      PROVE Forward
  BY <1>2 DEF issueTokens, CreateRefreshToken
<1>3. ASSUME NEW h \in Handlers, MarkRotated(h)
      PROVE Forward
  <2>1. Table' = Table /\ UNCHANGED <<parent, now>>
    BY <1>3 DEF MarkRotated, RotateRefreshToken
  <2>2. \A x \in Table : Revoked(refresh_tokens[x]) => refresh_tokens'[x] = refresh_tokens[x]
    BY <1>3 DEF MarkRotated, RotateRefreshToken
  <2> QED BY <2>1, <2>2
<1>4. ASSUME NEW h \in Handlers, RevokeOne(h)
      PROVE Forward
  BY <1>4 DEF RevokeOne, RevokeRefreshToken
<1>5. ASSUME NEW h \in Handlers, RevokeAll(h)
      PROVE Forward
  BY <1>5 DEF RevokeAll, RevokeAllUserRefreshTokens
<1>6. ASSUME NEW u \in Users, SoftDeleteUser(u)
      PROVE Forward
  BY <1>6 DEF SoftDeleteUser, RevokeAllUserRefreshTokens
<1>7. ASSUME NEW u \in Users, HardDeleteUser(u)
      PROVE Forward
  BY <1>7 DEF HardDeleteUser, CascadeDelete
<1>8. CASE Tick
  BY <1>8 DEF Tick
<1> QED BY <1>1, <1>2, <1>3, <1>4, <1>5, <1>6, <1>7, <1>8
        DEF Next, vars, Login, SwitchTenant, Open, Refresh, Logout, Abort, ChangePassword, RestoreUser

(* No statement moves the revocation time or the successor of a revoked    *)
(* row: logout, rotation and theft response never reopen a grace window.   *)
THEOREM RevokedForGoodCorrect == Spec => RevokedForGood
BY StepForward, TypeCorrect, PTL DEF Spec, RevokedForGood, Forward

(* A row that is revoked and out of grace stays so while it exists. *)
LEMMA DeadRowsStayDead ==
  ASSUME TypeOK, TypeOK', Forward, NEW t \in Table, t \in Table',
         Revoked(refresh_tokens[t]), ~InGrace(refresh_tokens[t])
  PROVE  Revoked(refresh_tokens[t])' /\ ~InGrace(refresh_tokens[t])'
<1>1. refresh_tokens'[t] = refresh_tokens[t] /\ refresh_tokens[t] \in Row
  BY DEF Forward, RevokedIsFrozen, TypeOK
<1> QED BY <1>1, SessionsAssumption DEF InGrace, Revoked, Rotated, TypeOK, Forward, Row

-----------------------------------------------------------------------------
(* The history of rotations agrees with the rows, and a request that goes  *)
(* to wipe a user's sessions holds a token that is dead for good.          *)
RotationsDated ==
  \A t \in Tokens :
    rotatedAt[t] # Never =>
      /\ t \in DOMAIN parent
      /\ t \in Table => /\ Revoked(refresh_tokens[t]) /\ Rotated(refresh_tokens[t])
                        /\ refresh_tokens[t].revokedAt = rotatedAt[t]

TheftHolds ==
  \A h \in Handlers :
    (req[h].pc = "revokeAll" /\ req[h].why = "reuse") =>
       LET p == req[h].from IN
         /\ p \in DOMAIN parent
         /\ rotatedAt[p] = Never \/ rotatedAt[p] + Grace <= now
         /\ p \in Table => Revoked(refresh_tokens[p]) /\ ~InGrace(refresh_tokens[p])

(* Every step keeps rotations dated by their revocation. *)
LEMMA RotationsDatedStep ==
  TypeOK /\ TypeOK' /\ RotationsDated /\ [Next]_vars => RotationsDated'
<1> SUFFICES ASSUME TypeOK, TypeOK', RotationsDated, [Next]_vars PROVE RotationsDated'
  OBVIOUS
<1>1. Forward
  BY StepForward
<1>2. CASE rotatedAt' = rotatedAt
  BY <1>1, <1>2 DEF RotationsDated, Forward, RevokedIsFrozen, TypeOK
<1>3. ASSUME NEW h \in Handlers, MarkRotated(h)
      PROVE RotationsDated'
  <2> DEFINE p == req[h].from
  <2>1. req[h] \in Rotating /\ p \in Tokens /\ req[h].succ # NoToken
    BY <1>3, RequestFields, SessionsAssumption DEF MarkRotated, Rotating, TypeOK
  <2>2. \A t \in Tokens \ {p} : rotatedAt'[t] = rotatedAt[t]
    BY <1>3 DEF MarkRotated, TypeOK
  <2>3. CASE p \in Table /\ ~Revoked(refresh_tokens[p])
    <3>1. /\ rotatedAt'[p] = now /\ now # Never
          /\ p \in Table' /\ p \in DOMAIN parent'
          /\ refresh_tokens'[p] = [refresh_tokens[p] EXCEPT !.revokedAt = now,
                                                             !.replacedBy = req[h].succ]
      BY <1>3, <2>1, <2>3 DEF MarkRotated, RotateRefreshToken, TypeOK, Never, Table
    <3>2. Revoked(refresh_tokens'[p]) /\ Rotated(refresh_tokens'[p])
          /\ refresh_tokens'[p].revokedAt = now
      BY <3>1, <2>1, <2>3 DEF Revoked, Rotated, TypeOK, Row
    <3> QED BY <1>1, <2>2, <3>1, <3>2
            DEF RotationsDated, Forward, RevokedIsFrozen, TypeOK, Revoked, Rotated
  <2>4. CASE ~(p \in Table /\ ~Revoked(refresh_tokens[p]))
    <3>1. rotatedAt' = rotatedAt
      BY <1>3, <2>1, <2>4 DEF MarkRotated, TypeOK
    <3> QED BY <3>1, <1>2
  <2> QED BY <2>3, <2>4
<1> QED BY <1>2, <1>3
        DEF Next, vars, Login, SwitchTenant, Open, Refresh, Logout, issueTokens, RevokeOne, RevokeAll, Abort,
            ChangePassword, SoftDeleteUser, HardDeleteUser, RestoreUser, Tick

(* Every step keeps a theft response to tokens outside their window. *)
LEMMA TheftHoldsStep ==
  TypeOK /\ TypeOK' /\ RotationsDated /\ TheftHolds /\ [Next]_vars => TheftHolds'
<1> SUFFICES ASSUME TypeOK, TypeOK', RotationsDated, TheftHolds, [Next]_vars,
                    NEW h \in Handlers, req'[h].pc = "revokeAll", req'[h].why = "reuse",
                    NEW p, p = req'[h].from
             PROVE  /\ p \in DOMAIN parent'
                    /\ rotatedAt'[p] = Never \/ rotatedAt'[p] + Grace <= now'
                    /\ p \in Table' => Revoked(refresh_tokens[p])' /\ ~InGrace(refresh_tokens[p])'
  BY DEF TheftHolds
<1>1. Forward
  BY StepForward
(* The request stood there before, or Refresh has just decided. *)
<1>2. req'[h] = req[h] \/ \E t \in Table : Refresh(h, t) /\ RefreshReused(h, t)
  <2> USE DEF Become, TypeOK, Idle
  <2>1. ASSUME NEW g \in Handlers, NEW u \in Users, NEW b \in Bindings, Login(g, u, b) \/ SwitchTenant(g, u, b)
        PROVE  req'[h] = req[h]
    BY <2>1 DEF Login, SwitchTenant, Open
  <2>2. ASSUME NEW g \in Handlers, NEW t \in Table, Refresh(g, t)
        PROVE  req'[h] = req[h] \/ (g = h /\ RefreshReused(h, t))
    BY <2>2 DEF Refresh, RefreshLive, RefreshInGrace, RefreshReused
  <2>3. ASSUME NEW g \in Handlers, issueTokens(g)
        PROVE  req'[h] = req[h]
    BY <2>3 DEF issueTokens
  <2>4. ASSUME NEW g \in Handlers,
               (\E t \in Table : Logout(g, t)) \/ MarkRotated(g) \/ RevokeOne(g) \/ RevokeAll(g)
               \/ Abort(g) \/ \E u \in Users : ChangePassword(g, u)
        PROVE  req'[h] = req[h]
    BY <2>4 DEF Logout, MarkRotated, RevokeOne, RevokeAll, Abort, ChangePassword
  <2> QED BY <2>1, <2>2, <2>3, <2>4 DEF Next, vars, SoftDeleteUser, HardDeleteUser, RestoreUser, Tick
<1>3. CASE req'[h] = req[h]
  <2>1. /\ p \in DOMAIN parent /\ p \in Tokens
        /\ rotatedAt[p] = Never \/ rotatedAt[p] + Grace <= now
        /\ p \in Table => Revoked(refresh_tokens[p]) /\ ~InGrace(refresh_tokens[p])
    BY <1>3 DEF TheftHolds, TypeOK
  <2>2. rotatedAt'[p] = rotatedAt[p]
    <3>1. ASSUME NEW g \in Handlers, MarkRotated(g)
          PROVE  rotatedAt'[p] = rotatedAt[p]
      BY <3>1, <2>1 DEF MarkRotated, TypeOK
    <3> QED BY <3>1
            DEF Next, vars, Login, SwitchTenant, Open, Refresh, Logout, issueTokens, RevokeOne, RevokeAll, Abort,
                ChangePassword, SoftDeleteUser, HardDeleteUser, RestoreUser, Tick
  <2>3. rotatedAt[p] \in Nat /\ now \in Nat /\ now' \in Nat /\ Grace \in Nat
    BY <2>1, SessionsAssumption DEF TypeOK
  <2>4. p \in Table' => Revoked(refresh_tokens[p])' /\ ~InGrace(refresh_tokens[p])'
    BY <1>1, <2>1, DeadRowsStayDead DEF Forward
  <2> QED BY <1>1, <2>1, <2>2, <2>3, <2>4 DEF Forward
<1>4. ASSUME NEW t \in Table, Refresh(h, t), RefreshReused(h, t)
      PROVE  /\ p \in DOMAIN parent'
             /\ rotatedAt'[p] = Never \/ rotatedAt'[p] + Grace <= now'
             /\ p \in Table' => Revoked(refresh_tokens[p])' /\ ~InGrace(refresh_tokens[p])'
  <2>1. p = t /\ UNCHANGED <<now, refresh_tokens, parent, rotatedAt>>
    BY <1>4 DEF Refresh, RefreshReused, Become, TypeOK
  <2>2. Revoked(refresh_tokens[t]) /\ ~InGrace(refresh_tokens[t]) /\ t \in DOMAIN parent
    BY <1>4 DEF RefreshReused, TypeOK
  <2>3. rotatedAt[t] = Never \/ rotatedAt[t] + Grace <= now
    BY <2>2, SessionsAssumption DEF RotationsDated, TypeOK, InGrace, Row
  <2> QED BY <2>1, <2>2, <2>3 DEF InGrace, Revoked, Rotated, Table
<1> QED BY <1>2, <1>3, <1>4

(* A parallel refresh within the grace window is never taken for theft,    *)
(* and a token that triggers the wipe cannot be refreshed any more.        *)
THEOREM NoFalseTheftCorrect == Spec => []NoFalseTheft
<1>1. Init => RotationsDated /\ TheftHolds
  BY DEF Init, RotationsDated, TheftHolds, Idle
<1>2. TheftHolds => NoFalseTheft
  BY DEF TheftHolds, NoFalseTheft, Refreshable
<1> QED BY <1>1, <1>2, RotationsDatedStep, TheftHoldsStep, TypeCorrect, PTL DEF Spec

-----------------------------------------------------------------------------
(* What "revoke all sessions" achieves when nothing of the user was in     *)
(* grace or in flight.                                                     *)
SealedHolds ==
  /\ \A t \in sealed : t \in Table => Revoked(refresh_tokens[t]) /\ ~InGrace(refresh_tokens[t])
  /\ \A h \in Handlers : req[h].pc = "mint" => req[h].from \notin sealed

(* The two places where a token becomes sealed are the same update. *)
LEMMA SealingStep ==
  ASSUME TypeOK, TypeOK', Ledger, SealedHolds, Forward,
         NEW u \in Users, Seal(u), now' = now,
         refresh_tokens' = RevokeAllUserRefreshTokens(u),
         req' = req \/ \E h \in Handlers : Become(h, Idle)
  PROVE  SealedHolds'
<1>1. ASSUME NEW t \in TokensOf(u), Quiescent(u)
      PROVE  Revoked(refresh_tokens'[t]) /\ ~InGrace(refresh_tokens'[t])
  <2>1. t \in Table /\ refresh_tokens[t] \in Row /\ ~InGrace(refresh_tokens[t])
    BY <1>1 DEF TokensOf, Quiescent, TypeOK
  <2>2. CASE Revoked(refresh_tokens[t])
    BY <2>1, <2>2 DEF RevokeAllUserRefreshTokens
  <2>3. CASE ~Revoked(refresh_tokens[t])
    <3>1. ~Rotated(refresh_tokens[t])
      BY <2>1, <2>3 DEF Ledger, RotationBound
    <3>2. refresh_tokens'[t] = [refresh_tokens[t] EXCEPT !.revokedAt = now]
      BY <1>1, <2>1, <2>3 DEF RevokeAllUserRefreshTokens, TokensOf
    <3> QED BY <2>1, <3>1, <3>2 DEF Revoked, Rotated, InGrace, Row, TypeOK, Never
  <2> QED BY <2>2, <2>3
<1>2. ASSUME NEW t \in sealed', t \in Table'
      PROVE  Revoked(refresh_tokens[t])' /\ ~InGrace(refresh_tokens[t])'
  <2>1. t \in Table
    BY <1>2 DEF RevokeAllUserRefreshTokens, Table
  <2>2. CASE t \in sealed
    BY <1>2, <2>1, <2>2, DeadRowsStayDead DEF SealedHolds
  <2>3. CASE t \notin sealed
    <3>1. t \in TokensOf(u) /\ Quiescent(u)
      BY <1>2, <2>3 DEF Seal
    <3> QED BY <3>1, <1>1 DEF InGrace, Revoked, Rotated
  <2> QED BY <2>2, <2>3
<1>3. ASSUME NEW h \in Handlers, req'[h].pc = "mint"
      PROVE  req'[h].from \notin sealed'
  <2>1. req'[h] = req[h]
    BY <1>3 DEF Become, Idle, TypeOK
  <2>2. req[h].from \notin sealed
    BY <1>3, <2>1 DEF SealedHolds
  <2>3. ASSUME Quiescent(u) PROVE req[h].from \notin TokensOf(u)
    BY <1>3, <2>1, <2>3, SessionsAssumption
       DEF Quiescent, TokensOf, Ledger, MintsBound, TypeOK
  <2> QED BY <2>1, <2>2, <2>3 DEF Seal
<1> QED BY <1>2, <1>3 DEF SealedHolds

(* Every step keeps sealed tokens dead and no request minting from one. *)
LEMMA SealedHoldsStep ==
  TypeOK /\ TypeOK' /\ Ledger /\ SealedHolds /\ [Next]_vars => SealedHolds'
<1> SUFFICES ASSUME TypeOK, TypeOK', Ledger, SealedHolds, [Next]_vars PROVE SealedHolds'
  OBVIOUS
<1>1. Forward
  BY StepForward
<1>2. ASSUME NEW h \in Handlers, RevokeAll(h)
      PROVE SealedHolds'
  <2>1. req[h].user \in Users
    BY <1>2, RequestFields DEF RevokeAll, Revoking, TypeOK
  <2> QED BY <1>1, <1>2, <2>1, SealingStep DEF RevokeAll
<1>3. ASSUME NEW u \in Users, SoftDeleteUser(u)
      PROVE SealedHolds'
  BY <1>1, <1>3, SealingStep DEF SoftDeleteUser
<1>4. ASSUME sealed' = sealed
      PROVE \A t \in sealed' :
              t \in Table' => Revoked(refresh_tokens[t])' /\ ~InGrace(refresh_tokens[t])'
  BY <1>1, <1>4, DeadRowsStayDead DEF SealedHolds, Forward, TypeOK
<1>5. ASSUME sealed' = sealed,
             \A h \in Handlers : req'[h].pc = "mint" =>
                                   req'[h] = req[h] \/ req'[h].from \notin sealed
      PROVE SealedHolds'
  BY <1>4, <1>5 DEF SealedHolds
<1>6. ASSUME NEW h \in Handlers, NEW t \in Table, Refresh(h, t)
      PROVE SealedHolds'
  <2>1. t \in sealed => Revoked(refresh_tokens[t]) /\ ~InGrace(refresh_tokens[t])
    BY DEF SealedHolds
  <2>2. req'[h].pc = "mint" => req'[h].from = t /\ t \notin sealed
    BY <1>6, <2>1 DEF Refresh, RefreshLive, RefreshInGrace, RefreshReused, Become, TypeOK
  <2>3. sealed' = sealed /\ \A g \in Handlers \ {h} : req'[g] = req[g]
    BY <1>6 DEF Refresh, RefreshLive, RefreshInGrace, RefreshReused, Become, TypeOK
  <2> QED BY <2>2, <2>3, <1>5
<1>7. ASSUME NEW h \in Handlers, NEW u \in Users, NEW b \in Bindings, Login(h, u, b) \/ SwitchTenant(h, u, b)
      PROVE SealedHolds'
  <2>1. NoToken \notin sealed
    BY SessionsAssumption DEF TypeOK
  <2> QED BY <1>7, <2>1, <1>5 DEF Login, SwitchTenant, Open, Become, TypeOK
<1>8. ASSUME NEW h \in Handlers, issueTokens(h)
      PROVE SealedHolds'
  BY <1>8, <1>5 DEF issueTokens, Become, Idle, TypeOK
<1>9. ASSUME NEW h \in Handlers,
             (\E t \in Table : Logout(h, t)) \/ MarkRotated(h) \/ RevokeOne(h) \/ Abort(h)
               \/ \E u \in Users : ChangePassword(h, u)
      PROVE SealedHolds'
  BY <1>9, <1>5 DEF Logout, MarkRotated, RevokeOne, Abort, ChangePassword, Become, Idle, TypeOK
<1>10. CASE UNCHANGED <<req, sealed>>
  BY <1>10, <1>5
<1> QED BY <1>2, <1>3, <1>6, <1>7, <1>8, <1>9, <1>10
        DEF Next, vars, HardDeleteUser, RestoreUser, Tick

(* Revoking all sessions of a user, at a moment when no refresh or login   *)
(* of the user is in flight and none of the user's tokens is in grace, is  *)
(* final: no token it covered is ever accepted again.                      *)
THEOREM SealedStayDeadCorrect == Spec => []SealedStayDead
<1>1. Init => SealedHolds
  BY DEF Init, SealedHolds, Idle
<1>2. SealedHolds => SealedStayDead
  BY DEF SealedHolds, SealedStayDead, Refreshable
<1> QED BY <1>1, <1>2, SealedHoldsStep, LedgerKept, TypeCorrect, PTL DEF Spec

-----------------------------------------------------------------------------
(* Sessions implements TokenLife, for every value of the constants.        *)
(* The step leaves every request with the warrant and the debt it had. *)
SameRights == warrantMap' = warrantMap /\ owesMap' = owesMap

(* The refinement mapping yields warrants and debts. *)
LEMMA MapTypes ==
  ASSUME TypeOK
  PROVE  /\ \A h \in Handlers : warrantMap[h] \in Tokens \cup {NoToken}
         /\ \A h \in Handlers : owesMap[h] \in Tokens \cup {NoToken}
         /\ warrantMap \in [Handlers -> Tokens \cup {NoToken}]
         /\ owesMap \in [Handlers -> Tokens \cup {NoToken}]
BY RequestFields DEF TypeOK, warrantMap, owesMap, Minting, Rotating

(* A request that becomes idle, or starts something that needs no token,   *)
(* without having held a token, changes no rights.                         *)
LEMMA SameRightsRule ==
  ASSUME TypeOK, NEW h \in Handlers, NEW r, Become(h, r),
         req[h].pc \notin {"mint", "rotate"},
         r.pc \notin {"mint", "rotate"} \/ (r.pc = "mint" /\ r.from = NoToken)
  PROVE  SameRights
BY DEF SameRights, warrantMap, owesMap, Become, TypeOK

(* Revoking, in one statement, some of the tokens that are not revoked. *)
LEMMA RevokingEnds ==
  ASSUME TypeOK, Ledger, NEW S \in SUBSET Table, now' = now, parent' = parent, SameRights,
         refresh_tokens' = [x \in Table |->
                              IF x \in S /\ ~Revoked(refresh_tokens[x])
                                THEN [refresh_tokens[x] EXCEPT !.revokedAt = now]
                                ELSE refresh_tokens[x]]
  PROVE  \E E \in SUBSET Tokens : Life!End(E)
<1> DEFINE E == {x \in S : ~Revoked(refresh_tokens[x])}
<1>1. E \in SUBSET Tokens /\ E \subseteq DOMAIN parent /\ Table' = Table
  BY DEF TypeOK, Table
<1>2. \A t \in E : lifeMap[t] # "unborn"
  BY <1>1 DEF lifeMap, lifeOf
<1>3. ASSUME NEW t \in Tokens, t \notin E PROVE lifeOf(t)' = lifeOf(t)
  BY <1>1, <1>3 DEF lifeOf, InGrace, Revoked, Rotated, Expired, Table
<1>4. ASSUME NEW t \in E PROVE lifeOf(t)' = "dead"
  <2>1. ~Rotated(refresh_tokens[t]) /\ refresh_tokens[t] \in Row
    BY <1>4 DEF Ledger, RotationBound, TypeOK
  <2>2. refresh_tokens'[t] = [refresh_tokens[t] EXCEPT !.revokedAt = now]
    BY <1>1, <1>4 DEF TypeOK
  <2> QED BY <1>1, <1>4, <2>1, <2>2
          DEF lifeOf, InGrace, Revoked, Rotated, Row, TypeOK, Never, Table
<1>5. lifeMap' = [t \in Tokens |-> IF t \in E THEN "dead" ELSE lifeMap[t]]
  BY <1>1, <1>3, <1>4 DEF lifeMap
<1> QED BY <1>1, <1>2, <1>5 DEF Life!End, SameRights

(* The initial state maps to one of TokenLife. *)
LEMMA InitMaps == Init => Life!LifeInit
BY DEF Init, Life!LifeInit, lifeMap, warrantMap, owesMap, lifeOf, Idle

(* Every step is a step of TokenLife or leaves its variables alone. *)
LEMMA StepMaps ==
  TypeOK /\ TypeOK' /\ Ledger /\ [Next]_vars => [Life!LifeNext]_(Life!lifeVars)
<1> SUFFICES ASSUME TypeOK, TypeOK', Ledger, [Next]_vars
             PROVE  Life!LifeNext \/ (lifeMap' = lifeMap /\ parent' = parent /\ SameRights)
  BY DEF Life!lifeVars, SameRights
<1> DEFINE Same == lifeMap' = lifeMap /\ parent' = parent /\ SameRights
(* Life depends on the table, the history of tokens and the clock only. *)
<1>1. UNCHANGED <<refresh_tokens, parent, now>> => lifeMap' = lifeMap
  BY DEF lifeMap, lifeOf, InGrace, Revoked, Rotated, Expired, Table
<1>2. ASSUME NEW h \in Handlers, NEW u \in Users, NEW b \in Bindings, Login(h, u, b) \/ SwitchTenant(h, u, b)
      PROVE Same
  <2>1. SameRights
    BY <1>2, SameRightsRule DEF Login, SwitchTenant, Open, Idle
  <2> QED BY <1>1, <1>2, <2>1 DEF Login, SwitchTenant, Open
<1>3. ASSUME NEW h \in Handlers, NEW t \in Table, Refresh(h, t)
      PROVE Life!Accept(h, t) \/ Same
  <2>1. lifeMap' = lifeMap /\ parent' = parent /\ req[h] = Idle /\ t \in Tokens
    BY <1>1, <1>3 DEF Refresh, TypeOK
  <2>2. CASE RefreshReused(h, t)
    BY <2>1, <2>2, SameRightsRule DEF RefreshReused, Idle
  <2>3. CASE RefreshLive(h, t) \/ RefreshInGrace(h, t)
    <3>1. lifeMap[t] \in Life!Presentable
      BY <2>1, <2>3 DEF RefreshLive, RefreshInGrace, lifeMap, lifeOf, InGrace, TypeOK,
                        Life!Presentable
    <3>2. warrantMap[h] = NoToken
      BY <2>1 DEF warrantMap, Idle
    <3>3. warrantMap' = [warrantMap EXCEPT ![h] = t]
      <4>1. req'[h].pc = "mint" /\ req'[h].from = t
        BY <2>3 DEF RefreshLive, RefreshInGrace, Become, TypeOK
      <4>2. \A g \in Handlers \ {h} : req'[g] = req[g]
        BY <2>3 DEF RefreshLive, RefreshInGrace, Become, TypeOK
      <4> QED BY <4>1, <4>2 DEF warrantMap
    <3>4. owesMap' = owesMap
      BY <2>1, <2>3 DEF RefreshLive, RefreshInGrace, owesMap, Become, TypeOK, Idle
    <3> QED BY <2>1, <3>1, <3>2, <3>3, <3>4 DEF Life!Accept
  <2> QED BY <1>3, <2>2, <2>3 DEF Refresh
<1>4. ASSUME NEW h \in Handlers, NEW t \in Table, Logout(h, t)
      PROVE Same
  <2>1. SameRights
    BY <1>4, SameRightsRule DEF Logout, Idle
  <2> QED BY <1>1, <1>4, <2>1 DEF Logout
<1>5. ASSUME NEW h \in Handlers, issueTokens(h)
      PROVE \E t \in Tokens : Life!Open(t) \/ Life!Renew(h, t)
  <2>1. req[h] \in Minting /\ req[h].pc = "mint"
    BY <1>5, RequestFields DEF issueTokens, TypeOK
  <2>2. PICK t \in Tokens \ DOMAIN parent :
          /\ refresh_tokens' = CreateRefreshToken(t, req[h].user, req[h].bind)
          /\ parent' = [x \in DOMAIN parent \cup {t} |->
                          IF x = t THEN req[h].from ELSE parent[x]]
          /\ Become(h, IF req[h].rotate
                         THEN [pc |-> "rotate", from |-> req[h].from, succ |-> t]
                         ELSE Idle)
    BY <1>5 DEF issueTokens
  <2>3. now' = now
    BY <1>5 DEF issueTokens
  <2>4. warrantMap[h] = req[h].from /\ owesMap[h] = NoToken
    BY <2>1 DEF warrantMap, owesMap
  <2>5. Life!Birth(t, req[h].from)
    <3>1. lifeMap[t] = "unborn"
      BY DEF lifeMap, lifeOf
    <3>2. ASSUME NEW x \in Tokens, x # t PROVE lifeOf(x)' = lifeOf(x)
      BY <2>2, <2>3, <3>2
         DEF CreateRefreshToken, lifeOf, InGrace, Revoked, Rotated, Expired, Table
    <3>3. lifeOf(t)' = "live"
      <4>1. /\ t \in Table' /\ t \in DOMAIN parent'
            /\ refresh_tokens'[t].revokedAt = Never
            /\ refresh_tokens'[t].expiresAt = now + RefreshTTL
        BY <2>2 DEF CreateRefreshToken, Table
      <4> QED BY <4>1, <2>3, SessionsAssumption DEF lifeOf, Revoked, Expired, TypeOK
    <3>4. lifeMap' = [lifeMap EXCEPT ![t] = "live"]
      BY <3>2, <3>3 DEF lifeMap
    <3> QED BY <2>2, <3>1, <3>4 DEF Life!Birth
  <2>6. CASE req[h].from = NoToken
    <3>1. ~req[h].rotate
      BY <2>1, <2>6, SessionsAssumption DEF Minting
    <3>2. SameRights
      BY <2>1, <2>2, <2>6, <3>1 DEF SameRights, warrantMap, owesMap, Become, Idle, TypeOK
    <3> QED BY <2>5, <2>6, <3>2 DEF Life!Open, SameRights
  <2>7. CASE req[h].from # NoToken
    <3>1. warrantMap' = [warrantMap EXCEPT ![h] = NoToken]
      BY <2>1, <2>2 DEF warrantMap, Become, Idle, TypeOK
    <3>2. owesMap' = [owesMap EXCEPT ![h] = req[h].from] \/ owesMap' = owesMap
      BY <2>1, <2>2 DEF owesMap, Become, Idle, TypeOK
    <3> QED BY <2>4, <2>5, <2>7, <3>1, <3>2 DEF Life!Renew
  <2> QED BY <2>6, <2>7
<1>6. ASSUME NEW h \in Handlers, MarkRotated(h)
      PROVE Life!Retire(h)
  <2>0. req[h] \in Rotating /\ req[h].succ # NoToken /\ req[h].from \in DOMAIN parent
    BY <1>6, RequestFields, SessionsAssumption
       DEF MarkRotated, Rotating, TypeOK, Ledger, RotatesBound
  <2> PICK p \in Tokens : p = req[h].from
    BY <2>0 DEF Rotating
  <2>1. req[h] \in Rotating /\ req[h].succ # NoToken /\ p \in DOMAIN parent
    BY <2>0
  <2>2. owesMap[h] = p /\ p # NoToken
    BY <1>6, <2>1, SessionsAssumption DEF owesMap, MarkRotated
  <2>3. /\ Table' = Table /\ now' = now /\ parent' = parent
        /\ \A x \in Table \ {p} : refresh_tokens'[x] = refresh_tokens[x]
        /\ p \in Table /\ Revoked(refresh_tokens[p]) => refresh_tokens'[p] = refresh_tokens[p]
        /\ p \in Table /\ ~Revoked(refresh_tokens[p]) =>
             refresh_tokens'[p] = [refresh_tokens[p] EXCEPT !.revokedAt = now,
                                                            !.replacedBy = req[h].succ]
    BY <1>6 DEF MarkRotated, RotateRefreshToken, Table
  <2>4. ASSUME NEW x \in Tokens, x # p PROVE lifeOf(x)' = lifeOf(x)
    BY <2>3, <2>4 DEF lifeOf, InGrace, Revoked, Rotated, Expired, Table
  <2>5. lifeOf(p)' = IF lifeMap[p] \in {"live", "lapsed"} THEN "rotated" ELSE lifeMap[p]
    <3>1. CASE p \in Table /\ ~Revoked(refresh_tokens[p])
      <4>1. lifeMap[p] \in {"live", "lapsed"}
        BY <2>1, <3>1 DEF lifeMap, lifeOf
      <4>2. refresh_tokens[p] \in Row
        BY <3>1 DEF TypeOK
      <4>3. Revoked(refresh_tokens'[p]) /\ Rotated(refresh_tokens'[p])
            /\ refresh_tokens'[p].revokedAt = now
        <5>1. now \in Nat \ {0} /\ req[h].succ \in Tokens
          BY <2>1 DEF TypeOK, Rotating
        <5> DEFINE q == [refresh_tokens[p] EXCEPT !.revokedAt = now, !.replacedBy = req[h].succ]
        <5>2. q.revokedAt = now /\ q.replacedBy = req[h].succ
          BY <4>2 DEF Row
        <5>3. refresh_tokens'[p] = q
          BY <2>3, <3>1
        <5> HIDE DEF q
        <5> QED BY <2>1, <5>1, <5>2, <5>3 DEF Revoked, Rotated, Never
      <4>4. lifeOf(p)' = "rotated"
        BY <2>1, <2>3, <3>1, <4>3, SessionsAssumption
           DEF lifeOf, InGrace, Revoked, Rotated, Table, TypeOK
      <4> QED BY <4>1, <4>4
    <3>2. CASE ~(p \in Table /\ ~Revoked(refresh_tokens[p]))
      <4>1. lifeOf(p)' = lifeMap[p]
        BY <2>1, <2>3, <3>2
           DEF lifeMap, lifeOf, InGrace, Revoked, Rotated, Expired, Table
      <4>2. lifeMap[p] \notin {"live", "lapsed"}
        BY <2>1, <3>2 DEF lifeMap, lifeOf
      <4> QED BY <4>1, <4>2
    <3> QED BY <3>1, <3>2
  <2>6. lifeMap' = IF lifeMap[p] \in {"live", "lapsed"}
                     THEN [lifeMap EXCEPT ![p] = "rotated"] ELSE lifeMap
    BY <2>1, <2>4, <2>5 DEF lifeMap
  <2>7. owesMap' = [owesMap EXCEPT ![h] = NoToken] /\ warrantMap' = warrantMap
    BY <1>6 DEF MarkRotated, owesMap, warrantMap, Become, Idle, TypeOK
  <2> QED BY <2>2, <2>3, <2>6, <2>7 DEF Life!Retire
<1>7. ASSUME NEW h \in Handlers, RevokeOne(h)
      PROVE \E E \in SUBSET Tokens : Life!End(E)
  <2>1. SameRights
    BY <1>7, SameRightsRule DEF RevokeOne, Idle
  <2>2. {req[h].from} \cap Table \in SUBSET Table
    OBVIOUS
  <2>3. refresh_tokens' = [x \in Table |->
                             IF x \in {req[h].from} \cap Table /\ ~Revoked(refresh_tokens[x])
                               THEN [refresh_tokens[x] EXCEPT !.revokedAt = now]
                               ELSE refresh_tokens[x]]
    BY <1>7 DEF RevokeOne, RevokeRefreshToken
  <2> HIDE DEF Same
  <2> QED BY <1>7, <2>1, <2>2, <2>3, RevokingEnds DEF RevokeOne
<1>8. ASSUME NEW u, now' = now, parent' = parent, SameRights,
             refresh_tokens' = RevokeAllUserRefreshTokens(u)
      PROVE \E E \in SUBSET Tokens : Life!End(E)
  <2>1. TokensOf(u) \in SUBSET Table
    BY DEF TokensOf
  <2>2. refresh_tokens' = [x \in Table |->
                             IF x \in TokensOf(u) /\ ~Revoked(refresh_tokens[x])
                               THEN [refresh_tokens[x] EXCEPT !.revokedAt = now]
                               ELSE refresh_tokens[x]]
    BY <1>8 DEF RevokeAllUserRefreshTokens, TokensOf
  <2> QED BY <1>8, <2>1, <2>2, RevokingEnds
<1>9. ASSUME NEW h \in Handlers, RevokeAll(h)
      PROVE \E E \in SUBSET Tokens : Life!End(E)
  <2>1. SameRights
    BY <1>9, SameRightsRule DEF RevokeAll, Idle
  <2> QED BY <1>9, <2>1, <1>8 DEF RevokeAll
<1>10. ASSUME NEW h \in Handlers, Abort(h)
       PROVE Life!Drop(h)
  <2>1. /\ warrantMap' = [warrantMap EXCEPT ![h] = NoToken]
        /\ owesMap' = [owesMap EXCEPT ![h] = NoToken]
    BY <1>10 DEF Abort, warrantMap, owesMap, Become, Idle, TypeOK
  <2> QED BY <1>1, <1>10, <2>1 DEF Abort, Life!Drop
<1>11. ASSUME NEW h \in Handlers, NEW u \in Users, ChangePassword(h, u)
       PROVE Same
  <2>1. SameRights
    BY <1>11, SameRightsRule DEF ChangePassword, Idle
  <2> QED BY <1>1, <1>11, <2>1 DEF ChangePassword
<1>12. ASSUME NEW u \in Users, SoftDeleteUser(u)
       PROVE \E E \in SUBSET Tokens : Life!End(E)
  <2>1. SameRights
    BY <1>12 DEF SoftDeleteUser, SameRights, warrantMap, owesMap
  <2> QED BY <1>12, <2>1, <1>8 DEF SoftDeleteUser
<1>13. ASSUME NEW u \in Users, HardDeleteUser(u)
       PROVE Life!End(TokensOf(u)) /\ TokensOf(u) \in SUBSET Tokens
  <2>1. TokensOf(u) \subseteq Table /\ TokensOf(u) \in SUBSET Tokens
    BY DEF TokensOf, TypeOK
  <2>2. \A t \in TokensOf(u) : lifeMap[t] # "unborn"
    BY <2>1 DEF lifeMap, lifeOf, TypeOK
  <2>3. /\ Table' = Table \ TokensOf(u) /\ now' = now /\ parent' = parent
        /\ \A x \in Table' : refresh_tokens'[x] = refresh_tokens[x]
    BY <1>13 DEF HardDeleteUser, CascadeDelete, Table
  <2>4. ASSUME NEW t \in Tokens
        PROVE  lifeOf(t)' = IF t \in TokensOf(u) THEN "dead" ELSE lifeOf(t)
    BY <2>1, <2>3 DEF lifeOf, InGrace, Revoked, Rotated, Expired, TypeOK
  <2>5. lifeMap' = [t \in Tokens |-> IF t \in TokensOf(u) THEN "dead" ELSE lifeMap[t]]
    BY <2>4 DEF lifeMap
  <2>6. warrantMap' = warrantMap /\ owesMap' = owesMap
    BY <1>13 DEF HardDeleteUser, warrantMap, owesMap
  <2> QED BY <2>1, <2>2, <2>3, <2>5, <2>6 DEF Life!End
<1>14. ASSUME Tick PROVE Life!LifeNext
  <2> DEFINE P == {t \in Tokens : lifeOf(t)' # lifeOf(t)}
  <2>1. UNCHANGED <<refresh_tokens, req, parent>> /\ now' = now + 1
    BY <1>14 DEF Tick
  <2>2. ASSUME NEW t \in Tokens
        PROVE  \/ lifeOf(t)' = lifeOf(t)
               \/ lifeOf(t) = "live" /\ lifeOf(t)' = "lapsed"
               \/ lifeOf(t) = "rotated" /\ lifeOf(t)' = "dead"
    <3>1. CASE t \notin Table
      BY <2>1, <3>1 DEF lifeOf, Table
    <3>2. CASE t \in Table
      <4>1. refresh_tokens[t] \in Row /\ t \in DOMAIN parent
        BY <3>2 DEF TypeOK
      <4> QED BY <2>1, <3>2, <4>1, SessionsAssumption
              DEF lifeOf, InGrace, Revoked, Rotated, Expired, Table, Row, TypeOK
    <3> QED BY <3>1, <3>2
  <2>3. lifeMap' = [t \in Tokens |->
                      CASE t \in P /\ lifeMap[t] = "live" -> "lapsed"
                        [] t \in P /\ lifeMap[t] = "rotated" -> "dead"
                        [] OTHER -> lifeMap[t]]
    BY <2>2 DEF lifeMap
  <2>4. warrantMap' = warrantMap /\ owesMap' = owesMap
    BY <2>1 DEF warrantMap, owesMap
  <2>5. Life!Pass(P) /\ P \in SUBSET Tokens
    BY <2>1, <2>3, <2>4 DEF Life!Pass
  <2> QED BY <2>5 DEF Life!LifeNext
<1>15. ASSUME UNCHANGED <<now, refresh_tokens, parent, req>> PROVE Same
  BY <1>15, <1>1 DEF SameRights, warrantMap, owesMap
<1> DEFINE Maps == Life!LifeNext \/ Same
<1>16. ASSUME NEW E \in SUBSET Tokens, Life!End(E) PROVE Maps
  BY <1>16 DEF Life!LifeNext
<1>17. ASSUME NEW h \in Handlers, NEW t \in Table, Refresh(h, t) PROVE Maps
  <2>1. t \in Tokens
    BY DEF TypeOK
  <2> QED BY <2>1, <1>3, <1>17 DEF Life!LifeNext
<1>18. ASSUME NEW h \in Handlers, issueTokens(h) PROVE Maps
  BY <1>5, <1>18 DEF Life!LifeNext
<1>19. ASSUME NEW h \in Handlers, MarkRotated(h) PROVE Maps
  BY <1>6, <1>19 DEF Life!LifeNext
<1>20. ASSUME NEW h \in Handlers, Abort(h) PROVE Maps
  BY <1>10, <1>20 DEF Life!LifeNext
<1>21. Same => Maps
  OBVIOUS
<1>22. ASSUME Tick PROVE Maps
  BY <1>14, <1>22
<1> HIDE DEF Same, Maps
<1>23. ASSUME NEW h \in Handlers, RevokeOne(h) \/ RevokeAll(h) PROVE Maps
  BY <1>7, <1>9, <1>16, <1>23
<1>24. ASSUME NEW u \in Users, SoftDeleteUser(u) \/ HardDeleteUser(u) PROVE Maps
  BY <1>12, <1>13, <1>16, <1>24
<1>25. ASSUME UNCHANGED vars \/ \E u \in Users : RestoreUser(u) PROVE Maps
  BY <1>15, <1>21, <1>25 DEF vars, RestoreUser
<1>26. ASSUME NEW h \in Handlers, NEW u \in Users,
              ChangePassword(h, u) \/ \E b \in Bindings : Login(h, u, b) \/ SwitchTenant(h, u, b)
       PROVE Maps
  BY <1>2, <1>11, <1>21, <1>26
<1>27. ASSUME NEW h \in Handlers, NEW t \in Table, Logout(h, t) PROVE Maps
  BY <1>4, <1>21, <1>27
<1>28. ASSUME Next PROVE Maps
  BY <1>17, <1>18, <1>19, <1>20, <1>22, <1>23, <1>24, <1>25, <1>26, <1>27, <1>28 DEF Next
<1>29. ASSUME UNCHANGED vars PROVE Maps
  BY <1>25, <1>29
<1> QED BY <1>28, <1>29 DEF Maps, Same

(* Rotation as implemented, with its separate insert and update, its clock *)
(* and its lost requests, is a TokenLife.                                  *)
THEOREM SessionsImplementTokenLife == Spec => ImplementsTokenLife
BY InitMaps, StepMaps, LedgerKept, TypeCorrect, PTL DEF Spec, ImplementsTokenLife, Life!LifeSpec
=============================================================================
