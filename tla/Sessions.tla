------------------------------ MODULE Sessions ------------------------------
(***************************************************************************)
(* Refresh-token sessions: the refresh_tokens table and every handler that *)
(* reads or writes it (Login, Refresh, Logout, ChangePassword,             *)
(* ResetPassword, DeleteUser, RestoreUser).                                *)
(*                                                                         *)
(* Each gRPC request runs in a goroutine of some replica and talks to the  *)
(* database in autocommitted statements, so a request is a sequence of     *)
(* atomic steps between which every other request may run, the clock may   *)
(* advance and the request itself may be lost (crash, cancelled context,   *)
(* database error).  DeleteUser is one transaction, hence one action.      *)
(*                                                                         *)
(* Login stands for the handlers that open a session for a user they found *)
(* active (Login, LoginTotp), SwitchTenant for those that do not look at   *)
(* deleted_at (SwitchTenant, ExchangeAuthorizationCode): what they check   *)
(* before issueTokens differs, what they do to this table does not.        *)
(***************************************************************************)
EXTENDS Naturals

CONSTANTS
  Users,       \* identities (rows of users)
  Bindings,    \* (tenant, project) pairs a token can be bound to
  Tokens,      \* refresh tokens that can ever be generated; bounds the model
  Handlers,    \* concurrently running requests, over all replicas
  NoToken,     \* SQL NULL in replaced_by; also "no presented token"
  Grace,       \* refreshRotationGrace
  RefreshTTL,  \* lifetime of a refresh token
  MaxTime      \* bound on the clock

ASSUME SessionsAssumption ==
  /\ NoToken \notin Tokens
  /\ Grace \in Nat \ {0}
  /\ RefreshTTL \in Nat \ {0}
  /\ MaxTime \in Nat \ {0}

VARIABLES
  now,             \* wall clock (database and replicas agree)
  users,           \* users[u]: "active", "deleted" (deleted_at set), "gone" (no row)
  refresh_tokens,  \* the table: a function on the tokens that have a row
  req,             \* req[h]: what the request running in h will do next
  (* History, read by the properties and by no guard. *)
  parent,          \* on every token ever minted: the token presented for it
  rotatedAt,       \* when Refresh replaced a token by a successor
  sealed           \* tokens that were revoked while their user was quiescent

vars == <<now, users, refresh_tokens, req, parent, rotatedAt, sealed>>

Never == 0      \* SQL NULL in revoked_at; the clock starts at 1

Row == [user : Users, bind : Bindings, expiresAt : Nat, revokedAt : Nat,
        replacedBy : Tokens \cup {NoToken}]

Idle == [pc |-> "idle"]

(* What a running request does next: insert the new token, mark the        *)
(* presented one rotated, revoke one token, or all tokens of the user.     *)
Minting ==
  {r \in [pc : {"mint"}, user : Users, bind : Bindings,
          from : Tokens \cup {NoToken}, rotate : BOOLEAN] : r.rotate => r.from \in Tokens}
Rotating == [pc : {"rotate"}, from : Tokens, succ : Tokens]
Leaving == [pc : {"logout"}, from : Tokens]
Revoking == [pc : {"revokeAll"}, user : Users, why : {"reuse", "password"},
             from : Tokens \cup {NoToken}]
Request == {Idle} \cup Minting \cup Rotating \cup Leaving \cup Revoking

Table == DOMAIN refresh_tokens

TypeOK ==
  /\ now \in Nat \ {0}
  /\ users \in [Users -> {"active", "deleted", "gone"}]
  /\ refresh_tokens \in [Table -> Row]
  /\ req \in [Handlers -> Request]
  /\ parent \in [DOMAIN parent -> Tokens \cup {NoToken}]
  /\ Table \subseteq DOMAIN parent
  /\ DOMAIN parent \subseteq Tokens
  /\ rotatedAt \in [Tokens -> Nat]
  /\ sealed \subseteq DOMAIN parent

-----------------------------------------------------------------------------
(* Reading a row. *)

Revoked(r) == r.revokedAt # Never

Rotated(r) == r.replacedBy # NoToken

Expired(r) == r.expiresAt < now

(* Faulty variant, for SealedStayDead: the window covers any revocation. *)
FaultyGrace(r) == Revoked(r) /\ now < r.revokedAt + Grace

(* Revoked by rotation less than the grace window ago. *)
InGrace(r) == Revoked(r) /\ Rotated(r) /\ now < r.revokedAt + Grace

(* A Refresh that presents this row now is given a new token pair. *)
Refreshable(r) == (~Revoked(r) /\ ~Expired(r)) \/ InGrace(r)

TokensOf(u) == {t \in Table : refresh_tokens[t].user = u}

-----------------------------------------------------------------------------
(* Faulty variants of the definitions that follow, one per property below: *)
(* each is a slip the code could have made, and breaks its property.       *)

(* TypeOK: the insert forgets the tenant and project columns. *)
FaultyCreate(t, u, b) ==
  [x \in Table \cup {t} |->
     IF x = t THEN [user |-> u, expiresAt |-> now + RefreshTTL, revokedAt |-> Never,
                    replacedBy |-> NoToken]
              ELSE refresh_tokens[x]]

(* NoFalseTheft: the successor is not recorded. *)
FaultyRevokeOnly(t, succ) ==
  [x \in Table |-> IF x = t /\ ~Revoked(refresh_tokens[x])
                     THEN [refresh_tokens[x] EXCEPT !.revokedAt = now]
                     ELSE refresh_tokens[x]]

(* ImplementsTokenLife: the update lacks "revoked_at IS NULL". *)
FaultyRotateAgain(t, succ) ==
  [x \in Table |-> IF x = t
                     THEN [refresh_tokens[x] EXCEPT !.revokedAt = now, !.replacedBy = succ]
                     ELSE refresh_tokens[x]]

(* RevokedForGood: the update lacks "revoked_at IS NULL". *)
FaultyRevokeAgain(u) ==
  [x \in Table |-> IF refresh_tokens[x].user = u
                     THEN [refresh_tokens[x] EXCEPT !.revokedAt = now]
                     ELSE refresh_tokens[x]]

(* NoOrphanSession: the foreign key does not cascade. *)
FaultyNoCascade(u) == refresh_tokens

(* RotationBound: refresh rebinds the session to any membership. *)
FaultyRebind(h, t) ==
  LET r == refresh_tokens[t] IN
  /\ ~Revoked(r) /\ r.expiresAt >= now
  /\ \E b \in Bindings :
       req' = [req EXCEPT ![h] = [pc |-> "mint", user |-> r.user, bind |-> b,
                                  from |-> t, rotate |-> TRUE]]

-----------------------------------------------------------------------------
(* The statements on refresh_tokens: the table after each of them. *)

CreateRefreshToken(t, u, b) ==
  [x \in Table \cup {t} |->
     IF x = t
       THEN [user |-> u, bind |-> b, expiresAt |-> now + RefreshTTL,
             revokedAt |-> Never, replacedBy |-> NoToken]
       ELSE refresh_tokens[x]]

RevokeRefreshToken(t) ==
  [x \in Table |->
     IF x = t /\ ~Revoked(refresh_tokens[x])
       THEN [refresh_tokens[x] EXCEPT !.revokedAt = now]
       ELSE refresh_tokens[x]]

RevokeAllUserRefreshTokens(u) ==
  [x \in Table |->
     IF refresh_tokens[x].user = u /\ ~Revoked(refresh_tokens[x])
       THEN [refresh_tokens[x] EXCEPT !.revokedAt = now]
       ELSE refresh_tokens[x]]

RotateRefreshToken(t, succ) ==
  [x \in Table |->
     IF x = t /\ ~Revoked(refresh_tokens[x])
       THEN [refresh_tokens[x] EXCEPT !.revokedAt = now, !.replacedBy = succ]
       ELSE refresh_tokens[x]]

(* ON DELETE CASCADE from users. *)
CascadeDelete(u) == [x \in Table \ TokensOf(u) |-> refresh_tokens[x]]

-----------------------------------------------------------------------------
(* User u is quiescent: no request is about to insert a token for u and no *)
(* rotated token of u is still in its grace window.                        *)
Quiescent(u) ==
  /\ \A h \in Handlers : req[h].pc = "mint" => req[h].user # u
  /\ \A t \in TokensOf(u) : ~InGrace(refresh_tokens[t])

(* History of a "revoke all" of user u. *)
Seal(u) == sealed' = IF Quiescent(u) THEN sealed \cup TokensOf(u) ELSE sealed

Become(h, r) == req' = [req EXCEPT ![h] = r]

Init ==
  /\ now = 1
  /\ users = [u \in Users |-> "active"]
  /\ refresh_tokens = [t \in {} |-> 0]
  /\ req = [h \in Handlers |-> Idle]
  /\ parent = [t \in {} |-> 0]
  /\ rotatedAt = [t \in Tokens |-> Never]
  /\ sealed = {}

-----------------------------------------------------------------------------
(* Handlers. *)

(* A session is about to be opened; which of the user's memberships binds  *)
(* it is the caller's business here.                                       *)
Open(h, u, b) ==
  /\ req[h] = Idle
  /\ Become(h, [pc |-> "mint", user |-> u, bind |-> b, from |-> NoToken, rotate |-> FALSE])
  /\ UNCHANGED <<now, users, refresh_tokens, parent, rotatedAt, sealed>>

(* The checks of Login passed on a row read as not deleted, *)
Login(h, u, b) == users[u] = "active" /\ Open(h, u, b)

(* those of SwitchTenant, or of the exchange of a code, on any row. *)
SwitchTenant(h, u, b) == users[u] # "gone" /\ Open(h, u, b)

(* Refresh reads the row of the presented token and decides.  Unknown and  *)
(* expired tokens are refused without any write.                           *)
RefreshLive(h, t) ==
  LET r == refresh_tokens[t] IN
  /\ ~Revoked(r) /\ ~Expired(r)
  /\ Become(h, [pc |-> "mint", user |-> r.user, bind |-> r.bind, from |-> t, rotate |-> TRUE])

RefreshInGrace(h, t) ==
  LET r == refresh_tokens[t] IN
  /\ InGrace(r)
  /\ Become(h, [pc |-> "mint", user |-> r.user, bind |-> r.bind, from |-> t, rotate |-> FALSE])

RefreshReused(h, t) ==
  LET r == refresh_tokens[t] IN
  /\ Revoked(r) /\ ~InGrace(r)
  /\ Become(h, [pc |-> "revokeAll", user |-> r.user, why |-> "reuse", from |-> t])

Refresh(h, t) ==
  /\ req[h] = Idle
  /\ RefreshLive(h, t) \/ RefreshInGrace(h, t) \/ RefreshReused(h, t)
  /\ UNCHANGED <<now, users, refresh_tokens, parent, rotatedAt, sealed>>

(* issueTokens inserts the fresh token.  The foreign key rejects the       *)
(* insert once the user row is gone (and GetUserByID does so earlier):     *)
(* the request then fails, see Abort.  deleted_at is not looked at.        *)
issueTokens(h) ==
  /\ req[h].pc = "mint"
  /\ users[req[h].user] # "gone"
  /\ \E t \in Tokens \ DOMAIN parent :
       /\ refresh_tokens' = CreateRefreshToken(t, req[h].user, req[h].bind)
       /\ parent' = [x \in DOMAIN parent \cup {t} |->
                       IF x = t THEN req[h].from ELSE parent[x]]
       /\ Become(h, IF req[h].rotate
                      THEN [pc |-> "rotate", from |-> req[h].from, succ |-> t]
                      ELSE Idle)
  /\ UNCHANGED <<now, users, rotatedAt, sealed>>

(* The last statement of Refresh; its error is ignored, see Abort. *)
MarkRotated(h) ==
  LET p == req[h].from IN
  /\ req[h].pc = "rotate"
  /\ refresh_tokens' = RotateRefreshToken(p, req[h].succ)
  /\ rotatedAt' = [rotatedAt EXCEPT ![p] =
                     IF p \in Table /\ ~Revoked(refresh_tokens[p]) THEN now ELSE @]
  /\ Become(h, Idle)
  /\ UNCHANGED <<now, users, parent, sealed>>

(* RevokeAllUserRefreshTokens as the last statement of a request: reuse    *)
(* detected by Refresh, or a new password.                                 *)
RevokeAll(h) ==
  LET u == req[h].user IN
  /\ req[h].pc = "revokeAll"
  /\ refresh_tokens' = RevokeAllUserRefreshTokens(u)
  /\ Seal(u)
  /\ Become(h, Idle)
  /\ UNCHANGED <<now, users, parent, rotatedAt>>

(* A request ends early: crash of the replica, cancelled context, failed   *)
(* statement.  The writes it made stay.                                    *)
Abort(h) ==
  /\ req[h] # Idle
  /\ Become(h, Idle)
  /\ UNCHANGED <<now, users, refresh_tokens, parent, rotatedAt, sealed>>

Logout(h, t) ==
  /\ req[h] = Idle
  /\ Become(h, [pc |-> "logout", from |-> t])
  /\ UNCHANGED <<now, users, refresh_tokens, parent, rotatedAt, sealed>>

(* One UPDATE, and success whether or not it found a live row. *)
RevokeOne(h) ==
  /\ req[h].pc = "logout"
  /\ refresh_tokens' = RevokeRefreshToken(req[h].from)
  /\ Become(h, Idle)
  /\ UNCHANGED <<now, users, parent, rotatedAt, sealed>>

(* ChangePassword and ResetPassword store the new hash, then revoke all. *)
ChangePassword(h, u) ==
  /\ req[h] = Idle
  /\ users[u] # "gone"
  /\ Become(h, [pc |-> "revokeAll", user |-> u, why |-> "password", from |-> NoToken])
  /\ UNCHANGED <<now, users, refresh_tokens, parent, rotatedAt, sealed>>

(* DeleteUser, soft: deleted_at and the revocation in one transaction. *)
SoftDeleteUser(u) ==
  /\ users[u] # "gone"
  /\ users' = [users EXCEPT ![u] = "deleted"]
  /\ refresh_tokens' = RevokeAllUserRefreshTokens(u)
  /\ Seal(u)
  /\ UNCHANGED <<now, req, parent, rotatedAt>>

HardDeleteUser(u) ==
  /\ users[u] # "gone"
  /\ users' = [users EXCEPT ![u] = "gone"]
  /\ refresh_tokens' = CascadeDelete(u)
  /\ UNCHANGED <<now, req, parent, rotatedAt, sealed>>

RestoreUser(u) ==
  /\ users[u] = "deleted"
  /\ users' = [users EXCEPT ![u] = "active"]
  /\ UNCHANGED <<now, refresh_tokens, req, parent, rotatedAt, sealed>>

Tick ==
  /\ now < MaxTime
  /\ now' = now + 1
  /\ UNCHANGED <<users, refresh_tokens, req, parent, rotatedAt, sealed>>

Next ==
  \/ \E h \in Handlers, u \in Users, b \in Bindings : Login(h, u, b) \/ SwitchTenant(h, u, b)
  \/ \E h \in Handlers, t \in Table : Refresh(h, t) \/ Logout(h, t)
  \/ \E h \in Handlers : issueTokens(h) \/ MarkRotated(h) \/ RevokeOne(h) \/ RevokeAll(h)
  \/ \E h \in Handlers : Abort(h)
  \/ \E h \in Handlers, u \in Users : ChangePassword(h, u)
  \/ \E u \in Users : SoftDeleteUser(u) \/ HardDeleteUser(u) \/ RestoreUser(u)
  \/ Tick

Spec == Init /\ [][Next]_vars

-----------------------------------------------------------------------------
(* Safety. *)

(* Refresh "points the presented token at its successor": whatever else    *)
(* ran between the insert of the successor and the update of the presented *)
(* token, a token marked rotated is revoked, its successor was minted for  *)
(* it, and the successor belongs to the same user and the same tenant and  *)
(* project.                                                                *)
RotationBound ==
  \A t \in Table :
    LET r == refresh_tokens[t]
        s == r.replacedBy
    IN Rotated(r) =>
         /\ Revoked(r)
         /\ s \in DOMAIN parent /\ parent[s] = t
         /\ s \in Table => /\ refresh_tokens[s].user = r.user
                           /\ refresh_tokens[s].bind = r.bind

(* Every statement that revokes says "revoked_at IS NULL": once revoked, a *)
(* row keeps its revocation time and its successor until it is removed, so *)
(* no later logout, rotation or theft response moves or reopens the grace  *)
(* window.                                                                 *)
RevokedIsFrozen ==
  \A t \in Table :
    Revoked(refresh_tokens[t]) /\ t \in Table' => refresh_tokens'[t] = refresh_tokens[t]
RevokedForGood == [][RevokedIsFrozen]_vars

(* Refresh tells a parallel refresh from theft: a request that is about to *)
(* wipe the user's sessions because of token p did not see p within the    *)
(* grace window that follows its rotation, and it never names a token that *)
(* could still be refreshed.                                               *)
NoFalseTheft ==
  \A h \in Handlers :
    (req[h].pc = "revokeAll" /\ req[h].why = "reuse") =>
       LET p == req[h].from IN
         /\ rotatedAt[p] = Never \/ rotatedAt[p] + Grace <= now
         /\ p \in Table => ~Refreshable(refresh_tokens[p])

(* RevokeAllUserRefreshTokens ends what it is meant to end: when no token  *)
(* of the user was in grace and no request was minting for the user, every *)
(* token the user had stays unusable for good, and no later refresh        *)
(* descends from one.                                                      *)
SealedStayDead ==
  /\ \A t \in sealed \cap Table : ~Refreshable(refresh_tokens[t])
  /\ \A h \in Handlers : req[h].pc = "mint" => req[h].from \notin sealed

(* A hard delete takes every session with it, including the ones that a    *)
(* login or a refresh already running was about to open.                   *)
NoOrphanSession == \A t \in Table : users[refresh_tokens[t].user] # "gone"

-----------------------------------------------------------------------------
(* What the comments in the code say and the code does not keep up. *)

(* ChangePassword: "All refresh tokens are revoked so other sessions must  *)
(* re-authenticate".                                                       *)
PasswordChangeEndsSessions ==
  [][\A h \in Handlers :
       RevokeAll(h) /\ req[h].why = "password" =>
         \A t \in TokensOf(req[h].user) : ~Refreshable(refresh_tokens'[t])]_vars

-----------------------------------------------------------------------------
(* Refinement: the table, the clock and the requests implement TokenLife.  *)

lifeOf(t) ==
  IF t \notin DOMAIN parent THEN "unborn"
  ELSE IF t \notin Table THEN "dead"
  ELSE LET r == refresh_tokens[t] IN
       IF Revoked(r) THEN (IF InGrace(r) THEN "rotated" ELSE "dead")
       ELSE (IF Expired(r) THEN "lapsed" ELSE "live")

lifeMap == [t \in Tokens |-> lifeOf(t)]
warrantMap == [h \in Handlers |-> IF req[h].pc = "mint" THEN req[h].from ELSE NoToken]
owesMap == [h \in Handlers |-> IF req[h].pc = "rotate" THEN req[h].from ELSE NoToken]

Life == INSTANCE TokenLife WITH life <- lifeMap, warrant <- warrantMap, owes <- owesMap

(* Rotation as implemented, with its separate insert and update, its clock *)
(* and its lost requests, is a TokenLife: tokens never come back to life,  *)
(* only live or graced ones are accepted, one acceptance mints one token.  *)
ImplementsTokenLife == Life!LifeSpec
=============================================================================
