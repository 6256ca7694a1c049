---------------------------- MODULE Credentials ----------------------------
(***************************************************************************)
(* The password of an account and what it opens: reset and verification    *)
(* tokens, ResetPassword, ChangePassword and VerifyEmail with their        *)
(* statements one after the other, and the logins and refreshes they are   *)
(* to cut off (auth.go).                                                   *)
(*                                                                         *)
(* Every stored password is a new generation of the user's password: its   *)
(* number stands for the hash.  Whatever one login leads to is known by    *)
(* that login: the refresh tokens, live ones and rotated ones within their *)
(* grace, and what a client turns into a refresh token without the         *)
(* password.  With an access token, or an API key made with one, its       *)
(* holder calls SwitchTenant, and CreateAuthorizationCode.  An MFA token   *)
(* and an authorization code are vouchers: presented once more, by         *)
(* LoginTotp and by ExchangeAuthorizationCode, they end in issueTokens for *)
(* their login and nowhere else, so the model does not tell them apart.    *)
(* RevokeAllUserRefreshTokens revokes the live refresh tokens and nothing  *)
(* else; Sessions has their rows and their clock.  Wrong passwords change  *)
(* only the counter that TwoFactor models.                                 *)
(***************************************************************************)
EXTENDS Naturals

CONSTANTS
  Users,
  Logins,     \* the logins that can happen; bounds the model
  Tickets,    \* reset and verification tokens that can be sent; bounds the model
  NoTicket,
  Handlers,   \* concurrently running requests, over all replicas
  MaxChanges  \* how often a password can be stored; bounds the model

ASSUME CredentialsAssumption == NoTicket \notin Tickets /\ MaxChanges \in Nat

VARIABLES
  users,     \* the users that have a row
  password,  \* password_hash: its generation
  verified,  \* email_verified
  tickets,   \* password_resets and email_verifications, on the tokens that were stored
  origin,    \* of a login that began: its user, and the password it proved
  (* The logins that have ... *)
  sessions,  \* a live refresh token
  graced,    \* a rotated refresh token within its grace
  access,    \* an access token that has not expired, or an API key
  vouchers,  \* an MFA token or an authorization code that has neither expired nor been used
  req,       \* req[h]: the request running in h
  (* History. *)
  honoured,  \* how often a ticket changed its user
  floor,     \* the last generation that ended with a revocation
  spared     \* the logins that had more than live refresh tokens at the user's last revocation

account == <<users, password, verified>>
tokens == <<sessions, graced, access, vouchers>>
history == <<honoured, floor, spared>>
vars == <<account, tickets, origin, tokens, req, history>>

Kind == {"reset", "verify"}
Begun == DOMAIN origin

Idle == [pc |-> "idle"]
Storing == [pc : {"store"}, user : Users, ticket : Tickets \cup {NoTicket}]
Marking == [pc : {"mark"}, user : Users, ticket : Tickets]
Revoking == [pc : {"revoke"}, user : Users, stored : Nat]
Opening == [pc : {"open"}, login : Logins, rotates : BOOLEAN]
Rotating == [pc : {"rotate"}, login : Logins]
Request == {Idle} \cup Storing \cup Marking \cup Revoking \cup Opening \cup Rotating

Sent == DOMAIN tickets

TypeOK ==
  /\ users \subseteq Users
  /\ password \in [Users -> Nat]
  /\ verified \subseteq users
  /\ Sent \subseteq Tickets
  /\ tickets \in [Sent -> [kind : Kind, user : Users, state : {"open", "consumed", "void"}]]
  /\ \A t \in Sent : tickets[t].state = "open" => tickets[t].user \in users
  /\ Begun \subseteq Logins /\ origin \in [Begun -> [user : Users, proved : Nat]]
  /\ sessions \subseteq Begun /\ graced \subseteq Begun
  /\ access \subseteq Begun /\ vouchers \subseteq Begun
  /\ req \in [Handlers -> Request]
  /\ \A h \in Handlers : req[h].pc \in {"open", "rotate"} => req[h].login \in Begun
  /\ honoured \in [Tickets -> Nat]
  /\ floor \in [Users -> Nat] /\ spared \subseteq Begun

-----------------------------------------------------------------------------
Become(h, r) == req' = [req EXCEPT ![h] = r]

Of(u, logins) == {l \in logins : origin[l].user = u}

(* The logins of u under way: what they hold, or have running, can still   *)
(* become a refresh token after the live ones are revoked.                 *)
Underway(u) ==
  Of(u, graced \cup access \cup vouchers
          \cup {req[h].login : h \in {g \in Handlers : req[g].pc \in {"open", "rotate"}}})

(* What the revocation of the generations before g leaves to u. *)
Revoked(u, g) ==
  /\ floor' = [floor EXCEPT ![u] = IF @ < g THEN g ELSE @]
  /\ spared' = (spared \ Of(u, Begun)) \cup {l \in Underway(u) : origin[l].proved < floor'[u]}

Init ==
  /\ users = Users
  /\ password = [u \in Users |-> 0]
  /\ verified = {}
  /\ tickets = [t \in {} |-> 0]
  /\ origin = [l \in {} |-> 0]
  /\ sessions = {} /\ graced = {} /\ access = {} /\ vouchers = {}
  /\ req = [h \in Handlers |-> Idle]
  /\ honoured = [t \in Tickets |-> 0]
  /\ floor = [u \in Users |-> 0] /\ spared = {}

-----------------------------------------------------------------------------
(* RequestPasswordReset and RequestEmailVerification, for an e-mail that   *)
(* exists.  The insert needs the row that GetUserByEmail read: with the    *)
(* user gone in between it fails, so the two are one step.                 *)
RequestTicket(t, u, kind) ==
  /\ u \in users
  /\ t \notin Sent
  /\ tickets' = [x \in Sent \cup {t} |->
                   IF x = t THEN [kind |-> kind, user |-> u, state |-> "open"] ELSE tickets[x]]
  /\ UNCHANGED <<account, origin, tokens, req, history>>

(* Faulty variant, for ImplementsTicket: consumed_at is set whatever it    *)
(* was before.                                                             *)
FaultyConsume(h, t, kind, next) ==
  /\ req[h] = Idle
  /\ t \in Sent /\ tickets[t].kind = kind /\ tickets[t].state # "void"
  /\ tickets' = [tickets EXCEPT ![t].state = "consumed"]
  /\ Become(h, [pc |-> next, user |-> tickets[t].user, ticket |-> t])
  /\ UNCHANGED <<account, origin, tokens, history>>

(* ConsumePasswordReset and ConsumeEmailVerification: one UPDATE of an     *)
(* unconsumed, unexpired row, which returns its user.                      *)
Consume(h, t, kind, next) ==
  /\ req[h] = Idle
  /\ t \in Sent /\ tickets[t].kind = kind /\ tickets[t].state = "open"
  /\ tickets' = [tickets EXCEPT ![t].state = "consumed"]
  /\ Become(h, [pc |-> next, user |-> tickets[t].user, ticket |-> t])
  /\ UNCHANGED <<account, origin, tokens, history>>

ResetPassword(h, t) == Consume(h, t, "reset", "store")

VerifyEmail(h, t) == Consume(h, t, "verify", "mark")

(* ChangePassword by a caller of login l: GetUserByID, and the old         *)
(* password is the one in force.                                           *)
ChangePassword(h, l) ==
  /\ req[h] = Idle
  /\ l \in access /\ origin[l].user \in users
  /\ Become(h, [pc |-> "store", user |-> origin[l].user, ticket |-> NoTicket])
  /\ UNCHANGED <<account, tickets, origin, tokens, history>>

(* One more effect of the ticket, if there is a ticket and a row. *)
Effect(u, t) ==
  honoured' = IF u \in users /\ t \in Tickets THEN [honoured EXCEPT ![t] = @ + 1] ELSE honoured

(* MarkEmailVerified; no row, no error. *)
MarkEmailVerified(h) ==
  /\ req[h].pc = "mark"
  /\ verified' = verified \cup ({req[h].user} \cap users)
  /\ Effect(req[h].user, req[h].ticket)
  /\ Become(h, Idle)
  /\ UNCHANGED <<users, password, tickets, origin, tokens, floor, spared>>

(* UpdatePassword, whatever was stored since the old password was read; no *)
(* row, no error.                                                          *)
UpdatePassword(h) ==
  /\ req[h].pc = "store"
  /\ LET u == req[h].user IN
       /\ password[u] < MaxChanges
       /\ password' = IF u \in users THEN [password EXCEPT ![u] = @ + 1] ELSE password
       /\ Effect(u, req[h].ticket)
       /\ Become(h, [pc |-> "revoke", user |-> u, stored |-> password'[u]])
  /\ UNCHANGED <<users, verified, tickets, origin, tokens, floor, spared>>

(* Faulty variant, for OldPasswordShutOut: the caller's session is spared. *)
FaultyRevokeAll(h) ==
  /\ req[h].pc = "revoke"
  /\ LET u == req[h].user IN
       /\ \E own \in Of(u, sessions) : sessions' = (sessions \ Of(u, sessions)) \cup {own}
       /\ Revoked(u, req[h].stored)
  /\ Become(h, Idle)
  /\ UNCHANGED <<account, tickets, origin, graced, access, vouchers, honoured>>

(* RevokeAllUserRefreshTokens; that it may fail is in Abort. *)
RevokeAll(h) ==
  /\ req[h].pc = "revoke"
  /\ LET u == req[h].user IN
       /\ sessions' = sessions \ Of(u, sessions)
       /\ Revoked(u, req[h].stored)
  /\ Become(h, Idle)
  /\ UNCHANGED <<account, tickets, origin, graced, access, vouchers, honoured>>

-----------------------------------------------------------------------------
(* Login with the password in force: on to issueTokens, or with a second   *)
(* factor an MFA token.                                                    *)
Login(h, u, l) ==
  /\ req[h] = Idle
  /\ u \in users
  /\ l \notin Begun
  /\ origin' = [x \in Begun \cup {l} |->
                  IF x = l THEN [user |-> u, proved |-> password[u]] ELSE origin[x]]
  /\ \/ Become(h, [pc |-> "open", login |-> l, rotates |-> FALSE]) /\ UNCHANGED vouchers
     \/ vouchers' = vouchers \cup {l} /\ UNCHANGED req
  /\ UNCHANGED <<account, tickets, sessions, graced, access, history>>

(* On to issueTokens, for a user that still has a row. *)
Open(h, l, rotates) ==
  /\ req[h] = Idle
  /\ origin[l].user \in users
  /\ Become(h, [pc |-> "open", login |-> l, rotates |-> rotates])

(* LoginTotp with an MFA token and a right code; the password is not looked at again. *)
LoginTotp(h, l) ==
  /\ l \in vouchers
  /\ Open(h, l, FALSE)
  /\ UNCHANGED <<account, tickets, origin, tokens, history>>

(* Refresh of a live token, which it will rotate, or of one in its grace. *)
Refresh(h, l) ==
  /\ \/ l \in sessions /\ Open(h, l, TRUE)
     \/ l \in graced /\ Open(h, l, FALSE)
  /\ UNCHANGED <<account, tickets, origin, tokens, history>>

(* SwitchTenant, to a tenant the caller is a member of; the refresh token  *)
(* is not asked for.                                                       *)
SwitchTenant(h, l) ==
  /\ l \in access
  /\ Open(h, l, FALSE)
  /\ UNCHANGED <<account, tickets, origin, tokens, history>>

(* CreateAuthorizationCode for the caller, a member of the client's tenant *)
(* and so with a row; OidcCodes has its statements and the exchange's.     *)
CreateAuthorizationCode(l) ==
  /\ l \in access /\ origin[l].user \in users
  /\ vouchers' = vouchers \cup {l}
  /\ UNCHANGED <<account, tickets, origin, sessions, graced, access, req, history>>

(* ExchangeAuthorizationCode, which uses the code up; it may have been the *)
(* last voucher of its login.                                              *)
ExchangeAuthorizationCode(h, l) ==
  /\ l \in vouchers
  /\ Open(h, l, FALSE)
  /\ vouchers' \in {vouchers, vouchers \ {l}}
  /\ UNCHANGED <<account, tickets, origin, sessions, graced, access, history>>

(* issueTokens stores the refresh token, if its user still has a row, and  *)
(* answers with it and an access token.                                    *)
IssueTokens(h) ==
  /\ req[h].pc = "open"
  /\ LET l == req[h].login IN
       /\ origin[l].user \in users
       /\ sessions' = sessions \cup {l} /\ access' = access \cup {l}
       /\ Become(h, IF req[h].rotates THEN [pc |-> "rotate", login |-> l] ELSE Idle)
  /\ UNCHANGED <<account, tickets, origin, graced, vouchers, history>>

(* RotateRefreshToken: the presented token begins its grace; others of the *)
(* same login may be live.                                                 *)
MarkRotated(h) ==
  /\ req[h].pc = "rotate"
  /\ graced' = graced \cup ({req[h].login} \cap sessions)
  /\ Become(h, Idle)
  /\ UNCHANGED <<account, tickets, origin, sessions, access, vouchers, history>>

-----------------------------------------------------------------------------
(* A statement fails, the context is cancelled or the process stops. *)
Abort(h) ==
  /\ req[h] # Idle
  /\ Become(h, Idle)
  /\ UNCHANGED <<account, tickets, origin, tokens, history>>

(* The last live refresh token of a login is logged out, or expires; its   *)
(* last grace ends; its last access token expires (and the last API key    *)
(* made with one is revoked); its last voucher expires.                    *)
TokenEnds(l) ==
  /\ \/ l \in sessions /\ sessions' = sessions \ {l} /\ UNCHANGED <<graced, access, vouchers>>
     \/ l \in graced /\ graced' = graced \ {l} /\ UNCHANGED <<sessions, access, vouchers>>
     \/ l \in access /\ access' = access \ {l} /\ UNCHANGED <<sessions, graced, vouchers>>
     \/ l \in vouchers /\ vouchers' = vouchers \ {l} /\ UNCHANGED <<sessions, graced, access>>
  /\ UNCHANGED <<account, tickets, origin, req, history>>

(* A reset or verification token expires. *)
TicketExpires(t) ==
  /\ t \in Sent /\ tickets[t].state = "open"
  /\ tickets' = [tickets EXCEPT ![t].state = "void"]
  /\ UNCHANGED <<account, origin, tokens, req, history>>

(* Faulty variant, for TypeOK: email_verifications and password_resets     *)
(* without ON DELETE CASCADE.                                              *)
FaultyHardDeleteUser(u) ==
  /\ u \in users
  /\ users' = users \ {u}
  /\ verified' = verified \ {u}
  /\ sessions' = sessions \ Of(u, sessions)
  /\ graced' = graced \ Of(u, graced)
  /\ UNCHANGED <<password, tickets, origin, access, vouchers, req, history>>

(* A hard delete; the foreign keys take tickets and refresh tokens along.  *)
HardDeleteUser(u) ==
  /\ u \in users
  /\ users' = users \ {u}
  /\ verified' = verified \ {u}
  /\ tickets' = [t \in Sent |-> IF tickets[t].user = u THEN [tickets[t] EXCEPT !.state = "void"]
                                                       ELSE tickets[t]]
  /\ sessions' = sessions \ Of(u, sessions)
  /\ graced' = graced \ Of(u, graced)
  /\ UNCHANGED <<password, origin, access, vouchers, req, history>>

Next ==
  \/ \E h \in Handlers, u \in Users, l \in Logins : Login(h, u, l)
  \/ \E h \in Handlers, t \in Tickets : ResetPassword(h, t) \/ VerifyEmail(h, t)
  \/ \E h \in Handlers :
       \/ MarkEmailVerified(h) \/ UpdatePassword(h) \/ RevokeAll(h)
       \/ IssueTokens(h) \/ MarkRotated(h) \/ Abort(h)
  \/ \E h \in Handlers, l \in Begun :
       \/ ChangePassword(h, l)
       \/ LoginTotp(h, l) \/ Refresh(h, l) \/ SwitchTenant(h, l) \/ ExchangeAuthorizationCode(h, l)
  \/ \E l \in Begun : CreateAuthorizationCode(l) \/ TokenEnds(l)
  \/ \E t \in Tickets :
       \/ \E u \in Users, kind \in Kind : RequestTicket(t, u, kind)
       \/ TicketExpires(t)
  \/ \E u \in Users : HardDeleteUser(u)

Spec == Init /\ [][Next]_vars

-----------------------------------------------------------------------------
(* ResetPassword and ChangePassword "force re-login everywhere"            *)
(* (auth.go:798): after their revocation no login with an older password   *)
(* has a refresh token, now or ever again, but those that had something    *)
(* else left when it ran.  A login that had only live refresh tokens is    *)
(* over; the caller's own, whose access token the revocation does not      *)
(* touch, is not.                                                          *)
OldPasswordShutOut ==
  \A l \in sessions \cup graced : origin[l].proved < floor[origin[l].user] => l \in spared

(* Reset and verification tokens are single-use tickets: one request takes *)
(* a token, and changes the password, or the e-mail's standing, once for   *)
(* it or never.                                                            *)
Stage(t) ==
  IF t \notin Sent THEN "unborn" ELSE IF tickets[t].state = "open" THEN "open" ELSE "spent"

Claimed(h) == IF req[h].pc \in {"store", "mark"} THEN {req[h].ticket} \cap Tickets ELSE {}

stageMap == [t \in Tickets |-> Stage(t)]
claimMap == [h \in Handlers |-> Claimed(h)]

T == INSTANCE Ticket WITH stage <- stageMap, claim <- claimMap

ImplementsTicket == T!TicketSpec
=============================================================================
