----------------------------- MODULE OidcCodes -----------------------------
(***************************************************************************)
(* The OIDC authorization-code flow: registering a client, creating a code *)
(* for a user of the client's organization, exchanging the code for tokens *)
(* (oidc_flow.go).                                                         *)
(*                                                                         *)
(* Creation and exchange are sequences of statements.  The exchange claims *)
(* the code before it has checked the verifier, the client's secret and    *)
(* the membership, so a refused exchange uses the code up.  Time counts in *)
(* units of which a code lives CodeTTL.  Redirect URIs, verifiers and      *)
(* secrets are right or wrong: what a caller knows is part of its request. *)
(* Memberships are added and removed, and users deleted, restored and      *)
(* removed for good, by the handlers of other components.  A code does not *)
(* refer to its user by a foreign key and survives him; a refresh token    *)
(* does not.  No statement of the flow looks at deleted_at.                *)
(***************************************************************************)
EXTENDS Naturals, FiniteSets

CONSTANTS
  Users, Tenants,
  Default,    \* the tenant of the seed, in which the console client is bootstrapped
  Clients,    \* client ids that can be registered
  Console,    \* OIDC_CONSOLE_CLIENT_ID
  Codes,      \* the codes that can be created; bounds the model
  Handlers,   \* concurrently running requests, over all replicas
  CodeTTL,    \* lifetime of a code (5 minutes)
  MaxTime     \* bound on the clock

ASSUME OidcCodesAssumption ==
  /\ Default \in Tenants /\ Console \in Clients
  /\ CodeTTL \in Nat /\ MaxTime \in Nat

VARIABLES
  now,          \* wall clock
  clients,      \* oauth_clients: on the registered ones, tenant and kind
  codes,        \* oauth_authorization_codes: on the codes that were created
  memberships,  \* <<user, tenant>>: active memberships
  users,        \* users[u]: active, deleted (deleted_at is set), or gone for good
  req,          \* req[h]: the request running in h
  minted        \* how many refresh tokens were stored for a code

stores == <<clients, codes, minted>>
standing == <<memberships, users>>
vars == <<now, stores, standing, req>>

Client == [tenant : Tenants, confidential : BOOLEAN]
Code == [client : Clients, user : Users, pkce : BOOLEAN, expires : Nat, used : BOOLEAN]

(* What a caller can be right about. *)
Proof == {"redirect", "verifier", "secret"}

(* Reasons to refuse.  Those of the first line are settled when the        *)
(* request begins; those of the second can be lifted while it runs.        *)
Reason == {"used", "expired", "client", "redirect", "verifier", "secret", "pkce", "gone"}
            \cup {"nonmember", "inactive"}

Idle == [pc |-> "idle"]
Creating == [pc : {"member?", "insert"}, client : Clients, user : Users, barred : SUBSET Reason]
Exchanging == [pc : {"claim", "authenticate", "user?", "belongs?", "issue"}, code : Codes,
               knows : SUBSET Proof, barred : SUBSET Reason]
Request == {Idle} \cup Creating \cup Exchanging

Registered == DOMAIN clients
Created == DOMAIN codes
Present == {u \in Users : users[u] # "gone"}

TypeOK ==
  /\ now \in Nat
  /\ Registered \subseteq Clients /\ clients \in [Registered -> Client]
  /\ Created \subseteq Codes /\ codes \in [Created -> Code]
  /\ users \in [Users -> {"active", "deleted", "gone"}]
  /\ memberships \subseteq Present \X Tenants
  /\ req \in [Handlers -> Request]
  /\ \A h \in Handlers :
       /\ req[h] \in Creating => req[h].client \in Registered
       /\ req[h] \in Exchanging => req[h].code \in Created
  /\ \A c \in Created : codes[c].client \in Registered
  /\ minted \in [Codes -> Nat]

-----------------------------------------------------------------------------
Become(h, r) == req' = [req EXCEPT ![h] = r]
Advance(h, pc) == Become(h, [req[h] EXCEPT !.pc = pc])

IsActiveMember(u, t) == <<u, t>> \in memberships

(* (expires_at < now()), as the row is read. *)
Expired(c) == codes[c].expires < now

(* verifyPKCE; a challenge of an unknown method fits no verifier.          *)
VerifyPKCE(c, knows) == codes[c].pkce => "verifier" \in knows

(* Client authentication: the secret, or for a public client PKCE.         *)
Authentic(c, knows) ==
  IF clients[codes[c].client].confidential THEN "secret" \in knows ELSE codes[c].pkce

(* What an exchange of code c is asked for; the caller may know more. *)
Asked(c) ==
  {"redirect"} \cup (IF codes[c].pkce THEN {"verifier"} ELSE {})
               \cup (IF clients[codes[c].client].confidential THEN {"secret"} ELSE {})

(* What ought to keep user u from a code for client i, right now.          *)
BarsToCode(i, u) ==
  {r \in Reason : \/ r = "nonmember" /\ ~IsActiveMember(u, clients[i].tenant)
                  \/ r = "inactive" /\ users[u] # "active"}

(* What ought to keep client i, knowing knows, from the tokens of code c.  *)
BarsToTokens(c, i, knows) ==
  {r \in Reason :
     \/ r = "used" /\ codes[c].used
     \/ r = "expired" /\ Expired(c)
     \/ r = "client" /\ codes[c].client # i
     \/ r = "redirect" /\ "redirect" \notin knows
     \/ r = "verifier" /\ codes[c].pkce /\ "verifier" \notin knows
     \/ r = "secret" /\ clients[codes[c].client].confidential /\ "secret" \notin knows
     \/ r = "pkce" /\ ~clients[codes[c].client].confidential /\ ~codes[c].pkce
     \/ r = "gone" /\ codes[c].user \notin Present
     \/ r = "nonmember" /\ ~IsActiveMember(codes[c].user, clients[codes[c].client].tenant)
     \/ r = "inactive" /\ users[codes[c].user] # "active"}

(* The console's row (ON CONFLICT DO NOTHING: from this boot or an earlier *)
(* one).  A process that cannot insert it exits before it serves requests. *)
BootstrapOIDCClient == [i \in {Console} |-> [tenant |-> Default, confidential |-> TRUE]]

Init ==
  /\ now = 0
  /\ clients = BootstrapOIDCClient
  /\ codes = [c \in {} |-> 0]
  /\ memberships = {}
  /\ users = [u \in Users |-> "active"]
  /\ req = [h \in Handlers |-> Idle]
  /\ minted = [c \in Codes |-> 0]

-----------------------------------------------------------------------------
(* RegisterClient, in the caller's active tenant, under a fresh id. *)
RegisterClient(i, t, confidential) ==
  /\ i \notin Registered
  /\ clients' = [j \in Registered \cup {i} |->
                   IF j = i THEN [tenant |-> t, confidential |-> confidential] ELSE clients[j]]
  /\ UNCHANGED <<now, codes, minted, standing, req>>

(* CreateAuthorizationCode looks up the client's tenant, which never       *)
(* changes once it is registered.                                          *)
CreateAuthorizationCode(h, i, u) ==
  /\ req[h] = Idle
  /\ i \in Registered
  /\ Become(h, [pc |-> "member?", client |-> i, user |-> u, barred |-> BarsToCode(i, u)])
  /\ UNCHANGED <<now, stores, standing>>

(* Its membership check. *)
GateIssuance(h) ==
  /\ req[h].pc = "member?"
  /\ IF IsActiveMember(req[h].user, clients[req[h].client].tenant)
       THEN Advance(h, "insert")
       ELSE Become(h, Idle)
  /\ UNCHANGED <<now, stores, standing>>

InsertCode(h, c, pkce) ==
  /\ req[h].pc = "insert"
  /\ c \notin Created
  /\ codes' = [x \in Created \cup {c} |->
                 IF x = c THEN [client |-> req[h].client, user |-> req[h].user, pkce |-> pkce,
                                expires |-> now + CodeTTL, used |-> FALSE]
                          ELSE codes[x]]
  /\ Become(h, Idle)
  /\ UNCHANGED <<now, clients, minted, standing>>

-----------------------------------------------------------------------------
(* ExchangeAuthorizationCode reads the row of the code and compares what   *)
(* it can: use, expiry, client and redirect URI.                           *)
ExchangeAuthorizationCode(h, c, i, knows) ==
  /\ req[h] = Idle
  /\ c \in Created
  /\ ~codes[c].used /\ ~Expired(c)
  /\ codes[c].client = i /\ "redirect" \in knows
  /\ Become(h, [pc |-> "claim", code |-> c, knows |-> knows, barred |-> BarsToTokens(c, i, knows)])
  /\ UNCHANGED <<now, stores, standing>>

(* Faulty variant, for ImplementsTicket: the UPDATE lacks AND used =       *)
(* false, the check above is all there is.                                 *)
FaultyClaimCode(h) ==
  /\ req[h].pc = "claim"
  /\ codes' = [codes EXCEPT ![req[h].code].used = TRUE]
  /\ Advance(h, "authenticate")
  /\ UNCHANGED <<now, clients, minted, standing>>

(* The claim: UPDATE ... SET used = true ... AND used = false.  One row or *)
(* the exchange is over.                                                   *)
ClaimCode(h) ==
  /\ req[h].pc = "claim"
  /\ IF codes[req[h].code].used
       THEN Become(h, Idle) /\ UNCHANGED codes
       ELSE /\ codes' = [codes EXCEPT ![req[h].code].used = TRUE]
            /\ Advance(h, "authenticate")
  /\ UNCHANGED <<now, clients, minted, standing>>

(* PKCE, then the client row and its secret. *)
Authenticate(h) ==
  /\ req[h].pc = "authenticate"
  /\ IF VerifyPKCE(req[h].code, req[h].knows) /\ Authentic(req[h].code, req[h].knows)
       THEN Advance(h, "user?")
       ELSE Become(h, Idle)
  /\ UNCHANGED <<now, stores, standing>>

(* The e-mail of the user; deleted_at is not looked at. *)
LookUpUser(h) ==
  /\ req[h].pc = "user?"
  /\ IF codes[req[h].code].user \in Present THEN Advance(h, "belongs?") ELSE Become(h, Idle)
  /\ UNCHANGED <<now, stores, standing>>

(* Faulty variant, for NothingOnceBarred: the membership that counts is    *)
(* the one in the default tenant.                                          *)
FaultyCheckMember(h) ==
  /\ req[h].pc = "belongs?"
  /\ IF IsActiveMember(codes[req[h].code].user, Default)
       THEN Advance(h, "issue")
       ELSE Become(h, Idle)
  /\ UNCHANGED <<now, stores, standing>>

(* The tenant of the client, and the user's membership in it. *)
CheckMember(h) ==
  /\ req[h].pc = "belongs?"
  /\ LET c == codes[req[h].code] IN
       IF IsActiveMember(c.user, clients[c.client].tenant)
         THEN Advance(h, "issue")
         ELSE Become(h, Idle)
  /\ UNCHANGED <<now, stores, standing>>

(* issueTokens stores the refresh token, if its user still has a row; the  *)
(* id_token is signed afterwards.                                          *)
IssueTokens(h) ==
  /\ req[h].pc = "issue"
  /\ codes[req[h].code].user \in Present
  /\ minted' = [minted EXCEPT ![req[h].code] = @ + 1]
  /\ Become(h, Idle)
  /\ UNCHANGED <<now, clients, codes, standing>>

(* A statement fails, the context is cancelled or the process stops. *)
Abort(h) ==
  /\ req[h] # Idle
  /\ Become(h, Idle)
  /\ UNCHANGED <<now, stores, standing>>

-----------------------------------------------------------------------------
(* The environment: memberships change, users come and go, time passes.    *)

(* A reason no longer keeps the requests of H from what they ask for. *)
Lift(reason, H) ==
  req' = [h \in Handlers |->
            IF h \in H THEN [req[h] EXCEPT !.barred = @ \ {reason}] ELSE req[h]]

UserOf(r) == IF r \in Creating THEN r.user ELSE codes[r.code].user
TenantOf(r) == clients[IF r \in Creating THEN r.client ELSE codes[r.code].client].tenant
RequestsOf(u) == {h \in Handlers : req[h] # Idle /\ UserOf(req[h]) = u}

AddMember(u, t) ==
  /\ u \in Present /\ <<u, t>> \notin memberships
  /\ memberships' = memberships \cup {<<u, t>>}
  /\ Lift("nonmember", {h \in RequestsOf(u) : TenantOf(req[h]) = t})
  /\ UNCHANGED <<now, stores, users>>

RemoveMember(u, t) ==
  /\ <<u, t>> \in memberships
  /\ memberships' = memberships \ {<<u, t>>}
  /\ UNCHANGED <<now, stores, users, req>>

(* DeleteUser stamps deleted_at (and revokes the refresh tokens there are);*)
(* codes and memberships stay.                                             *)
SoftDeleteUser(u) ==
  /\ users[u] = "active"
  /\ users' = [users EXCEPT ![u] = "deleted"]
  /\ UNCHANGED <<now, stores, memberships, req>>

RestoreUser(u) ==
  /\ users[u] = "deleted"
  /\ users' = [users EXCEPT ![u] = "active"]
  /\ Lift("inactive", RequestsOf(u))
  /\ UNCHANGED <<now, stores, memberships>>

(* Faulty variant, for TypeOK: memberships without ON DELETE CASCADE. *)
FaultyHardDeleteUser(u) ==
  /\ u \in Present
  /\ users' = [users EXCEPT ![u] = "gone"]
  /\ UNCHANGED <<now, stores, memberships, req>>

(* A hard delete takes the memberships along, but not the codes. *)
HardDeleteUser(u) ==
  /\ u \in Present
  /\ users' = [users EXCEPT ![u] = "gone"]
  /\ memberships' = {m \in memberships : m[1] # u}
  /\ UNCHANGED <<now, stores, req>>

Tick ==
  /\ now < MaxTime
  /\ now' = now + 1
  /\ UNCHANGED <<stores, standing, req>>

Next ==
  \/ \E i \in Clients, t \in Tenants, b \in BOOLEAN : RegisterClient(i, t, b)
  \/ \E h \in Handlers, i \in Clients :
       \/ \E u \in Users : CreateAuthorizationCode(h, i, u)
       \/ \E c \in Created : \E knows \in SUBSET Asked(c) :
            ExchangeAuthorizationCode(h, c, i, knows)
  \/ \E h \in Handlers, c \in Codes, b \in BOOLEAN : InsertCode(h, c, b)
  \/ \E h \in Handlers :
       \/ GateIssuance(h)
       \/ ClaimCode(h) \/ Authenticate(h) \/ LookUpUser(h) \/ CheckMember(h) \/ IssueTokens(h)
       \/ Abort(h)
  \/ \E u \in Users, t \in Tenants : AddMember(u, t) \/ RemoveMember(u, t)
  \/ \E u \in Users : SoftDeleteUser(u) \/ RestoreUser(u) \/ HardDeleteUser(u)
  \/ Tick

Spec == Init /\ [][Next]_vars

-----------------------------------------------------------------------------
(* A request that ought to be refused when it begins, and for which        *)
(* nothing changes that, stores neither a code nor tokens, whatever        *)
(* overtakes it between its checks -- for every reason but one.  That the  *)
(* account is deleted stops neither: "Soft-deleted identities cannot log   *)
(* in" (auth.go:183) is a check of the password login only, and "logged    *)
(* out everywhere" (auth.go:411) revokes the refresh tokens of that        *)
(* moment, not those an outstanding code is exchanged for later.  A user   *)
(* that is gone for good is refused like any other.                        *)
NothingOnceBarred ==
  \A h \in Handlers : req[h].pc \in {"insert", "issue"} => req[h].barred \subseteq {"inactive"}

(* The codes are single-use tickets: one exchange takes a code, and stores *)
(* one pair of tokens for it or wastes it.                                 *)
Stage(c) ==
  IF c \notin Created THEN "unborn" ELSE IF codes[c].used THEN "spent" ELSE "open"

Claimed(h) ==
  IF req[h].pc \in {"authenticate", "user?", "belongs?", "issue"} THEN {req[h].code} ELSE {}

stageMap == [c \in Codes |-> Stage(c)]
claimMap == [h \in Handlers |-> Claimed(h)]

T == INSTANCE Ticket WITH Tickets <- Codes, stage <- stageMap, claim <- claimMap, honoured <- minted

ImplementsTicket == T!TicketSpec
=============================================================================
