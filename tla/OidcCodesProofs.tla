-------------------------- MODULE OidcCodesProofs --------------------------
(* Theorems about OidcCodes, for every value of its constants. *)
EXTENDS OidcCodes, TLAPS

(* The program counter of a request tells its kind. *)
LEMMA RequestFields ==
  ASSUME NEW r \in Request
  PROVE  /\ r.pc = "idle" <=> r = Idle
         /\ r.pc \in {"member?", "insert"} <=> r \in Creating
         /\ r.pc \in {"claim", "authenticate", "user?", "belongs?", "issue"} <=> r \in Exchanging
BY DEF Request, Idle, Creating, Exchanging

(* A request that goes on keeps everything else. *)
LEMMA CreatingFields ==
  ASSUME NEW r \in Creating, NEW pc \in {"member?", "insert"}
  PROVE  /\ [r EXCEPT !.pc = pc] \in Creating /\ [r EXCEPT !.pc = pc].pc = pc
         /\ [r EXCEPT !.pc = pc].client = r.client /\ [r EXCEPT !.pc = pc].user = r.user
         /\ [r EXCEPT !.pc = pc].barred = r.barred
BY DEF Creating

LEMMA ExchangingFields ==
  ASSUME NEW r \in Exchanging, NEW pc \in {"claim", "authenticate", "user?", "belongs?", "issue"}
  PROVE  /\ [r EXCEPT !.pc = pc] \in Exchanging /\ [r EXCEPT !.pc = pc].pc = pc
         /\ [r EXCEPT !.pc = pc].code = r.code /\ [r EXCEPT !.pc = pc].knows = r.knows
         /\ [r EXCEPT !.pc = pc].barred = r.barred
BY DEF Exchanging

(* A request for which a reason is lifted keeps everything else. *)
LEMMA CreatingLifted ==
  ASSUME NEW r \in Creating, NEW S
  PROVE  /\ [r EXCEPT !.barred = @ \ S] \in Creating /\ [r EXCEPT !.barred = @ \ S].pc = r.pc
         /\ [r EXCEPT !.barred = @ \ S].client = r.client /\ [r EXCEPT !.barred = @ \ S].user = r.user
         /\ [r EXCEPT !.barred = @ \ S].barred = r.barred \ S
BY DEF Creating

LEMMA ExchangingLifted ==
  ASSUME NEW r \in Exchanging, NEW S
  PROVE  /\ [r EXCEPT !.barred = @ \ S] \in Exchanging /\ [r EXCEPT !.barred = @ \ S].pc = r.pc
         /\ [r EXCEPT !.barred = @ \ S].code = r.code /\ [r EXCEPT !.barred = @ \ S].knows = r.knows
         /\ [r EXCEPT !.barred = @ \ S].barred = r.barred \ S
BY DEF Exchanging

-----------------------------------------------------------------------------
(* The inductive invariant.  What barred a request when it began, and was  *)
(* not lifted since, bars it still; and it excludes what the request has   *)
(* already been checked for.  Once every check has been passed, the two    *)
(* meet in the one reason that nothing checks.                             *)

Bars(c, knows) == BarsToTokens(c, codes[c].client, knows)

Passed(pc) ==
  {"used", "expired", "client", "redirect"}
    \cup (IF pc \in {"user?", "belongs?", "issue"} THEN {"verifier", "secret", "pkce"} ELSE {})
    \cup (IF pc \in {"belongs?", "issue"} THEN {"gone"} ELSE {})
    \cup (IF pc = "issue" THEN {"nonmember"} ELSE {})

Sound(r) ==
  /\ r \in Request
  /\ r \in Creating => /\ r.client \in Registered
                       /\ r.barred \subseteq BarsToCode(r.client, r.user)
                       /\ r.pc = "insert" => "nonmember" \notin r.barred
  /\ r \in Exchanging => /\ r.code \in Created
                         /\ r.barred \subseteq Bars(r.code, r.knows)
                         /\ r.barred \cap Passed(r.pc) = {}

Tables ==
  /\ now \in Nat
  /\ Registered \subseteq Clients /\ clients \in [Registered -> Client]
  /\ Created \subseteq Codes /\ codes \in [Created -> Code]
  /\ \A c \in Created : codes[c].client \in Registered
  /\ users \in [Users -> {"active", "deleted", "gone"}]
  /\ memberships \subseteq Present \X Tenants
  /\ minted \in [Codes -> Nat]

IInv ==
  /\ Tables
  /\ req \in [Handlers -> Request]
  /\ \A h \in Handlers : Sound(req[h])

(* No request is running, no table has a row but users and the console's.  *)
LEMMA InitIInv == Init => IInv
<1> SUFFICES ASSUME Init PROVE IInv
  OBVIOUS
<1>1. Tables
  BY OidcCodesAssumption DEF Init, Tables, Registered, Created, BootstrapOIDCClient, Client
<1>2. Idle \in Request /\ Idle \notin Creating /\ Idle \notin Exchanging
  BY DEF Request, Idle, Creating, Exchanging
<1> QED BY <1>1, <1>2 DEF Init, IInv, Sound

(* The inductive invariant implies the properties it is for. *)
LEMMA IInvImplies == IInv => TypeOK /\ NothingOnceBarred
<1> SUFFICES ASSUME IInv PROVE TypeOK /\ NothingOnceBarred
  OBVIOUS
<1>1. TypeOK
  BY DEF IInv, Tables, Sound, TypeOK
<1>2. ASSUME NEW h \in Handlers, req[h].pc = "insert" PROVE req[h].barred \subseteq {"inactive"}
  BY <1>2, RequestFields DEF IInv, Sound, BarsToCode
<1>3. ASSUME NEW h \in Handlers, req[h].pc = "issue" PROVE req[h].barred \subseteq {"inactive"}
  <2>1. req[h] \in Exchanging /\ Sound(req[h])
    BY <1>3, RequestFields DEF IInv
  <2>2. Passed("issue") = Reason \ {"inactive"}
    BY DEF Passed, Reason
  <2> QED BY <1>3, <2>1, <2>2 DEF Sound, Exchanging
<1> QED BY <1>1, <1>2, <1>3 DEF NothingOnceBarred

-----------------------------------------------------------------------------
(* What holds of a request goes on holding as long as tables only grow,    *)
(* users and memberships only go, and time passes.  Who has no active      *)
(* account does not get one.                                               *)

Later ==
  /\ Registered \subseteq Registered' /\ \A i \in Registered : clients'[i] = clients[i]
  /\ Created \subseteq Created'
  /\ \A c \in Created : /\ codes'[c].client = codes[c].client /\ codes'[c].user = codes[c].user
                        /\ codes'[c].pkce = codes[c].pkce /\ codes'[c].expires = codes[c].expires
                        /\ codes[c].used => codes'[c].used
  /\ \A u \in Users : users[u] # "active" => users'[u] # "active"
  /\ \A u \in Users : users[u] = "gone" => users'[u] = "gone"
  /\ memberships' \subseteq memberships
  /\ now <= now'

LEMMA BarsLast ==
  ASSUME Tables, Tables', Later, NEW c \in Created, NEW knows
  PROVE  Bars(c, knows) \subseteq Bars(c, knows)'
<1>1. codes[c].client \in Registered /\ codes[c] \in Code /\ c \in Created' /\ codes'[c] \in Code
  BY DEF Tables, Later
<1>2. clients'[codes'[c].client] = clients[codes[c].client]
  BY <1>1 DEF Later
<1>3. Expired(c) => Expired(c)'
  BY <1>1 DEF Later, Expired, Code, Tables
<1>4. codes[c].user \in Users /\ codes'[c].user = codes[c].user
  BY <1>1 DEF Code, Later
<1> QED BY <1>1, <1>2, <1>3, <1>4 DEF Bars, BarsToTokens, Later, IsActiveMember, Present

LEMMA SoundLasts ==
  ASSUME Tables, Tables', Later, NEW r, Sound(r)
  PROVE  Sound(r)'
<1>1. ASSUME r \in Creating
      PROVE  r.client \in Registered' /\ r.barred \subseteq BarsToCode(r.client, r.user)'
  BY <1>1 DEF Sound, Later, BarsToCode, IsActiveMember, Creating
<1>2. ASSUME r \in Exchanging
      PROVE  r.code \in Created' /\ r.barred \subseteq Bars(r.code, r.knows)'
  BY <1>2, BarsLast DEF Sound, Later
<1> QED BY <1>1, <1>2 DEF Sound

LEMMA StepRule ==
  ASSUME IInv, Tables', Later, NEW h \in Handlers, NEW r, Sound(r), Become(h, r) \/ UNCHANGED req
  PROVE  IInv'
<1>1. r \in Request /\ (req' = [req EXCEPT ![h] = r] \/ req' = req)
  BY DEF Become, Sound
<1>2. req' \in [Handlers -> Request]
  BY <1>1 DEF IInv
<1>3. ASSUME NEW i \in Handlers PROVE Sound(req[i])'
  <2>1. PICK x : x = req'[i]
    OBVIOUS
  <2>2. Sound(x)
    BY <1>1, <2>1 DEF IInv
  <2>3. Sound(x)'
    BY <2>2, SoundLasts DEF IInv
  <2> QED BY <2>1, <2>3 DEF Sound
<1> QED BY <1>2, <1>3 DEF IInv

LEMMA IdleSound == Sound(Idle)
BY DEF Sound, Request, Idle, Creating, Exchanging

(* A request step: the tables stay as they are. *)
LEMMA RequestStep ==
  ASSUME IInv, NEW h \in Handlers, NEW r, Sound(r), Become(h, r), UNCHANGED <<now, stores, standing>>
  PROVE  IInv'
<1>1. Tables'
  BY DEF IInv, Tables, stores, standing, Registered, Created, Present
<1>2. Later
  BY DEF IInv, Tables, Later, stores, standing, Registered, Created
<1> QED BY <1>1, <1>2, StepRule

(* A request that is through with a check advances, if what was checked    *)
(* bars nothing. *)
LEMMA Advanced ==
  ASSUME IInv, NEW h \in Handlers, req[h] \in Exchanging,
         NEW pc \in {"authenticate", "user?", "belongs?", "issue"},
         Bars(req[h].code, req[h].knows) \cap (Passed(pc) \ Passed(req[h].pc)) = {}
  PROVE  Sound([req[h] EXCEPT !.pc = pc])
<1> DEFINE r == [req[h] EXCEPT !.pc = pc]
<1>0. pc \in {"claim", "authenticate", "user?", "belongs?", "issue"}
  OBVIOUS
<1>1. /\ r \in Exchanging /\ r.pc = pc /\ r.code = req[h].code /\ r.knows = req[h].knows
      /\ r.barred = req[h].barred
  BY <1>0, ExchangingFields
<1>2. r \in Request /\ r \notin Creating
  BY <1>1 DEF Request, Creating
<1>3. Sound(req[h])
  BY DEF IInv
<1> HIDE DEF r
<1>4. Sound(r)
  BY <1>1, <1>2, <1>3 DEF Sound
<1> QED BY <1>4 DEF r

LEMMA ExchangeStep ==
  ASSUME IInv, NEW h \in Handlers, NEW c \in Codes, NEW i \in Clients, NEW knows \in SUBSET Asked(c),
         ExchangeAuthorizationCode(h, c, i, knows)
  PROVE  IInv'
<1> DEFINE r == [pc |-> "claim", code |-> c, knows |-> knows, barred |-> BarsToTokens(c, i, knows)]
<1>1. c \in Created /\ ~codes[c].used /\ ~Expired(c) /\ codes[c].client = i /\ "redirect" \in knows
  BY DEF ExchangeAuthorizationCode
<1>2. r \in Exchanging
  BY DEF Exchanging, BarsToTokens, Asked, Proof
<1>3. r \in Request /\ r \notin Creating
  BY <1>2 DEF Request, Creating
<1>4. r.barred \cap Passed("claim") = {}
  BY <1>1 DEF Passed, BarsToTokens
<1>5. r.barred = Bars(c, knows)
  BY <1>1 DEF Bars
<1>6. Sound(r)
  BY <1>1, <1>2, <1>3, <1>4, <1>5 DEF Sound
<1> QED BY <1>6, RequestStep DEF ExchangeAuthorizationCode

LEMMA AuthenticateStep ==
  ASSUME IInv, NEW h \in Handlers, Authenticate(h)
  PROVE  IInv'
<1>1. req[h] \in Exchanging /\ req[h].pc = "authenticate" /\ req[h].code \in Created
  BY RequestFields DEF IInv, Authenticate, Sound
<1>2. CASE VerifyPKCE(req[h].code, req[h].knows) /\ Authentic(req[h].code, req[h].knows)
  <2>1. Bars(req[h].code, req[h].knows) \cap {"verifier", "secret", "pkce"} = {}
    BY <1>2 DEF VerifyPKCE, Authentic, Bars, BarsToTokens
  <2>2. Passed("user?") \ Passed("authenticate") \subseteq {"verifier", "secret", "pkce"}
    BY DEF Passed
  <2>3. Sound([req[h] EXCEPT !.pc = "user?"])
    BY <1>1, <2>1, <2>2, Advanced
  <2> QED BY <1>2, <2>3, RequestStep DEF Authenticate, Advance
<1> QED BY <1>2, IdleSound, RequestStep DEF Authenticate

LEMMA LookUpUserStep ==
  ASSUME IInv, NEW h \in Handlers, LookUpUser(h)
  PROVE  IInv'
<1>1. req[h] \in Exchanging /\ req[h].pc = "user?"
  BY RequestFields DEF IInv, LookUpUser
<1>2. CASE codes[req[h].code].user \in Present
  <2>1. "gone" \notin Bars(req[h].code, req[h].knows)
    BY <1>2 DEF Bars, BarsToTokens
  <2>2. Passed("belongs?") \ Passed("user?") \subseteq {"gone"}
    BY DEF Passed
  <2>3. Sound([req[h] EXCEPT !.pc = "belongs?"])
    BY <1>1, <2>1, <2>2, Advanced
  <2> QED BY <1>2, <2>3, RequestStep DEF LookUpUser, Advance
<1> QED BY <1>2, IdleSound, RequestStep DEF LookUpUser

LEMMA CheckMemberStep ==
  ASSUME IInv, NEW h \in Handlers, CheckMember(h)
  PROVE  IInv'
<1>1. req[h] \in Exchanging /\ req[h].pc = "belongs?"
  BY RequestFields DEF IInv, CheckMember
<1>2. CASE IsActiveMember(codes[req[h].code].user, clients[codes[req[h].code].client].tenant)
  <2>1. "nonmember" \notin Bars(req[h].code, req[h].knows)
    BY <1>2 DEF Bars, BarsToTokens
  <2>2. Passed("issue") \ Passed("belongs?") \subseteq {"nonmember"}
    BY DEF Passed
  <2>3. Sound([req[h] EXCEPT !.pc = "issue"])
    BY <1>1, <2>1, <2>2, Advanced
  <2> QED BY <1>2, <2>3, RequestStep DEF CheckMember, Advance
<1> QED BY <1>2, IdleSound, RequestStep DEF CheckMember

(* The creation of a code. *)
LEMMA CreatingStep ==
  ASSUME IInv, NEW h \in Handlers, NEW i \in Clients, NEW u \in Users,
         CreateAuthorizationCode(h, i, u) \/ GateIssuance(h)
  PROVE  IInv'
<1>1. CASE CreateAuthorizationCode(h, i, u)
  <2> DEFINE r == [pc |-> "member?", client |-> i, user |-> u, barred |-> BarsToCode(i, u)]
  <2>1. r \in Creating
    BY DEF Creating, BarsToCode, Reason
  <2>2. r \in Request /\ r \notin Exchanging
    BY <2>1 DEF Request, Exchanging
  <2>3. Sound(r)
    BY <1>1, <2>1, <2>2 DEF Sound, CreateAuthorizationCode
  <2> QED BY <1>1, <2>3, RequestStep DEF CreateAuthorizationCode
<1>2. CASE GateIssuance(h) /\ IsActiveMember(req[h].user, clients[req[h].client].tenant)
  <2> DEFINE r == [req[h] EXCEPT !.pc = "insert"]
  <2>1. req[h] \in Creating /\ Sound(req[h])
    BY <1>2, RequestFields DEF IInv, GateIssuance
  <2>2. /\ r \in Creating /\ r.pc = "insert" /\ r.client = req[h].client /\ r.user = req[h].user
        /\ r.barred = req[h].barred
    BY <2>1, CreatingFields
  <2>3. r \in Request /\ r \notin Exchanging
    BY <2>2 DEF Request, Exchanging
  <2>4. "nonmember" \notin BarsToCode(req[h].client, req[h].user)
    BY <1>2 DEF BarsToCode
  <2> HIDE DEF r
  <2>5. Sound(r)
    BY <2>1, <2>2, <2>3, <2>4 DEF Sound
  <2> QED BY <1>2, <2>5, RequestStep DEF GateIssuance, Advance, r
<1>3. CASE GateIssuance(h) /\ ~IsActiveMember(req[h].user, clients[req[h].client].tenant)
  BY <1>3, IdleSound, RequestStep DEF GateIssuance
<1> QED BY <1>1, <1>2, <1>3

-----------------------------------------------------------------------------
(* Steps that change a table. *)

LEMMA RegisterClientStep ==
  ASSUME IInv, NEW i \in Clients, NEW t \in Tenants, NEW b \in BOOLEAN, RegisterClient(i, t, b)
  PROVE  IInv'
<1> DEFINE row == [tenant |-> t, confidential |-> b]
<1>0. row \in Client
  BY DEF Client
<1>1. Registered' = Registered \cup {i} /\ clients' \in [Registered \cup {i} -> Client]
  BY <1>0 DEF RegisterClient, IInv, Tables, Registered
<1>2. \A j \in Registered : clients'[j] = clients[j]
  BY DEF RegisterClient, Registered
<1>3. Tables'
  BY <1>1 DEF RegisterClient, IInv, Tables, standing, Created, Present
<1>4. Later
  BY <1>1, <1>2 DEF RegisterClient, IInv, Tables, Later, standing, Created
<1>5. UNCHANGED req
  BY DEF RegisterClient
<1>6. ASSUME NEW h \in Handlers PROVE IInv'
  BY <1>3, <1>4, <1>5, IdleSound, StepRule
<1>7. CASE Handlers = {}
  BY <1>3, <1>5, <1>7 DEF IInv
<1> QED BY <1>6, <1>7

LEMMA InsertCodeStep ==
  ASSUME IInv, NEW h \in Handlers, NEW c \in Codes, NEW pkce \in BOOLEAN, InsertCode(h, c, pkce)
  PROVE  IInv'
<1> DEFINE row == [client |-> req[h].client, user |-> req[h].user, pkce |-> pkce,
                   expires |-> now + CodeTTL, used |-> FALSE]
<1>1. req[h] \in Creating /\ req[h].client \in Registered
  BY RequestFields DEF InsertCode, IInv, Sound
<1>2. now + CodeTTL \in Nat
  BY OidcCodesAssumption DEF IInv, Tables
<1>3. row \in Code /\ row.client \in Registered
  BY <1>1, <1>2 DEF Creating, Code
<1>4. codes' = [x \in Created \cup {c} |-> IF x = c THEN row ELSE codes[x]] /\ c \notin Created
  BY DEF InsertCode
<1> HIDE DEF row
<1>5. Created' = Created \cup {c} /\ codes' \in [Created \cup {c} -> Code]
  BY <1>3, <1>4 DEF IInv, Tables, Created
<1>6. \A x \in Created : codes'[x] = codes[x]
  BY <1>4
<1>7. codes'[c] = row
  BY <1>4
<1>8. Tables'
  BY <1>3, <1>5, <1>6, <1>7 DEF InsertCode, IInv, Tables, standing, Registered, Present
<1>9. Later
  BY <1>5, <1>6 DEF InsertCode, IInv, Tables, Later, standing, Registered
<1> QED BY <1>8, <1>9, IdleSound, StepRule DEF InsertCode

LEMMA ClaimCodeStep ==
  ASSUME IInv, NEW h \in Handlers, ClaimCode(h)
  PROVE  IInv'
<1> DEFINE c == req[h].code
<1>1. req[h] \in Exchanging /\ req[h].pc = "claim" /\ c \in Created
  BY RequestFields DEF IInv, ClaimCode, Sound
<1>2. CASE codes[c].used
  BY <1>2, IdleSound, RequestStep DEF ClaimCode, stores
<1>3. CASE ~codes[c].used
  <2>1. codes' = [codes EXCEPT ![c].used = TRUE] /\ Advance(h, "authenticate")
    BY <1>3 DEF ClaimCode
  <2>2. codes[c] \in Code
    BY <1>1 DEF IInv, Tables
  <2>3. /\ codes'[c] \in Code /\ codes'[c].used
        /\ codes'[c].client = codes[c].client /\ codes'[c].user = codes[c].user
        /\ codes'[c].pkce = codes[c].pkce /\ codes'[c].expires = codes[c].expires
    BY <1>1, <2>1, <2>2 DEF Code, Created
  <2>4. Created' = Created /\ \A x \in Created \ {c} : codes'[x] = codes[x]
    BY <2>1 DEF Created
  <2>5. codes' \in [Created -> Code]
    BY <2>1, <2>3, <2>4 DEF IInv, Tables, Created
  <2>6. Tables'
    BY <2>3, <2>4, <2>5 DEF ClaimCode, IInv, Tables, standing, Registered, Present
  <2>7. Later
    BY <2>3, <2>4 DEF ClaimCode, IInv, Tables, Later, standing, Registered
  <2>8. Passed("authenticate") \ Passed("claim") = {}
    BY DEF Passed
  <2>9. Sound([req[h] EXCEPT !.pc = "authenticate"])
    BY <1>1, <2>8, Advanced
  <2> QED BY <2>1, <2>6, <2>7, <2>9, StepRule DEF Advance
<1> QED BY <1>2, <1>3

LEMMA IssueTokensStep ==
  ASSUME IInv, NEW h \in Handlers, IssueTokens(h)
  PROVE  IInv'
<1>1. req[h] \in Exchanging /\ req[h].code \in Codes
  BY RequestFields DEF IInv, IssueTokens, Exchanging
<1>2. minted' \in [Codes -> Nat]
  BY <1>1 DEF IssueTokens, IInv, Tables
<1>3. Tables'
  BY <1>2 DEF IssueTokens, IInv, Tables, standing, Registered, Created, Present
<1>4. Later
  BY DEF IssueTokens, IInv, Tables, Later, standing, Registered, Created
<1> QED BY <1>3, <1>4, IdleSound, StepRule DEF IssueTokens

(* Steps of the environment that lift nothing. *)
LEMMA EnvironmentStep ==
  ASSUME IInv,
         \/ \E u \in Users, t \in Tenants : RemoveMember(u, t)
         \/ \E u \in Users : SoftDeleteUser(u) \/ HardDeleteUser(u)
         \/ Tick \/ UNCHANGED vars
  PROVE  IInv'
<1>1. UNCHANGED <<stores, req>>
  BY DEF RemoveMember, SoftDeleteUser, HardDeleteUser, Tick, vars
<1>2. /\ users' \in [Users -> {"active", "deleted", "gone"}]
      /\ \A u \in Users : users[u] # "active" => users'[u] # "active"
      /\ \A u \in Users : users[u] = "gone" => users'[u] = "gone"
      /\ memberships' \subseteq memberships
      /\ memberships' \subseteq Present' \X Tenants
  <2>1. ASSUME NEW u \in Users, SoftDeleteUser(u) PROVE <1>2
    BY <2>1 DEF SoftDeleteUser, IInv, Tables, Present
  <2>2. ASSUME NEW u \in Users, HardDeleteUser(u) PROVE <1>2
    BY <2>2 DEF HardDeleteUser, IInv, Tables, Present
  <2>3. ASSUME UNCHANGED users, memberships' \subseteq memberships PROVE <1>2
    BY <2>3 DEF IInv, Tables, Present
  <2> QED BY <2>1, <2>2, <2>3 DEF RemoveMember, Tick, vars, standing
<1>3. now' \in Nat /\ now <= now'
  <2>1. now' = now \/ now' = now + 1
    BY DEF RemoveMember, SoftDeleteUser, HardDeleteUser, Tick, vars
  <2> QED BY <2>1 DEF IInv, Tables
<1>4. Tables'
  BY <1>1, <1>2, <1>3 DEF IInv, Tables, stores, Registered, Created
<1>5. Later
  BY <1>1, <1>2, <1>3 DEF Later, stores, Registered, Created
<1>6. ASSUME NEW h \in Handlers PROVE IInv'
  BY <1>1, <1>4, <1>5, IdleSound, StepRule
<1>7. CASE Handlers = {}
  BY <1>1, <1>4, <1>7 DEF IInv
<1> QED BY <1>6, <1>7

(* What barred request r bars it still, but for the reasons in S. *)
Held(r, S) ==
  /\ r \in Creating =>
       BarsToCode(r.client, r.user) \ S \subseteq BarsToCode(r.client, r.user)'
  /\ r \in Exchanging =>
       Bars(r.code, r.knows) \ S \subseteq Bars(r.code, r.knows)'

(* When a reason is lifted from some requests, every request stays sound,  *)
(* as long as the others' reasons go on holding.                           *)
LEMMA LiftStep ==
  ASSUME IInv, NEW reason, NEW H, Lift(reason, H), Tables', UNCHANGED stores,
         \A h \in Handlers : \A r \in Request :
           r = req[h] => Held(r, IF h \in H THEN {reason} ELSE {})
  PROVE  IInv'
<1> DEFINE Less(r, S) == [r EXCEPT !.barred = @ \ S]
<1>1. ASSUME NEW h \in Handlers PROVE Sound(req[h])' /\ req'[h] \in Request
  <2>1. PICK r : r = req[h]
    OBVIOUS
  <2>2. PICK S : S = IF h \in H THEN {reason} ELSE {}
    OBVIOUS
  <2>3. Sound(r) /\ r \in Request /\ Held(r, S)
    BY <2>1, <2>2 DEF IInv, Sound
  <2>4. Registered' = Registered /\ Created' = Created
    BY DEF stores, Registered, Created
  <2>5. CASE r \in Creating
    <3>1. PICK q : q = req'[h]
      OBVIOUS
    <3>2. q = r \/ q = Less(r, {reason})
      BY <2>1, <3>1 DEF Lift
    <3>3. /\ Less(r, {reason}) \in Creating /\ Less(r, {reason}).pc = r.pc
          /\ Less(r, {reason}).client = r.client /\ Less(r, {reason}).user = r.user
          /\ Less(r, {reason}).barred = r.barred \ {reason}
      BY <2>5, CreatingLifted
    <3>4. q \in Creating /\ q.pc = r.pc /\ q.client = r.client /\ q.user = r.user
      BY <2>5, <3>2, <3>3
    <3>5. q.barred \subseteq r.barred \ S
      BY <2>1, <2>2, <3>1, <3>3 DEF Lift
    <3>6. BarsToCode(r.client, r.user) \ S \subseteq BarsToCode(r.client, r.user)'
      BY <2>3, <2>5 DEF Held
    <3>7. q \in Request /\ q \notin Exchanging
      BY <3>4 DEF Request, Creating, Exchanging
    <3>8. Sound(q)'
      BY <2>3, <2>4, <2>5, <3>4, <3>5, <3>6, <3>7 DEF Sound
    <3> QED BY <3>1, <3>7, <3>8 DEF Sound
  <2>6. CASE r \in Exchanging
    <3>1. PICK q : q = req'[h]
      OBVIOUS
    <3>2. q = r \/ q = Less(r, {reason})
      BY <2>1, <3>1 DEF Lift
    <3>3. /\ Less(r, {reason}) \in Exchanging /\ Less(r, {reason}).pc = r.pc
          /\ Less(r, {reason}).code = r.code /\ Less(r, {reason}).knows = r.knows
          /\ Less(r, {reason}).barred = r.barred \ {reason}
      BY <2>6, ExchangingLifted
    <3>4. q \in Exchanging /\ q.pc = r.pc /\ q.code = r.code /\ q.knows = r.knows
      BY <2>6, <3>2, <3>3
    <3>5. q.barred \subseteq r.barred \ S
      BY <2>1, <2>2, <3>1, <3>3 DEF Lift
    <3>6. Bars(r.code, r.knows) \ S \subseteq Bars(r.code, r.knows)'
      BY <2>3, <2>6 DEF Held
    <3>7. q \in Request /\ q \notin Creating
      BY <3>4 DEF Request, Creating, Exchanging
    <3>8. Sound(q)'
      BY <2>3, <2>4, <2>6, <3>4, <3>5, <3>6, <3>7 DEF Sound
    <3> QED BY <3>1, <3>7, <3>8 DEF Sound
  <2>7. CASE r = Idle
    <3>1. Less(r, {reason}) = Idle
      BY <2>7 DEF Idle
    <3>2. req'[h] = Idle
      BY <2>1, <2>7, <3>1 DEF Lift
    <3> QED BY <3>2 DEF Sound, Request, Idle, Creating, Exchanging
  <2> QED BY <2>3, <2>5, <2>6, <2>7 DEF Request
<1>2. req' \in [Handlers -> Request]
  BY <1>1 DEF Lift
<1> QED BY <1>1, <1>2 DEF IInv

(* Becoming a member lifts that reason from the requests of that user for  *)
(* that tenant, and from no others; every other reason stands.             *)
LEMMA AddMemberStep ==
  ASSUME IInv, NEW u \in Users, NEW t \in Tenants, AddMember(u, t)
  PROVE  IInv'
<1> DEFINE H == {h \in RequestsOf(u) : TenantOf(req[h]) = t}
<1>1. /\ memberships' = memberships \cup {<<u, t>>} /\ u \in Present
      /\ UNCHANGED <<now, stores, users>> /\ Lift("nonmember", H)
  BY DEF AddMember
<1>2. Tables'
  BY <1>1 DEF IInv, Tables, stores, Registered, Created, Present
<1>3. \A v \in Users, w \in Tenants : (v # u \/ w # t) => (IsActiveMember(v, w)' <=> IsActiveMember(v, w))
  BY <1>1 DEF IsActiveMember
<1>4. ASSUME NEW h \in Handlers, NEW r \in Request, r = req[h]
      PROVE  Held(r, IF h \in H THEN {"nonmember"} ELSE {})
  <2>0. Sound(r)
    BY <1>4 DEF IInv
  <2>1. CASE r \in Creating
    <3>1. r.client \in Registered /\ r.user \in Users /\ r # Idle /\ r \notin Exchanging
      BY <2>0, <2>1 DEF Sound, Creating, Exchanging, Idle
    <3>2. clients[r.client].tenant \in Tenants
      BY <3>1 DEF IInv, Tables, Client
    <3>3. h \notin H => r.user # u \/ clients[r.client].tenant # t
      BY <1>4, <2>1, <3>1 DEF RequestsOf, UserOf, TenantOf
    <3> QED BY <1>1, <1>3, <3>1, <3>2, <3>3 DEF Held, BarsToCode, stores
  <2>2. CASE r \in Exchanging
    <3>1. /\ r.code \in Created /\ r # Idle /\ r \notin Creating
          /\ codes[r.code].user \in Users /\ codes[r.code].client \in Registered
      BY <2>0, <2>2 DEF IInv, Sound, Exchanging, Creating, Idle, Tables, Code
    <3>2. clients[codes[r.code].client].tenant \in Tenants
      BY <3>1 DEF IInv, Tables, Client
    <3>3. h \notin H => codes[r.code].user # u \/ clients[codes[r.code].client].tenant # t
      BY <1>4, <3>1 DEF RequestsOf, UserOf, TenantOf
    <3> HIDE DEF H
    <3> QED BY <1>1, <1>3, <3>1, <3>2, <3>3 DEF Held, Bars, BarsToTokens, Expired, Present, stores
  <2> QED BY <2>1, <2>2 DEF Held
<1> HIDE DEF H
<1> QED BY <1>1, <1>2, <1>4, LiftStep

(* So does the restore of an account, for all requests of its user. *)
LEMMA RestoreUserStep ==
  ASSUME IInv, NEW u \in Users, RestoreUser(u)
  PROVE  IInv'
<1> DEFINE H == RequestsOf(u)
<1>1. /\ users[u] = "deleted" /\ users' = [users EXCEPT ![u] = "active"]
      /\ UNCHANGED <<now, stores, memberships>> /\ Lift("inactive", H)
  BY DEF RestoreUser
<1>2. Present' = Present /\ \A v \in Users \ {u} : users'[v] = users[v]
  BY <1>1 DEF IInv, Tables, Present
<1>3. Tables'
  BY <1>1, <1>2 DEF IInv, Tables, stores, Registered, Created
<1>4. ASSUME NEW h \in Handlers, NEW r \in Request, r = req[h]
      PROVE  Held(r, IF h \in H THEN {"inactive"} ELSE {})
  <2>0. Sound(r)
    BY <1>4 DEF IInv
  <2>1. CASE r \in Creating
    <3>1. r.user \in Users /\ r # Idle /\ r \notin Exchanging
      BY <2>1 DEF Creating, Exchanging, Idle
    <3>2. h \notin H => r.user # u
      BY <1>4, <2>1, <3>1 DEF RequestsOf, UserOf
    <3> QED BY <1>1, <1>2, <3>1, <3>2 DEF Held, BarsToCode, IsActiveMember, stores
  <2>2. CASE r \in Exchanging
    <3>1. r # Idle /\ r \notin Creating /\ codes[r.code].user \in Users
      BY <2>0, <2>2 DEF IInv, Sound, Exchanging, Creating, Idle, Tables, Code
    <3>2. h \notin H => codes[r.code].user # u
      BY <1>4, <3>1 DEF RequestsOf, UserOf
    <3> HIDE DEF H
    <3> QED BY <1>1, <1>2, <3>1, <3>2 DEF Held, Bars, BarsToTokens, Expired, IsActiveMember, stores
  <2> QED BY <2>1, <2>2 DEF Held
<1> HIDE DEF H
<1> QED BY <1>1, <1>3, <1>4, LiftStep

(* Every step preserves the inductive invariant. *)
LEMMA NextStep == IInv /\ [Next]_vars => IInv'
<1> SUFFICES ASSUME IInv, [Next]_vars PROVE IInv'
  OBVIOUS
<1>1. ASSUME NEW i \in Clients, NEW t \in Tenants, NEW b \in BOOLEAN, RegisterClient(i, t, b)
      PROVE  IInv'
  BY <1>1, RegisterClientStep
<1>3. ASSUME NEW h \in Handlers, NEW i \in Clients,
             \/ \E u \in Users : CreateAuthorizationCode(h, i, u)
             \/ \E c \in Created : \E knows \in SUBSET Asked(c) :
                  ExchangeAuthorizationCode(h, c, i, knows)
      PROVE  IInv'
  <2>1. Created \subseteq Codes
    BY DEF IInv, Tables
  <2> QED BY <1>3, <2>1, CreatingStep, ExchangeStep
<1>4. ASSUME NEW h \in Handlers, NEW c \in Codes, NEW b \in BOOLEAN, InsertCode(h, c, b) PROVE IInv'
  BY <1>4, InsertCodeStep
<1>5. ASSUME NEW h \in Handlers, GateIssuance(h) PROVE IInv'
  <2>1. req[h] \in Creating
    BY <1>5, RequestFields DEF IInv, GateIssuance
  <2>2. req[h].client \in Clients /\ req[h].user \in Users
    BY <2>1 DEF Creating
  <2> QED BY <1>5, <2>2, CreatingStep
<1>6. ASSUME NEW h \in Handlers, Abort(h) PROVE IInv'
  BY <1>6, IdleSound, RequestStep DEF Abort
<1>7. ASSUME NEW h \in Handlers,
             \/ GateIssuance(h)
             \/ ClaimCode(h) \/ Authenticate(h) \/ LookUpUser(h) \/ CheckMember(h) \/ IssueTokens(h)
             \/ Abort(h)
      PROVE  IInv'
  BY <1>5, <1>6, <1>7, ClaimCodeStep, AuthenticateStep, LookUpUserStep, CheckMemberStep, IssueTokensStep
<1>8. ASSUME NEW u \in Users, NEW t \in Tenants, AddMember(u, t) \/ RemoveMember(u, t) PROVE IInv'
  BY <1>8, AddMemberStep, EnvironmentStep
<1>9. ASSUME NEW u \in Users, SoftDeleteUser(u) \/ RestoreUser(u) \/ HardDeleteUser(u) PROVE IInv'
  BY <1>9, EnvironmentStep, RestoreUserStep
<1>10. ASSUME Tick \/ UNCHANGED vars PROVE IInv'
  BY <1>10, EnvironmentStep
<1> QED BY <1>1, <1>3, <1>4, <1>7, <1>8, <1>9, <1>10 DEF Next

(* No reachable state leaves the types or breaks a foreign key. *)
THEOREM TypeCorrect == Spec => []TypeOK
BY InitIInv, NextStep, IInvImplies, PTL DEF Spec

(* Neither a code nor tokens are stored for a request that was to be       *)
(* refused when it began, unless what barred it was lifted in between, or  *)
(* was a soft deletion, which no statement of the flow looks at.           *)
THEOREM NothingOnceBarredCorrect == Spec => []NothingOnceBarred
BY InitIInv, NextStep, IInvImplies, PTL DEF Spec

-----------------------------------------------------------------------------
(* The codes are tickets.  What the refinement needs besides: a code that  *)
(* is claimed is spent, has not been honoured, and is claimed by one       *)
(* exchange only.                                                          *)

Single ==
  /\ \A c \in Codes : minted[c] <= 1 /\ (stageMap[c] # "spent" => minted[c] = 0)
  /\ \A h \in Handlers : \A c \in claimMap[h] : c \in Codes /\ stageMap[c] = "spent" /\ minted[c] = 0
  /\ \A g, h \in Handlers : g # h => claimMap[g] \cap claimMap[h] = {}

Same == UNCHANGED <<stageMap, claimMap, minted>>

Redeeming == {"authenticate", "user?", "belongs?", "issue"}

(* The initial state maps to one of Ticket. *)
LEMMA InitMaps == Init => T!TicketInit /\ Single
<1> SUFFICES ASSUME Init PROVE T!TicketInit /\ Single
  OBVIOUS
<1>1. stageMap = [c \in Codes |-> "unborn"]
  BY DEF Init, stageMap, Stage, Created
<1>2. claimMap = [h \in Handlers |-> {}]
  BY DEF Init, claimMap, Claimed, Idle
<1> QED BY <1>1, <1>2 DEF Init, T!TicketInit, Single

(* The invariant is one of tickets. *)
LEMMA SingleKept ==
  ASSUME IInv, Single, T!TicketNext \/ Same
  PROVE  Single'
<1>0. minted \in [Codes -> Nat] /\ stageMap \in [Codes -> {"unborn", "open", "spent"}]
      /\ claimMap = [h \in Handlers |-> claimMap[h]]
  BY DEF IInv, Tables, stageMap, Stage, claimMap
<1>1. ASSUME NEW c \in Codes, T!Issue(c) PROVE Single'
  BY <1>0, <1>1 DEF T!Issue, Single
<1>2. ASSUME NEW S \in SUBSET Codes, T!Withdraw(S) PROVE Single'
  BY <1>0, <1>2 DEF T!Withdraw, Single
<1>3. ASSUME NEW h \in Handlers, NEW c \in Codes, T!Take(h, c) PROVE Single'
  BY <1>0, <1>3 DEF T!Take, Single
<1>4. ASSUME NEW h \in Handlers, NEW c \in Codes, T!Honour(h, c) PROVE Single'
  BY <1>0, <1>4 DEF T!Honour, Single
<1>5. ASSUME NEW h \in Handlers, T!Waste(h) PROVE Single'
  BY <1>0, <1>5 DEF T!Waste, Single
<1>6. ASSUME Same PROVE Single'
  BY <1>6 DEF Same, Single
<1> QED BY <1>1, <1>2, <1>3, <1>4, <1>5, <1>6 DEF T!TicketNext

(* The map depends on the codes and on the requests only. *)
LEMMA StageSame == UNCHANGED codes => stageMap' = stageMap
BY DEF stageMap, Stage, Created

(* A step of one request that changes no code. *)
LEMMA RequestMaps ==
  ASSUME IInv, UNCHANGED <<codes, minted>>, NEW h \in Handlers, NEW r, Become(h, r),
         r.pc \notin Redeeming \/ (req[h].pc \in Redeeming /\ r.code = req[h].code)
  PROVE  T!TicketNext \/ Same
<1>1. stageMap' = stageMap /\ minted' = minted
  BY StageSame
<1>2. req'[h] = r /\ \A g \in Handlers \ {h} : req'[g] = req[g]
  BY DEF Become, IInv
<1>3. CASE r.pc \in Redeeming /\ req[h].pc \in Redeeming /\ r.code = req[h].code
  BY <1>1, <1>2, <1>3 DEF Same, claimMap, Claimed, Redeeming
<1>4. CASE r.pc \notin Redeeming /\ req[h].pc \notin Redeeming
  BY <1>1, <1>2, <1>4 DEF Same, claimMap, Claimed, Redeeming
<1>5. CASE r.pc \notin Redeeming /\ req[h].pc \in Redeeming
  <2>1. claimMap' = [claimMap EXCEPT ![h] = {}]
    BY <1>2, <1>5 DEF claimMap, Claimed, Redeeming
  <2>2. claimMap[h] # {}
    BY <1>5 DEF claimMap, Claimed, Redeeming
  <2> QED BY <1>1, <2>1, <2>2 DEF T!TicketNext, T!Waste
<1> QED BY <1>3, <1>4, <1>5

LEMMA IdleMaps ==
  ASSUME IInv, UNCHANGED <<codes, minted>>, NEW h \in Handlers, Become(h, Idle)
  PROVE  T!TicketNext \/ Same
BY RequestMaps DEF Idle, Redeeming

(* The insert of a code is its issue. *)
LEMMA InsertCodeMaps ==
  ASSUME IInv, NEW h \in Handlers, NEW c \in Codes, NEW b \in BOOLEAN, InsertCode(h, c, b)
  PROVE  T!Issue(c)
<1>1. stageMap[c] = "unborn" /\ minted' = minted
  BY DEF InsertCode, stageMap, Stage
<1>2. Stage(c)' = "open" /\ \A x \in Codes \ {c} : Stage(x)' = Stage(x)
  BY DEF InsertCode, Stage, Created
<1>3. stageMap' = [stageMap EXCEPT ![c] = "open"]
  BY <1>2 DEF stageMap
<1>4. req' = [req EXCEPT ![h] = Idle] /\ req[h].pc = "insert"
  BY DEF InsertCode, Become
<1>5. claimMap' = claimMap
  BY <1>4 DEF claimMap, Claimed, Idle, IInv
<1> QED BY <1>1, <1>3, <1>5 DEF T!Issue

(* The claim that succeeds takes the ticket. *)
LEMMA ClaimCodeMaps ==
  ASSUME IInv, NEW h \in Handlers, ClaimCode(h)
  PROVE  T!TicketNext \/ Same
<1>0. PICK c : c = req[h].code
  OBVIOUS
<1>1. req[h] \in Exchanging /\ req[h].pc = "claim" /\ c \in Created /\ c \in Codes /\ codes[c] \in Code
  BY <1>0, RequestFields DEF IInv, ClaimCode, Sound, Tables
<1>2. minted' = minted
  BY DEF ClaimCode
<1>3. CASE codes[c].used
  BY <1>0, <1>3, IdleMaps DEF ClaimCode
<1>4. CASE ~codes[c].used
  <2>1. codes' = [codes EXCEPT ![c].used = TRUE] /\ Advance(h, "authenticate")
    BY <1>0, <1>4 DEF ClaimCode
  <2>2. stageMap[c] = "open" /\ claimMap[h] = {}
    BY <1>1, <1>4 DEF stageMap, Stage, claimMap, Claimed
  <2>3. Stage(c)' = "spent" /\ \A x \in Codes \ {c} : Stage(x)' = Stage(x)
    BY <1>1, <2>1 DEF Stage, Created, Code, IInv, Tables
  <2>4. stageMap' = [stageMap EXCEPT ![c] = "spent"]
    BY <2>3 DEF stageMap
  <2>5. /\ req'[h].pc = "authenticate" /\ req'[h].code = c
        /\ \A g \in Handlers \ {h} : req'[g] = req[g]
    BY <1>0, <1>1, <2>1, ExchangingFields DEF Advance, Become, IInv
  <2>6. claimMap' = [claimMap EXCEPT ![h] = {c}]
    BY <2>5 DEF claimMap, Claimed
  <2>7. T!Take(h, c)
    BY <1>2, <2>2, <2>4, <2>6 DEF T!Take
  <2> QED BY <1>1, <2>7 DEF T!TicketNext
<1> QED BY <1>3, <1>4

(* The tokens are what the ticket is for. *)
LEMMA IssueTokensMaps ==
  ASSUME IInv, Single, NEW h \in Handlers, IssueTokens(h)
  PROVE  T!TicketNext
<1> DEFINE c == req[h].code
<1>1. req[h] \in Exchanging /\ req[h].pc = "issue" /\ c \in Codes
  BY RequestFields DEF IInv, IssueTokens, Exchanging
<1>2. claimMap[h] = {c}
  BY <1>1 DEF claimMap, Claimed
<1>3. minted[c] = 0
  BY <1>2 DEF Single
<1>4. minted' = [minted EXCEPT ![c] = 1]
  <2>1. minted' = [minted EXCEPT ![c] = minted[c] + 1] /\ minted[c] + 1 = 1
    BY <1>3 DEF IssueTokens
  <2> QED BY <2>1
<1>5. stageMap' = stageMap
  BY StageSame DEF IssueTokens
<1>6. claimMap' = [claimMap EXCEPT ![h] = {}]
  BY DEF IssueTokens, Become, claimMap, Claimed, Idle, IInv
<1>7. T!Honour(h, c)
  BY <1>2, <1>3, <1>4, <1>5, <1>6 DEF T!Honour
<1> QED BY <1>1, <1>7 DEF T!TicketNext

(* A request for which a reason is lifted keeps its claim. *)
LEMMA LiftMaps ==
  ASSUME IInv, NEW reason, NEW H, Lift(reason, H), UNCHANGED stores
  PROVE  Same
<1>1. stageMap' = stageMap /\ minted' = minted
  BY StageSame DEF stores
<1>2. ASSUME NEW h \in Handlers PROVE Claimed(h)' = Claimed(h)
  <2>1. PICK r : r = req[h]
    OBVIOUS
  <2>2. req'[h] = r \/ req'[h] = [r EXCEPT !.barred = @ \ {reason}]
    BY <2>1 DEF Lift
  <2>3. CASE r \in Creating
    <3>1. req'[h].pc = r.pc /\ r.pc \notin Redeeming
      BY <2>2, <2>3, CreatingLifted DEF Redeeming, Creating
    <3> QED BY <2>1, <3>1 DEF Claimed, Redeeming
  <2>4. CASE r \in Exchanging
    <3>1. [r EXCEPT !.barred = @ \ {reason}].pc = r.pc /\ [r EXCEPT !.barred = @ \ {reason}].code = r.code
      BY <2>4, ExchangingLifted
    <3>2. req'[h].pc = r.pc /\ req'[h].code = r.code
      BY <2>2, <3>1
    <3> QED BY <2>1, <3>2 DEF Claimed
  <2>5. CASE r = Idle
    <3>1. req'[h].pc = "idle" /\ r.pc = "idle"
      BY <2>2, <2>5 DEF Idle
    <3> QED BY <2>1, <3>1 DEF Claimed
  <2> QED BY <2>1, <2>3, <2>4, <2>5 DEF IInv, Request
<1>3. claimMap' = claimMap
  BY <1>2 DEF claimMap
<1> QED BY <1>1, <1>3 DEF Same

(* Every step is a step of Ticket or leaves its variables alone. *)
LEMMA StepMaps ==
  ASSUME IInv, Single, [Next]_vars
  PROVE  T!TicketNext \/ Same
<1> DEFINE Maps == T!TicketNext \/ Same
<1>1. ASSUME UNCHANGED <<codes, minted, req>> PROVE Maps
  BY <1>1, StageSame DEF Same, claimMap, Claimed
<1>2. ASSUME NEW h \in Handlers, NEW i \in Clients,
             \/ \E u \in Users : CreateAuthorizationCode(h, i, u)
             \/ \E c \in Created : \E knows \in SUBSET Asked(c) :
                  ExchangeAuthorizationCode(h, c, i, knows)
      PROVE  Maps
  <2>1. UNCHANGED <<codes, minted>>
    BY <1>2 DEF CreateAuthorizationCode, ExchangeAuthorizationCode, stores
  <2>2. ASSUME NEW u \in Users, CreateAuthorizationCode(h, i, u) PROVE Maps
    <3>1. [pc |-> "member?", client |-> i, user |-> u, barred |-> BarsToCode(i, u)].pc \notin Redeeming
      BY DEF Redeeming
    <3> QED BY <2>1, <2>2, <3>1, RequestMaps DEF CreateAuthorizationCode
  <2>3. ASSUME NEW c \in Created, NEW knows \in SUBSET Asked(c), ExchangeAuthorizationCode(h, c, i, knows)
        PROVE  Maps
    <3>1. [pc |-> "claim", code |-> c, knows |-> knows, barred |-> BarsToTokens(c, i, knows)].pc \notin Redeeming
      BY DEF Redeeming
    <3> QED BY <2>1, <2>3, <3>1, RequestMaps DEF ExchangeAuthorizationCode
  <2> QED BY <1>2, <2>2, <2>3
<1>3. ASSUME NEW h \in Handlers, NEW c \in Codes, NEW b \in BOOLEAN, InsertCode(h, c, b) PROVE Maps
  BY <1>3, InsertCodeMaps DEF T!TicketNext
<1>4. ASSUME NEW h \in Handlers, GateIssuance(h) PROVE Maps
  <2>1. req[h] \in Creating /\ UNCHANGED <<codes, minted>>
    BY <1>4, RequestFields DEF IInv, GateIssuance, stores
  <2>2. [req[h] EXCEPT !.pc = "insert"].pc \notin Redeeming
    BY <2>1, CreatingFields DEF Redeeming
  <2> QED BY <1>4, <2>1, <2>2, RequestMaps, IdleMaps DEF GateIssuance, Advance
<1>5. ASSUME NEW h \in Handlers, Authenticate(h) \/ LookUpUser(h) \/ CheckMember(h) PROVE Maps
  <2>1. req[h] \in Exchanging /\ req[h].pc \in Redeeming /\ UNCHANGED <<codes, minted>>
    BY <1>5, RequestFields DEF IInv, Authenticate, LookUpUser, CheckMember, Redeeming, stores
  <2>2. Become(h, Idle) \/ \E pc \in Redeeming : Become(h, [req[h] EXCEPT !.pc = pc])
    BY <1>5 DEF Authenticate, LookUpUser, CheckMember, Advance, Redeeming
  <2>3. \A pc \in Redeeming : [req[h] EXCEPT !.pc = pc].code = req[h].code
    BY <2>1, ExchangingFields DEF Redeeming
  <2> QED BY <2>1, <2>2, <2>3, RequestMaps, IdleMaps
<1>6. ASSUME NEW h \in Handlers, Abort(h) PROVE Maps
  BY <1>6, IdleMaps DEF Abort, stores
<1>7. ASSUME NEW h \in Handlers, ClaimCode(h) \/ IssueTokens(h) PROVE Maps
  BY <1>7, ClaimCodeMaps, IssueTokensMaps
<1>8. ASSUME NEW u \in Users, NEW t \in Tenants, AddMember(u, t) \/ RemoveMember(u, t) PROVE Maps
  BY <1>1, <1>8, LiftMaps DEF AddMember, RemoveMember, stores
<1>9. ASSUME \/ \E i \in Clients, t \in Tenants, b \in BOOLEAN : RegisterClient(i, t, b)
             \/ \E u \in Users : SoftDeleteUser(u) \/ RestoreUser(u) \/ HardDeleteUser(u)
             \/ Tick \/ UNCHANGED vars
      PROVE  Maps
  BY <1>1, <1>9, LiftMaps DEF RegisterClient, SoftDeleteUser, RestoreUser, HardDeleteUser, Tick, vars, stores
<1> HIDE DEF Maps
<1>10. ASSUME Next PROVE Maps
  BY <1>2, <1>3, <1>4, <1>5, <1>6, <1>7, <1>8, <1>9, <1>10 DEF Next
<1> QED BY <1>9, <1>10 DEF Maps

(* Authorization codes implement single-use tickets: an exchange that      *)
(* takes a code is the only one to take it, and stores tokens for it at    *)
(* most once.                                                              *)
THEOREM CodesAreTickets == Spec => ImplementsTicket
<1>1. IInv /\ Single /\ [Next]_vars => Single' /\ [T!TicketNext]_(T!ticketVars)
  BY StepMaps, SingleKept DEF Same, T!ticketVars
<1> QED BY <1>1, InitMaps, InitIInv, NextStep, PTL DEF Spec, ImplementsTicket, T!TicketSpec

(* Tokens are stored at most once for a code, and two exchanges never have *)
(* the same code between them.                                             *)
THEOREM CodesHonouredOnce == Spec => []Single
BY StepMaps, SingleKept, InitMaps, InitIInv, NextStep, PTL DEF Spec
=============================================================================
