---------------------------- MODULE AccessTokens ----------------------------
(***************************************************************************)
(* Access tokens from Issue to expiry: the denylist in Postgres, its       *)
(* mirror in Redis, and ValidateToken, which every authenticated call of   *)
(* the platform goes through.                                              *)
(*                                                                         *)
(* The tokens are those of one user in one tenant.  A replica has a Redis  *)
(* client only if Redis answered its ping at boot; with a client it        *)
(* believes Redis and asks Postgres only when Redis fails.  A token parses *)
(* until Leeway after its expiry, its Redis key lives until its expiry.    *)
(* Redis is assumed to keep a key until its time-to-live is over.          *)
(***************************************************************************)
EXTENDS Naturals

CONSTANTS
  Tokens,     \* jti of the access tokens that can be issued; bounds the model
  Replicas,   \* processes of the service
  Handlers,   \* concurrently running requests, over all replicas
  RedisURL,   \* is REDIS_URL set?
  AccessTTL,  \* lifetime of an access token
  Leeway,     \* clockSkewLeeway
  MaxTime     \* bound on the clock

ASSUME AccessTokensAssumption ==
  /\ RedisURL \in BOOLEAN
  /\ AccessTTL \in Nat \ {0}
  /\ Leeway \in Nat
  /\ MaxTime \in Nat \ {0}

VARIABLES
  now,             \* wall clock
  exp,             \* expiry, on the tokens that were issued
  revoked_tokens,  \* the Postgres denylist; rows are never purged
  denylist,        \* Redis: when the key of a token expires; 0 = never set
  redisUp,         \* does Redis answer?
  client,          \* client[r]: replica r has a Redis client (c.rdb # nil)
  active,          \* the user exists and has no deleted_at
  member,          \* the user has an active membership in an active tenant
  req,             \* req[h]: the request running in h
  (* History. *)
  answered,        \* tokens of the Logouts that were answered
  settled          \* tokens that a Logout wrote to both denylists

stores == <<exp, revoked_tokens, denylist, answered, settled>>
redis == <<redisUp, client>>
standing == <<active, member>>
vars == <<now, stores, redis, standing, req>>

(* Reasons to refuse a token.  A validation remembers those that held when *)
(* it started and have held ever since.                                    *)
Reason == {"recorded", "settled", "deleted", "removed"}

Idle == [pc |-> "idle"]
LoggingOut == [pc : {"record", "mirror"}, jti : Tokens, at : Replicas]
Validating == [pc : {"denylist", "user", "member", "accepted"}, jti : Tokens, at : Replicas,
               barred : SUBSET Reason]
Request == {Idle} \cup LoggingOut \cup Validating

Issued == DOMAIN exp

TypeOK ==
  /\ now \in Nat \ {0}
  /\ Issued \subseteq Tokens
  /\ exp \in [Issued -> Nat]
  /\ revoked_tokens \subseteq Issued
  /\ denylist \in [Tokens -> Nat]
  /\ redisUp \in BOOLEAN /\ active \in BOOLEAN /\ member \in BOOLEAN
  /\ client \in [Replicas -> BOOLEAN]
  /\ req \in [Handlers -> Request]
  /\ answered \subseteq Issued
  /\ settled \subseteq Issued

-----------------------------------------------------------------------------
(* jwt.Parse accepts the token. *)
Parses(j) == j \in Issued /\ now < exp[j] + Leeway

(* Redis is asked and answers. *)
AsksRedis(r) == client[r] /\ redisUp

(* Faulty variant, for NoStaleAcceptance: a Redis error counts as "not     *)
(* denied", Postgres is not asked.                                         *)
FaultyFailOpen(r, j) == AsksRedis(r) /\ now < denylist[j]

(* Faulty variant, for DurableDenylistHonored: no Postgres fallback on a   *)
(* replica without a Redis client.                                         *)
FaultyRedisOnly(r, j) == client[r] /\ now < denylist[j]

(* The verdict of the denylist on replica r. *)
Denied(r, j) == IF AsksRedis(r) THEN now < denylist[j] ELSE j \in revoked_tokens

Become(h, r) == req' = [req EXCEPT ![h] = r]

Lift(reason) ==
  req' = [h \in Handlers |-> IF req[h] \in Validating
                               THEN [req[h] EXCEPT !.barred = @ \ {reason}]
                               ELSE req[h]]

Init ==
  /\ now = 1
  /\ exp = [j \in {} |-> 0]
  /\ revoked_tokens = {}
  /\ denylist = [j \in Tokens |-> 0]
  /\ redisUp \in BOOLEAN
  /\ client = [r \in Replicas |-> RedisURL /\ redisUp]
  /\ active = TRUE
  /\ member = TRUE
  /\ req = [h \in Handlers |-> Idle]
  /\ answered = {}
  /\ settled = {}

-----------------------------------------------------------------------------
(* issueTokens signs a token; Refresh reaches it without looking at the    *)
(* membership or at deleted_at, so neither is a guard.                     *)
Issue(j) ==
  /\ j \notin Issued
  /\ exp' = [i \in Issued \cup {j} |-> IF i = j THEN now + AccessTTL ELSE exp[i]]
  /\ UNCHANGED <<now, revoked_tokens, denylist, req, answered, settled, standing, redis>>

(* Faulty variant, for TypeOK: the claims are read without verification. *)
FaultyUnverified(h, r, j) ==
  /\ req[h] = Idle
  /\ Become(h, [pc |-> "record", jti |-> j, at |-> r])
  /\ UNCHANGED <<now, stores, standing, redis>>

(* Logout, once the refresh token is revoked, with an access token that    *)
(* still parses.                                                           *)
Logout(h, r, j) ==
  /\ req[h] = Idle
  /\ Parses(j)
  /\ Become(h, [pc |-> "record", jti |-> j, at |-> r])
  /\ UNCHANGED <<now, stores, standing, redis>>

(* The insert into revoked_tokens; its error is ignored. *)
RevokeAccessJTI(h) ==
  /\ req[h].pc = "record"
  /\ revoked_tokens' \in {revoked_tokens, revoked_tokens \cup {req[h].jti}}
  /\ Become(h, [req[h] EXCEPT !.pc = "mirror"])
  /\ UNCHANGED <<now, exp, denylist, answered, settled, standing, redis>>

(* Deny: no client, no time left or a failing SET mean no key. *)
Deny(h) ==
  LET j == req[h].jti
      written == AsksRedis(req[h].at) /\ now < exp[j]
  IN
  /\ req[h].pc = "mirror"
  /\ denylist' = IF written THEN [denylist EXCEPT ![j] = exp[j]] ELSE denylist
  /\ answered' = answered \cup {j}
  /\ settled' = IF written /\ j \in revoked_tokens THEN settled \cup {j} ELSE settled
  /\ Become(h, Idle)
  /\ UNCHANGED <<now, exp, revoked_tokens, standing, redis>>

-----------------------------------------------------------------------------
(* ValidateToken: ParseAccess, then one read after the other. *)
ValidateToken(h, r, j) ==
  /\ req[h] = Idle
  /\ Parses(j)
  /\ Become(h, [pc |-> "denylist", jti |-> j, at |-> r,
                barred |-> {x \in Reason : \/ x = "recorded" /\ j \in revoked_tokens \cap answered
                                           \/ x = "settled" /\ j \in settled
                                           \/ x = "deleted" /\ ~active
                                           \/ x = "removed" /\ ~member}])
  /\ UNCHANGED <<now, stores, standing, redis>>

(* One check of a running validation: refused or on to the next. *)
Check(h, pc, ok, next) ==
  /\ req[h].pc = pc
  /\ Become(h, IF ok THEN [req[h] EXCEPT !.pc = next] ELSE Idle)
  /\ UNCHANGED <<now, stores, standing, redis>>

IsDenied(h) == Check(h, "denylist", ~Denied(req[h].at, req[h].jti), "user")

IsUserActive(h) == Check(h, "user", active, "member")

IsActiveMember(h) == Check(h, "member", member, "accepted")

(* The answer goes out, or the request ends early. *)
Finish(h) ==
  /\ req[h] # Idle
  /\ Become(h, Idle)
  /\ UNCHANGED <<now, stores, standing, redis>>

-----------------------------------------------------------------------------
(* Environment: what other handlers do to the user and the membership,     *)
(* Redis, restarts and the clock.                                          *)
SoftDeleteUser ==
  /\ active' = FALSE
  /\ UNCHANGED <<now, member, req, stores, redis>>

RestoreUser ==
  /\ active' = TRUE
  /\ Lift("deleted")
  /\ UNCHANGED <<now, member, stores, redis>>

RemoveMember ==
  /\ member' = FALSE
  /\ UNCHANGED <<now, active, req, stores, redis>>

AddMember ==
  /\ member' = TRUE
  /\ Lift("removed")
  /\ UNCHANGED <<now, active, stores, redis>>

(* Redis becomes reachable or unreachable. *)
RedisFlips ==
  /\ redisUp' = ~redisUp
  /\ UNCHANGED <<now, client, req, stores, standing>>

(* A replica is restarted; it pings Redis once and loses its requests. *)
Boot(r) ==
  /\ client' = [client EXCEPT ![r] = RedisURL /\ redisUp]
  /\ req' = [h \in Handlers |-> IF req[h] # Idle /\ req[h].at = r THEN Idle ELSE req[h]]
  /\ UNCHANGED <<now, redisUp, stores, standing>>

Tick ==
  /\ now < MaxTime
  /\ now' = now + 1
  /\ UNCHANGED <<req, stores, standing, redis>>

Next ==
  \/ \E j \in Tokens : Issue(j)
  \/ \E h \in Handlers, r \in Replicas, j \in Tokens : Logout(h, r, j) \/ ValidateToken(h, r, j)
  \/ \E h \in Handlers : RevokeAccessJTI(h) \/ Deny(h)
  \/ \E h \in Handlers : IsDenied(h) \/ IsUserActive(h) \/ IsActiveMember(h) \/ Finish(h)
  \/ SoftDeleteUser \/ RestoreUser \/ RemoveMember \/ AddMember
  \/ RedisFlips \/ Tick
  \/ \E r \in Replicas : Boot(r)

Spec == Init /\ [][Next]_vars

-----------------------------------------------------------------------------
(* A validation that started after the user was deleted, after the         *)
(* membership was removed, or after a logout reached both denylists, and   *)
(* saw none of that undone, is refused, whatever replica runs it, whether  *)
(* or not that replica has a Redis client and however Redis fails          *)
(* meanwhile.  For the logout this holds until the token expires.          *)
NoStaleAcceptance ==
  \A h \in Handlers :
    req[h].pc = "accepted" =>
      /\ "deleted" \notin req[h].barred
      /\ "removed" \notin req[h].barred
      /\ "settled" \in req[h].barred => exp[req[h].jti] <= now

(* Once Logout was answered and its row is in the durable denylist, every  *)
(* replica without a Redis client refuses the token, for good.             *)
DurableDenylistHonored ==
  \A h \in Handlers :
    req[h].pc = "accepted" /\ "recorded" \in req[h].barred => client[req[h].at]
=============================================================================
