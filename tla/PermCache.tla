----------------------------- MODULE PermCache -----------------------------
(***************************************************************************)
(* The permission cache: what ValidateToken reads through Redis, and the   *)
(* role changes that do or do not invalidate it.                           *)
(*                                                                         *)
(* The permissions are those of one user.  A cache key stands for the      *)
(* tenant and project a token is bound to.  What a role change does to the *)
(* permissions is a matter of the RBAC tables; here it gives or takes a    *)
(* permission under some of the keys.  Every Redis command may fail, which *)
(* covers an unreachable Redis and a replica that has no client.           *)
(***************************************************************************)
EXTENDS Naturals

CONSTANTS
  Keys,      \* (tenant, project) bindings of the user's tokens
  Perms,     \* permissions
  Handlers,  \* concurrently running requests, over all replicas
  TTL,       \* permsTTL
  MaxTime    \* bound on the clock

ASSUME PermCacheAssumption == TTL \in Nat \ {0} /\ MaxTime \in Nat

VARIABLES
  now,        \* wall clock
  held,       \* held[k]: the permissions Postgres yields under k
  cache,      \* Redis: the entries that are there
  req,        \* req[h]: the request running in h
  (* History, of each pair of a key and a permission. *)
  changedAt,  \* when it was last given or taken
  overlapped, \* a validation that had read it before that was yet to store
  dropped     \* an invalidation has completed since

facts == <<changedAt, overlapped, dropped>>
vars == <<now, held, cache, req, facts>>

Pairs == Keys \X Perms

Idle == [pc |-> "idle"]
(* A validation carries the permissions whose value it must report: those  *)
(* that had not changed for a TTL, or not since an invalidation, when it   *)
(* began, and have not changed since.                                      *)
Missing == [pc : {"read"}, key : Keys, aged : SUBSET Perms, fresh : SUBSET Perms]
Knowing == [pc : {"store", "answer"}, key : Keys, perms : SUBSET Perms,
            aged : SUBSET Perms, fresh : SUBSET Perms]
(* An invalidation carries the keys its scan is bound to return and the    *)
(* pairs that have not changed, nor failed to be dropped, since it began.  *)
Sweeping == [pc : {"invalidate", "sweep"}, left : SUBSET Keys, clear : SUBSET Pairs]
Validating == Missing \cup Knowing
Request == {Idle} \cup Validating \cup Sweeping

Entry == [perms : SUBSET Perms, until : Nat]
Cached == DOMAIN cache

TypeOK ==
  /\ now \in Nat
  /\ held \in [Keys -> SUBSET Perms]
  /\ Cached \subseteq Keys
  /\ cache \in [Cached -> Entry]
  /\ req \in [Handlers -> Request]
  /\ changedAt \in [Pairs -> Nat]
  /\ overlapped \subseteq Pairs
  /\ dropped \subseteq Pairs

Become(h, r) == req' = [req EXCEPT ![h] = r]

Init ==
  /\ now = 0
  /\ held \in [Keys -> SUBSET Perms]
  /\ cache = [k \in {} |-> 0]
  /\ req = [h \in Handlers |-> Idle]
  /\ changedAt = [x \in Pairs |-> 0]
  /\ overlapped = {}
  /\ dropped = Pairs

-----------------------------------------------------------------------------
(* The Redis keyspace. *)

(* Faulty variant, for TypeOK: the key names the user only.                *)
FaultyKey(k) == "user"

(* permsKey: the key of an entry is the binding of the token. *)
permsKey(k) == k

Without(K) == [k \in Cached \ K |-> cache[k]]

(* A scan need not return a key that was away for a moment. *)
Miss(r, K) == IF r \in Sweeping THEN [r EXCEPT !.left = @ \ K] ELSE r

-----------------------------------------------------------------------------
(* ValidateToken, from the permission cache on. *)

Began(k) ==
  [aged |-> {p \in Perms : <<k, p>> \notin overlapped /\ changedAt[<<k, p>>] + TTL <= now},
   fresh |-> {p \in Perms : <<k, p>> \in dropped \ overlapped}]

(* Faulty variant, for WithinTTL: a hit renews the entry.                  *)
FaultyHit(h, k) ==
  /\ req[h] = Idle
  /\ permsKey(k) \in Cached
  /\ cache' = [cache EXCEPT ![permsKey(k)].until = now + TTL]
  /\ Become(h, [pc |-> "answer", key |-> k, perms |-> cache[permsKey(k)].perms,
                aged |-> Began(k).aged, fresh |-> Began(k).fresh])
  /\ UNCHANGED <<now, held, facts>>

(* GetPerms finds an entry. *)
Hit(h, k) ==
  /\ req[h] = Idle
  /\ permsKey(k) \in Cached
  /\ Become(h, [pc |-> "answer", key |-> k, perms |-> cache[permsKey(k)].perms,
                aged |-> Began(k).aged, fresh |-> Began(k).fresh])
  /\ UNCHANGED <<now, held, cache, facts>>

(* GetPerms finds none, or fails. *)
GoToPostgres(h, k) ==
  /\ req[h] = Idle
  /\ Become(h, [pc |-> "read", key |-> k, aged |-> Began(k).aged, fresh |-> Began(k).fresh])
  /\ UNCHANGED <<now, held, cache, facts>>

GetUserPermissionsScoped(h) ==
  LET r == req[h] IN
  /\ r.pc = "read"
  /\ Become(h, [pc |-> "store", key |-> r.key, perms |-> held[r.key],
                aged |-> r.aged, fresh |-> r.fresh])
  /\ UNCHANGED <<now, held, cache, facts>>

(* The SET, whose error is ignored. *)
SetPerms(h) ==
  LET k == permsKey(req[h].key) IN
  /\ req[h].pc = "store"
  /\ \/ cache' = [x \in Cached \cup {k} |->
                    IF x = k THEN [perms |-> req[h].perms, until |-> now + TTL] ELSE cache[x]]
     \/ UNCHANGED cache
  /\ Become(h, [req[h] EXCEPT !.pc = "answer"])
  /\ UNCHANGED <<now, held, facts>>

(* The answer goes out, or any request ends early: a crash, a scan that    *)
(* fails.                                                                  *)
Finish(h) ==
  /\ req[h] # Idle
  /\ Become(h, Idle)
  /\ UNCHANGED <<now, held, cache, facts>>

-----------------------------------------------------------------------------
(* Role changes.  Those that turn the permissions into "after" change the  *)
(* pairs in Changed(after).                                                *)
Changed(after) == {x \in Pairs : (x[2] \in held[x[1]]) # (x[2] \in after[x[1]])}

(* A validation has read the value the pair is about to lose, and has yet  *)
(* to store it.                                                            *)
Straddled(x) ==
  \E h \in Handlers :
    /\ req[h].pc = "store" /\ req[h].key = x[1]
    /\ (x[2] \in req[h].perms <=> x[2] \in held[x[1]])

Doubt(r, D) ==
  IF r \in Validating
    THEN [r EXCEPT !.aged = {p \in @ : <<r.key, p>> \notin D},
                   !.fresh = {p \in @ : <<r.key, p>> \notin D}]
  ELSE IF r \in Sweeping THEN [r EXCEPT !.clear = @ \ D]
  ELSE r

(* The commit, in one transaction under withTenant. *)
Commit(after) ==
  LET D == Changed(after) IN
  /\ held' = after
  /\ changedAt' = [x \in Pairs |-> IF x \in D THEN now ELSE changedAt[x]]
  /\ overlapped' = (overlapped \ D) \cup {x \in D : Straddled(x)}
  /\ dropped' = dropped \ D
  /\ UNCHANGED <<now, cache>>

Gain(after) == \A k \in Keys : held[k] \subseteq after[k]
Loss(after) == \A k \in Keys : after[k] \subseteq held[k]

(* AssignRole, AssignRoleBulk for one of its users, RevokeRole. *)
CommitThenInvalidate(h, after) ==
  /\ req[h] = Idle
  /\ Commit(after)
  /\ req' = [i \in Handlers |->
               IF i = h THEN [pc |-> "invalidate", left |-> {}, clear |-> Pairs]
                        ELSE Doubt(req[i], Changed(after))]

AssignRole(h, after) == Gain(after) /\ CommitThenInvalidate(h, after)

RevokeRole(h, after) == Loss(after) /\ CommitThenInvalidate(h, after)

(* GrantPermission, RevokePermission and DeleteRole invalidate nothing. *)
CommitOnly(after) ==
  /\ Commit(after)
  /\ req' = [i \in Handlers |-> Doubt(req[i], Changed(after))]

GrantPermission(after) == Gain(after) /\ CommitOnly(after)

RevokePermission(after) == Loss(after) /\ CommitOnly(after)

(* InvalidatePerms: the scan starts, visits page by page, ends.            *)
InvalidatePerms(h) ==
  /\ req[h].pc = "invalidate"
  /\ Become(h, [req[h] EXCEPT !.pc = "sweep", !.left = Cached])
  /\ UNCHANGED <<now, held, cache, facts>>

(* A page of keys is returned and deleted; the error of the DEL is ignored. *)
Sweep(h, page) ==
  /\ req[h].pc = "sweep"
  /\ page # {}
  /\ \/ /\ cache' = Without(page)
        /\ req' = [i \in Handlers |-> Miss(req[i], page)]
     \/ /\ Become(h, [req[h] EXCEPT !.left = @ \ page, !.clear = @ \ (page \X Perms)])
        /\ UNCHANGED cache
  /\ UNCHANGED <<now, held, facts>>

(* Faulty variant, for AfterInvalidation: the cursor is ignored, one page  *)
(* is all.                                                                 *)
FaultySwept(h) ==
  /\ req[h].pc = "sweep"
  /\ dropped' = dropped \cup req[h].clear
  /\ Become(h, Idle)
  /\ UNCHANGED <<now, held, cache, changedAt, overlapped>>

Swept(h) ==
  /\ req[h].pc = "sweep"
  /\ req[h].left = {}
  /\ dropped' = dropped \cup req[h].clear
  /\ Become(h, Idle)
  /\ UNCHANGED <<now, held, cache, changedAt, overlapped>>

(* Time passes, and Redis drops the entries whose time is up. *)
Tick ==
  LET over == {k \in Cached : cache[k].until <= now'} IN
  /\ now < MaxTime
  /\ now' = now + 1
  /\ cache' = Without(over)
  /\ req' = [h \in Handlers |-> Miss(req[h], over)]
  /\ UNCHANGED <<held, facts>>

Next ==
  \/ \E h \in Handlers, k \in Keys : Hit(h, k) \/ GoToPostgres(h, k)
  \/ \E h \in Handlers : GetUserPermissionsScoped(h) \/ SetPerms(h) \/ Finish(h)
  \/ \E h \in Handlers, after \in [Keys -> SUBSET Perms] : AssignRole(h, after) \/ RevokeRole(h, after)
  \/ \E after \in [Keys -> SUBSET Perms] : GrantPermission(after) \/ RevokePermission(after)
  \/ \E h \in Handlers : InvalidatePerms(h) \/ Swept(h)
  \/ \E h \in Handlers, page \in SUBSET Keys : Sweep(h, page)
  \/ Tick

Spec == Init /\ [][Next]_vars

-----------------------------------------------------------------------------
(* The answer that is about to go out agrees with Postgres on p. *)
Agrees(h, p) == (p \in req[h].perms) = (p \in held[req[h].key])

(* permsTTL bounds the staleness of every role change, also of those that  *)
(* do not invalidate: a validation that begins a TTL or more after the     *)
(* last change of a permission reports its present value, unless another   *)
(* validation held the old value across the change and stored it late.     *)
WithinTTL ==
  \A h \in Handlers : req[h].pc = "answer" => \A p \in req[h].aged : Agrees(h, p)

(* InvalidatePerms "drops ALL of a user's cached permission entries ...    *)
(* after a role change": once an invalidation that followed the change is  *)
(* complete, and no DEL of it failed, every validation that begins reports *)
(* the present value, with the same exception.                             *)
AfterInvalidation ==
  \A h \in Handlers : req[h].pc = "answer" => \A p \in req[h].fresh : Agrees(h, p)
=============================================================================
