-------------------------- MODULE PermCacheProofs --------------------------
(* Theorems about PermCache, for every value of its constants. *)
EXTENDS PermCache, TLAPS

(* The program counter of a request tells its kind. *)
LEMMA RequestFields ==
  ASSUME NEW r \in Request
  PROVE  /\ r.pc = "idle" <=> r = Idle
         /\ r.pc = "read" <=> r \in Missing
         /\ r.pc \in {"store", "answer"} <=> r \in Knowing
         /\ r.pc \in {"read", "store", "answer"} <=> r \in Validating
         /\ r.pc \in {"invalidate", "sweep"} <=> r \in Sweeping
BY DEF Request, Idle, Validating, Missing, Knowing, Sweeping

(* A role change takes from a request only what it must no longer report   *)
(* or clear.                                                               *)
LEMMA DoubtFields ==
  ASSUME NEW r \in Request, NEW D
  PROVE  /\ Doubt(r, D) \in Request
         /\ Doubt(r, D).pc = r.pc
         /\ r \in Validating => /\ Doubt(r, D).key = r.key
                                /\ Doubt(r, D).aged = {p \in r.aged : <<r.key, p>> \notin D}
                                /\ Doubt(r, D).fresh = {p \in r.fresh : <<r.key, p>> \notin D}
         /\ r \in Knowing => Doubt(r, D).perms = r.perms
         /\ r \in Sweeping => Doubt(r, D).left = r.left /\ Doubt(r, D).clear = r.clear \ D
<1>1. CASE r \in Missing
  BY <1>1 DEF Doubt, Request, Validating, Missing, Knowing, Sweeping
<1>2. CASE r \in Knowing
  BY <1>2 DEF Doubt, Request, Validating, Missing, Knowing, Sweeping
<1>3. CASE r \in Sweeping
  BY <1>3 DEF Doubt, Request, Validating, Missing, Knowing, Sweeping
<1>4. CASE r = Idle
  BY <1>4 DEF Doubt, Request, Validating, Missing, Knowing, Sweeping, Idle
<1> QED BY <1>1, <1>2, <1>3, <1>4 DEF Request, Validating

(* A fill takes from a scan only the keys it may miss. *)
LEMMA MissFields ==
  ASSUME NEW r \in Request, NEW K
  PROVE  /\ Miss(r, K) \in Request
         /\ Miss(r, K).pc = r.pc
         /\ r \in Sweeping => Miss(r, K).left = r.left \ K /\ Miss(r, K).clear = r.clear
         /\ r \notin Sweeping => Miss(r, K) = r
BY DEF Miss, Request, Validating, Missing, Knowing, Sweeping

(* A validation that goes on to its answer keeps what it read. *)
LEMMA AnswerFields ==
  ASSUME NEW r \in Knowing
  PROVE  /\ [r EXCEPT !.pc = "answer"] \in Knowing
         /\ [r EXCEPT !.pc = "answer"].pc = "answer"
         /\ [r EXCEPT !.pc = "answer"].key = r.key
         /\ [r EXCEPT !.pc = "answer"].perms = r.perms
         /\ [r EXCEPT !.pc = "answer"].aged = r.aged
         /\ [r EXCEPT !.pc = "answer"].fresh = r.fresh
BY DEF Knowing

(* A page visited changes only what a scan has left and cleared. *)
LEMMA SweepFields ==
  ASSUME NEW r \in Sweeping, NEW page, NEW P
  PROVE  /\ [r EXCEPT !.left = @ \ page, !.clear = @ \ P] \in Sweeping
         /\ [r EXCEPT !.left = @ \ page, !.clear = @ \ P].pc = r.pc
         /\ [r EXCEPT !.left = @ \ page, !.clear = @ \ P].left = r.left \ page
         /\ [r EXCEPT !.left = @ \ page, !.clear = @ \ P].clear = r.clear \ P
BY DEF Sweeping

(* What a validation must report is a set of permissions. *)
LEMMA BeganTyped ==
  ASSUME NEW k \in Keys
  PROVE  Began(k).aged \in SUBSET Perms /\ Began(k).fresh \in SUBSET Perms
BY DEF Began

-----------------------------------------------------------------------------
(* Every action yields the types. *)

LEMMA SweepTyped ==
  ASSUME TypeOK, NEW h \in Handlers, NEW page \in SUBSET Keys, Sweep(h, page)
  PROVE  TypeOK'
<1> USE DEF TypeOK, facts, Cached
<1>1. CASE cache' = Without(page) /\ req' = [i \in Handlers |-> Miss(req[i], page)]
  BY <1>1, MissFields DEF Sweep, Without
<1>2. CASE UNCHANGED cache
           /\ Become(h, [req[h] EXCEPT !.left = @ \ page, !.clear = @ \ (page \X Perms)])
  <2>1. req[h] \in Sweeping
    BY RequestFields DEF Sweep
  <2>2. [req[h] EXCEPT !.left = @ \ page, !.clear = @ \ (page \X Perms)] \in Request
    BY <2>1, SweepFields DEF Request
  <2> QED BY <1>2, <2>2 DEF Sweep, Become
<1> QED BY <1>1, <1>2 DEF Sweep

(* A role change keeps the types. *)
LEMMA CommitTyped ==
  ASSUME TypeOK, NEW after \in [Keys -> SUBSET Perms], Commit(after),
         req' \in [Handlers -> Request]
  PROVE  TypeOK'
<1>1. Changed(after) \subseteq Pairs
  BY DEF Changed
<1>2. overlapped' \subseteq Pairs
  BY <1>1 DEF Commit, TypeOK
<1>3. dropped' \subseteq Pairs
  BY DEF Commit, TypeOK
<1>4. changedAt' \in [Pairs -> Nat]
  BY DEF Commit, TypeOK
<1> QED BY <1>2, <1>3, <1>4 DEF Commit, TypeOK, Cached

(* Every step keeps the types. *)
LEMMA TypeStep == TypeOK /\ [Next]_vars => TypeOK'
<1> SUFFICES ASSUME TypeOK, [Next]_vars PROVE TypeOK'
  OBVIOUS
<1> USE DEF TypeOK, facts, Cached
<1>1. ASSUME NEW h \in Handlers, NEW k \in Keys, Hit(h, k) PROVE TypeOK'
  <2>1. cache[k].perms \in SUBSET Perms
    BY <1>1 DEF Hit, permsKey, Entry
  <2>2. [pc |-> "answer", key |-> k, perms |-> cache[permsKey(k)].perms,
         aged |-> Began(k).aged, fresh |-> Began(k).fresh] \in Request
    BY <2>1, BeganTyped DEF permsKey, Request, Validating, Knowing
  <2> QED BY <1>1, <2>2 DEF Hit, Become
<1>2. ASSUME NEW h \in Handlers, NEW k \in Keys, GoToPostgres(h, k) PROVE TypeOK'
  <2>1. [pc |-> "read", key |-> k, aged |-> Began(k).aged, fresh |-> Began(k).fresh] \in Request
    BY BeganTyped DEF Request, Validating, Missing
  <2> QED BY <1>2, <2>1 DEF GoToPostgres, Become
<1>3. ASSUME NEW h \in Handlers, GetUserPermissionsScoped(h) PROVE TypeOK'
  <2>1. req[h] \in Missing
    BY <1>3, RequestFields DEF GetUserPermissionsScoped
  <2>2. [pc |-> "store", key |-> req[h].key, perms |-> held[req[h].key],
         aged |-> req[h].aged, fresh |-> req[h].fresh] \in Request
    BY <2>1 DEF Request, Validating, Missing, Knowing
  <2> QED BY <1>3, <2>2 DEF GetUserPermissionsScoped, Become
<1>4. ASSUME NEW h \in Handlers, SetPerms(h) PROVE TypeOK'
  <2>1. req[h] \in Knowing
    BY <1>4, RequestFields DEF SetPerms
  <2>2. [req[h] EXCEPT !.pc = "answer"] \in Request
    BY <2>1, AnswerFields DEF Request, Validating
  <2>3. req[h].key \in Keys /\ [perms |-> req[h].perms, until |-> now + TTL] \in Entry
    BY <2>1, PermCacheAssumption DEF Knowing, Entry
  <2>4. Cached' \subseteq Keys /\ cache' \in [Cached' -> Entry]
    BY <1>4, <2>3 DEF SetPerms, permsKey
  <2> QED BY <1>4, <2>2, <2>4 DEF SetPerms, Become
<1>5. ASSUME NEW h \in Handlers, Finish(h) PROVE TypeOK'
  BY <1>5 DEF Finish, Become, Request
<1>6. ASSUME NEW h \in Handlers, NEW after \in [Keys -> SUBSET Perms], CommitThenInvalidate(h, after)
      PROVE TypeOK'
  <2>1. [pc |-> "invalidate", left |-> {}, clear |-> Pairs] \in Request
    BY DEF Request, Sweeping
  <2>2. req' \in [Handlers -> Request]
    BY <1>6, <2>1, DoubtFields DEF CommitThenInvalidate
  <2> QED BY <1>6, <2>2, CommitTyped DEF CommitThenInvalidate
<1>7. ASSUME NEW after \in [Keys -> SUBSET Perms], CommitOnly(after) PROVE TypeOK'
  <2>1. req' \in [Handlers -> Request]
    BY <1>7, DoubtFields DEF CommitOnly
  <2> QED BY <1>7, <2>1, CommitTyped DEF CommitOnly
<1>8. ASSUME NEW h \in Handlers, InvalidatePerms(h) PROVE TypeOK'
  <2>1. req[h] \in Sweeping
    BY <1>8, RequestFields DEF InvalidatePerms
  <2>2. [req[h] EXCEPT !.pc = "sweep", !.left = Cached] \in Request
    BY <2>1 DEF Request, Sweeping
  <2> QED BY <1>8, <2>2 DEF InvalidatePerms, Become
<1>9. ASSUME NEW h \in Handlers, NEW page \in SUBSET Keys, Sweep(h, page) PROVE TypeOK'
  BY <1>9, SweepTyped
<1>10. ASSUME NEW h \in Handlers, Swept(h) PROVE TypeOK'
  <2>1. req[h] \in Sweeping
    BY <1>10, RequestFields DEF Swept
  <2> QED BY <1>10, <2>1 DEF Swept, Become, Request, Sweeping
<1>11. CASE Tick
  BY <1>11, MissFields DEF Tick, Without
<1>12. CASE UNCHANGED vars
  BY <1>12 DEF vars
<1>13. CASE Next
  <2> HIDE DEF TypeOK, facts, Cached
  <2> QED BY <1>1, <1>2, <1>3, <1>4, <1>5, <1>6, <1>7, <1>8, <1>9, <1>10, <1>11, <1>13
          DEF Next, AssignRole, RevokeRole, GrantPermission, RevokePermission
<1> QED BY <1>12, <1>13

(* No state ever leaves the types. *)
THEOREM TypeCorrect == Spec => []TypeOK
<1>1. Init => TypeOK
  BY DEF Init, TypeOK, Request, Cached
<1> QED BY <1>1, TypeStep, PTL DEF Spec

-----------------------------------------------------------------------------
(* A value somebody holds for key k agrees with Postgres on permission p. *)
Right(perms, k, p) == p \in perms <=> p \in held[k]

(* An entry lives at most a time-to-live more; and it is right about a     *)
(* permission, unless a validation straddled the last change, or the       *)
(* change is recent and no invalidation has completed since.               *)
EntrySound(k) ==
  /\ now < cache[k].until
  /\ cache[k].until <= now + TTL
  /\ \A p \in Perms :
       \/ Right(cache[k].perms, k, p)
       \/ <<k, p>> \in overlapped
       \/ cache[k].until <= changedAt[<<k, p>>] + TTL /\ <<k, p>> \notin dropped

CacheSound == \A k \in Cached : EntrySound(k)

(* What a validation must report did not change under it, what it is yet   *)
(* to store is right unless it straddled the change, and what a scan has   *)
(* behind it is right or gone.                                             *)
ReadSound(r) == \A p \in r.aged \cup r.fresh : <<r.key, p>> \notin overlapped
StoreSound(r) == \A p \in Perms : <<r.key, p>> \in overlapped \/ Right(r.perms, r.key, p)
AnswerSound(r) == \A p \in r.aged \cup r.fresh : Right(r.perms, r.key, p)
SweepSound(r) ==
  \A k \in Cached \ r.left : \A p \in Perms :
    <<k, p>> \in r.clear => <<k, p>> \in overlapped \/ Right(cache[k].perms, k, p)

Sound(r) ==
  /\ r.pc \in {"read", "store", "answer"} => ReadSound(r)
  /\ r.pc = "store" => StoreSound(r)
  /\ r.pc = "answer" => AnswerSound(r)
  /\ r.pc = "sweep" => SweepSound(r)

RequestsSound == \A h \in Handlers : Sound(req[h])

IInv == TypeOK /\ CacheSound /\ RequestsSound
-----------------------------------------------------------------------------
(* One request takes a step that leaves Postgres and the cache alone. *)
LEMMA RequestStep ==
  ASSUME TypeOK, RequestsSound, NEW h \in Handlers, NEW q, Become(h, q), Sound(q),
         UNCHANGED <<held, cache, overlapped>>
  PROVE  RequestsSound'
<1> SUFFICES ASSUME NEW g \in Handlers PROVE Sound(req[g])'
  BY DEF RequestsSound
<1> PICK s : s = req'[g]
  OBVIOUS
<1>1. Sound(s)
  BY DEF Become, TypeOK, RequestsSound
<1> QED BY <1>1 DEF Sound, ReadSound, StoreSound, AnswerSound, SweepSound, Right, Cached

(* Entries stay sound if nothing they depend on changes. *)
LEMMA CacheStays ==
  ASSUME CacheSound, UNCHANGED <<now, held, cache, facts>>
  PROVE  CacheSound'
BY DEF CacheSound, EntrySound, Right, Cached, facts

(* What a validation must report is not overlapped. *)
LEMMA BeganSound ==
  ASSUME NEW k \in Keys
  PROVE  \A p \in Began(k).aged \cup Began(k).fresh : <<k, p>> \notin overlapped
BY DEF Began

(* An entry is right about what a validation must report. *)
LEMMA HitSound ==
  ASSUME TypeOK, CacheSound, NEW k \in Cached
  PROVE  \A p \in Began(k).aged \cup Began(k).fresh : Right(cache[k].perms, k, p)
<1> SUFFICES ASSUME NEW p \in Began(k).aged \cup Began(k).fresh PROVE Right(cache[k].perms, k, p)
  OBVIOUS
<1>1. k \in Keys /\ p \in Perms /\ EntrySound(k)
  BY BeganTyped DEF TypeOK, CacheSound
<1>2. cache[k].until \in Nat /\ changedAt[<<k, p>>] \in Nat /\ now \in Nat
  BY <1>1 DEF TypeOK, Entry, Pairs
<1>3. <<k, p>> \notin overlapped
  BY <1>1, BeganSound
<1>4. changedAt[<<k, p>>] + TTL <= now \/ <<k, p>> \in dropped
  BY DEF Began
<1>5. ~(cache[k].until <= changedAt[<<k, p>>] + TTL /\ <<k, p>> \notin dropped)
  BY <1>1, <1>2, <1>4, PermCacheAssumption DEF EntrySound
<1> QED BY <1>1, <1>3, <1>5 DEF EntrySound

(* What a validation stores. *)
LEMMA StoreCacheSound ==
  ASSUME TypeOK, CacheSound, NEW k \in Keys, NEW perms \in SUBSET Perms,
         \A p \in Perms : <<k, p>> \in overlapped \/ Right(perms, k, p),
         cache' = [x \in Cached \cup {k} |->
                     IF x = k THEN [perms |-> perms, until |-> now + TTL] ELSE cache[x]],
         UNCHANGED <<now, held, facts>>
  PROVE  CacheSound'
<1> SUFFICES ASSUME NEW x \in Cached' PROVE EntrySound(x)'
  BY DEF CacheSound
<1>1. CASE x = k
  <2>1. cache'[x].perms = perms /\ cache'[x].until = now + TTL
    BY <1>1 DEF Cached
  <2>2. now < now + TTL /\ now + TTL <= now + TTL
    BY PermCacheAssumption DEF TypeOK
  <2> QED BY <1>1, <2>1, <2>2 DEF EntrySound, Right, facts
<1>2. CASE x # k
  <2>1. x \in Cached /\ cache'[x] = cache[x]
    BY <1>2 DEF Cached
  <2> QED BY <2>1 DEF CacheSound, EntrySound, Right, facts
<1> QED BY <1>1, <1>2

(* A late store leaves the other requests sound. *)
LEMMA StoreRequestsSound ==
  ASSUME TypeOK, RequestsSound, NEW k \in Keys, NEW perms \in SUBSET Perms,
         \A p \in Perms : <<k, p>> \in overlapped \/ Right(perms, k, p),
         cache' = [x \in Cached \cup {k} |->
                     IF x = k THEN [perms |-> perms, until |-> now + TTL] ELSE cache[x]],
         UNCHANGED <<held, overlapped>>,
         NEW r, Sound(r)
  PROVE  Sound(r)'
<1>1. ASSUME SweepSound(r) PROVE SweepSound(r)'
  <2> SUFFICES ASSUME NEW x \in Cached' \ r.left, NEW p \in Perms, <<x, p>> \in r.clear
               PROVE  (<<x, p>> \in overlapped \/ Right(cache[x].perms, x, p))'
    BY DEF SweepSound
  <2>1. CASE x = k
    <3>1. cache'[x].perms = perms
      BY <2>1 DEF Cached
    <3> QED BY <2>1, <3>1 DEF Right
  <2>2. CASE x # k
    <3>1. x \in Cached /\ cache'[x] = cache[x]
      BY <2>2 DEF Cached
    <3> QED BY <1>1, <3>1 DEF SweepSound, Right
  <2> QED BY <2>1, <2>2
<1> QED BY <1>1 DEF Sound, ReadSound, StoreSound, AnswerSound, Right

(* SetPerms keeps the cache and the requests sound. *)
LEMMA SetPermsKeeps ==
  ASSUME IInv, NEW h \in Handlers, SetPerms(h)
  PROVE  CacheSound' /\ RequestsSound'
<1> DEFINE r == req[h]
<1>1. r \in Knowing /\ r.pc = "store" /\ Sound(r) /\ r.key \in Keys /\ r.perms \in SUBSET Perms
  BY RequestFields DEF SetPerms, IInv, TypeOK, RequestsSound, Knowing
<1>2. StoreSound(r) /\ ReadSound(r)
  BY <1>1 DEF Sound
<1> PICK q : q = [r EXCEPT !.pc = "answer"]
  OBVIOUS
<1>3. q.pc = "answer" /\ q.key = r.key /\ q.perms = r.perms /\ q.aged = r.aged /\ q.fresh = r.fresh
  BY <1>1, AnswerFields
<1>4. q.aged \cup q.fresh \subseteq Perms
  BY <1>1, <1>3 DEF Knowing
<1>5. Sound(q)
  BY <1>2, <1>3, <1>4 DEF Sound, ReadSound, StoreSound, AnswerSound
<1>6. Become(h, q) /\ UNCHANGED <<now, held, facts, overlapped>>
  BY DEF SetPerms, facts
<1>7. CASE UNCHANGED cache
  BY <1>5, <1>6, <1>7, RequestStep, CacheStays DEF IInv
<1>8. CASE cache' = [x \in Cached \cup {r.key} |->
                       IF x = r.key THEN [perms |-> r.perms, until |-> now + TTL] ELSE cache[x]]
  <2> PICK k \in Keys, perms \in SUBSET Perms : k = r.key /\ perms = r.perms
    BY <1>1
  <2>1. \A p \in Perms : <<k, p>> \in overlapped \/ Right(perms, k, p)
    BY <1>2 DEF StoreSound
  <2>2. cache' = [x \in Cached \cup {k} |->
                    IF x = k THEN [perms |-> perms, until |-> now + TTL] ELSE cache[x]]
    BY <1>8
  <2>3. CacheSound'
    BY <1>6, <2>1, <2>2, StoreCacheSound DEF IInv
  <2>4. ASSUME NEW s, Sound(s) PROVE Sound(s)'
    BY <1>6, <2>1, <2>2, <2>4, StoreRequestsSound DEF IInv
  <2>5. ASSUME NEW g \in Handlers PROVE Sound(req[g])'
    <3> PICK s : s = req'[g]
      OBVIOUS
    <3>1. Sound(s)
      BY <1>5, <1>6 DEF Become, IInv, TypeOK, RequestsSound
    <3>2. Sound(s)'
      BY <3>1, <2>4
    <3> QED BY <3>2 DEF Sound, ReadSound, StoreSound, AnswerSound, SweepSound, Right
  <2> QED BY <2>3, <2>5 DEF RequestsSound
<1> QED BY <1>7, <1>8 DEF SetPerms, permsKey

-----------------------------------------------------------------------------
(* What a commit does to a pair, changed or not. *)
LEMMA CommitFacts ==
  ASSUME TypeOK, NEW after \in [Keys -> SUBSET Perms], Commit(after), NEW k \in Keys, NEW p \in Perms
  PROVE  /\ <<k, p>> \notin Changed(after) =>
              /\ p \in held'[k] <=> p \in held[k]
              /\ <<k, p>> \in overlapped' <=> <<k, p>> \in overlapped
              /\ <<k, p>> \in dropped' <=> <<k, p>> \in dropped
              /\ changedAt'[<<k, p>>] = changedAt[<<k, p>>]
         /\ <<k, p>> \in Changed(after) =>
              /\ p \in held'[k] <=> p \notin held[k]
              /\ <<k, p>> \in overlapped' <=> Straddled(<<k, p>>)
              /\ <<k, p>> \notin dropped'
              /\ changedAt'[<<k, p>>] = now
BY DEF Commit, Changed, Pairs, TypeOK

(* A role change makes entries old, not unsound. *)
LEMMA CommitCacheSound ==
  ASSUME IInv, NEW after \in [Keys -> SUBSET Perms], Commit(after)
  PROVE  CacheSound'
<1> SUFFICES ASSUME NEW k \in Cached PROVE EntrySound(k)'
  BY DEF CacheSound, Commit, Cached
<1>1. k \in Keys /\ EntrySound(k) /\ UNCHANGED <<now, cache>>
  BY DEF IInv, TypeOK, CacheSound, Commit
<1>2. ASSUME NEW p \in Perms
      PROVE  \/ Right(cache[k].perms, k, p)'
             \/ (<<k, p>> \in overlapped)'
             \/ (cache[k].until <= changedAt[<<k, p>>] + TTL /\ <<k, p>> \notin dropped)'
  <2>1. CASE <<k, p>> \in Changed(after)
    BY <1>1, <2>1, CommitFacts DEF EntrySound, IInv
  <2>2. CASE <<k, p>> \notin Changed(after)
    BY <1>1, <2>2, CommitFacts DEF EntrySound, Right, IInv
  <2> QED BY <2>1, <2>2
<1> QED BY <1>1, <1>2 DEF EntrySound

(* A validation that holds the old value and is yet to store it straddles  *)
(* the change.                                                             *)
LEMMA StraddledBy ==
  ASSUME NEW g \in Handlers, NEW k, NEW p, req[g].pc = "store", req[g].key = k,
         p \in req[g].perms <=> p \in held[k]
  PROVE  Straddled(<<k, p>>)
<1>1. <<k, p>>[1] = k /\ <<k, p>>[2] = p
  OBVIOUS
<1> QED BY <1>1 DEF Straddled

(* A request that sees a commit pass. *)
LEMMA DoubtSound ==
  ASSUME IInv, NEW after \in [Keys -> SUBSET Perms], Commit(after),
         NEW g \in Handlers, NEW q, q = Doubt(req[g], Changed(after))
  PROVE  Sound(q)'
<1> DEFINE r == req[g]
           D == Changed(after)
<1>1. r \in Request /\ Sound(r)
  BY DEF IInv, TypeOK, RequestsSound
<1>2. q \in Request /\ q.pc = r.pc
  BY <1>1, DoubtFields
<1>3. ASSUME r \in Validating
      PROVE  /\ q.key = r.key /\ r.key \in Keys
             /\ q.aged \cup q.fresh = {p \in r.aged \cup r.fresh : <<r.key, p>> \notin D}
             /\ r.aged \cup r.fresh \subseteq Perms
  BY <1>1, <1>3, DoubtFields DEF Validating, Missing, Knowing
<1>4. ASSUME q.pc \in {"read", "store", "answer"} PROVE ReadSound(q)'
  <2>1. r \in Validating /\ ReadSound(r)
    BY <1>1, <1>2, <1>4, RequestFields DEF Sound
  <2> QED BY <1>3, <2>1, CommitFacts DEF ReadSound, IInv
<1>5. ASSUME q.pc = "store" PROVE StoreSound(q)'
  <2>1. r \in Knowing /\ r \in Validating /\ StoreSound(r) /\ q.perms = r.perms
    BY <1>1, <1>2, <1>5, RequestFields, DoubtFields DEF Sound
  <2> SUFFICES ASSUME NEW p \in Perms
               PROVE  <<r.key, p>> \in overlapped' \/ (p \in r.perms <=> p \in held'[r.key])
    BY <1>3, <2>1 DEF StoreSound, Right
  <2>2. CASE <<r.key, p>> \in D
    <3>1. Straddled(<<r.key, p>>) \/ ~(p \in r.perms <=> p \in held[r.key])
      BY <1>2, <1>5, StraddledBy
    <3> QED BY <1>3, <2>1, <2>2, <3>1, CommitFacts DEF IInv
  <2>3. CASE <<r.key, p>> \notin D
    BY <1>3, <2>1, <2>3, CommitFacts DEF StoreSound, Right, IInv
  <2> QED BY <2>2, <2>3
<1>6. ASSUME q.pc = "answer" PROVE AnswerSound(q)'
  <2>1. r \in Knowing /\ r \in Validating /\ AnswerSound(r) /\ q.perms = r.perms
    BY <1>1, <1>2, <1>6, RequestFields, DoubtFields DEF Sound
  <2> QED BY <1>3, <2>1, CommitFacts DEF AnswerSound, Right, IInv
<1>7. ASSUME q.pc = "sweep" PROVE SweepSound(q)'
  <2>1. r \in Sweeping /\ SweepSound(r) /\ q.left = r.left /\ q.clear = r.clear \ D
    BY <1>1, <1>2, <1>7, RequestFields, DoubtFields DEF Sound
  <2>2. cache' = cache /\ Cached \subseteq Keys
    BY DEF Commit, IInv, TypeOK
  <2> SUFFICES ASSUME NEW k \in Cached \ r.left, NEW p \in Perms, <<k, p>> \in r.clear, <<k, p>> \notin D
               PROVE  (<<k, p>> \in overlapped \/ Right(cache[k].perms, k, p))'
    BY <2>1, <2>2 DEF SweepSound, Cached
  <2>3. <<k, p>> \in overlapped \/ Right(cache[k].perms, k, p)
    BY <2>1 DEF SweepSound
  <2> QED BY <2>2, <2>3, CommitFacts DEF Right, IInv
<1> QED BY <1>4, <1>5, <1>6, <1>7 DEF Sound

(* A role change, with or without the invalidation it starts, keeps both   *)
(* sound.                                                                  *)
LEMMA CommitKeeps ==
  ASSUME IInv, NEW after \in [Keys -> SUBSET Perms], Commit(after),
         \A g \in Handlers : req'[g] = Doubt(req[g], Changed(after)) \/ req'[g].pc = "invalidate"
  PROVE  CacheSound' /\ RequestsSound'
<1> SUFFICES ASSUME NEW g \in Handlers PROVE Sound(req[g])'
  BY CommitCacheSound DEF RequestsSound
<1> PICK q : q = req'[g]
  OBVIOUS
<1>1. CASE q = Doubt(req[g], Changed(after))
  <2>1. Sound(q)'
    BY <1>1, DoubtSound
  <2> QED BY <2>1 DEF Sound, ReadSound, StoreSound, AnswerSound, SweepSound, Right
<1>2. CASE q.pc = "invalidate"
  BY <1>2 DEF Sound
<1> QED BY <1>1, <1>2

-----------------------------------------------------------------------------
(* Keys leave the cache, by a DEL or by expiry. *)
LEMMA WithoutKeeps ==
  ASSUME IInv, NEW K, cache' = Without(K), req' = [i \in Handlers |-> Miss(req[i], K)],
         UNCHANGED <<held, overlapped>>
  PROVE  RequestsSound'
<1> SUFFICES ASSUME NEW g \in Handlers PROVE Sound(req[g])'
  BY DEF RequestsSound
<1> PICK q : q = req'[g]
  OBVIOUS
<1>1. q = Miss(req[g], K) /\ req[g] \in Request /\ Sound(req[g])
  BY DEF IInv, TypeOK, RequestsSound
<1>2. CASE req[g] \in Sweeping
  <2>1. q.pc = req[g].pc /\ q.left = req[g].left \ K /\ q.clear = req[g].clear
    BY <1>1, <1>2, MissFields
  <2>2. q.pc \in {"invalidate", "sweep"}
    BY <1>1, <1>2, <2>1, RequestFields
  <2>3. CASE q.pc = "sweep"
    <3>1. SweepSound(req[g])
      BY <1>1, <2>1, <2>3 DEF Sound
    <3>2. SweepSound(q)'
      <4> SUFFICES ASSUME NEW k \in Cached' \ q.left, NEW p \in Perms, <<k, p>> \in q.clear
                   PROVE  (<<k, p>> \in overlapped \/ Right(cache[k].perms, k, p))'
        BY DEF SweepSound
      <4>1. k \in Cached \ req[g].left /\ cache'[k] = cache[k]
        BY <2>1 DEF Without, Cached
      <4> QED BY <2>1, <3>1, <4>1 DEF SweepSound, Right
    <3> QED BY <2>3, <3>2 DEF Sound, SweepSound, Right
  <2> QED BY <2>2, <2>3 DEF Sound
<1>3. CASE req[g] \notin Sweeping
  <2>1. q = req[g] /\ q.pc # "sweep"
    BY <1>1, <1>3, MissFields, RequestFields
  <2> QED BY <1>1, <2>1 DEF Sound, ReadSound, StoreSound, AnswerSound, Right
<1> QED BY <1>2, <1>3

(* Deleted and expired entries leave the rest sound. *)
LEMMA WithoutCacheSound ==
  ASSUME CacheSound, NEW K, cache' = Without(K), UNCHANGED <<held, facts>>,
         \A k \in Cached \ K : now' < cache[k].until /\ cache[k].until <= now' + TTL
  PROVE  CacheSound'
<1> SUFFICES ASSUME NEW k \in Cached' PROVE EntrySound(k)'
  BY DEF CacheSound
<1>1. k \in Cached \ K /\ cache'[k] = cache[k] /\ EntrySound(k)
  BY DEF Without, Cached, CacheSound
<1> QED BY <1>1 DEF EntrySound, Right, facts

(* A page of the scan keeps the cache and the requests sound. *)
LEMMA SweepKeeps ==
  ASSUME IInv, NEW h \in Handlers, NEW page \in SUBSET Keys, Sweep(h, page)
  PROVE  CacheSound' /\ RequestsSound'
<1>1. CASE cache' = Without(page) /\ req' = [i \in Handlers |-> Miss(req[i], page)]
  <2>1. \A k \in Cached : now < cache[k].until /\ cache[k].until <= now + TTL
    BY DEF IInv, CacheSound, EntrySound
  <2> QED BY <1>1, <2>1, WithoutKeeps, WithoutCacheSound DEF Sweep, IInv, facts
<1>2. CASE UNCHANGED cache
           /\ Become(h, [req[h] EXCEPT !.left = @ \ page, !.clear = @ \ (page \X Perms)])
  <2>1. req[h] \in Sweeping /\ req[h].pc = "sweep" /\ Sound(req[h])
    BY RequestFields DEF Sweep, IInv, TypeOK, RequestsSound
  <2> PICK P : P = page \X Perms
    OBVIOUS
  <2> PICK r : r = req[h]
    OBVIOUS
  <2> PICK q : q = [r EXCEPT !.left = @ \ page, !.clear = @ \ P]
    OBVIOUS
  <2>2. q.pc = "sweep" /\ q.left = req[h].left \ page /\ q.clear = req[h].clear \ P
    BY <2>1 DEF Sweeping
  <2>3. SweepSound(q)
    BY <2>1, <2>2 DEF Sound, SweepSound
  <2>4. Sound(q)
    BY <2>2, <2>3 DEF Sound
  <2> QED BY <1>2, <2>4, RequestStep, CacheStays DEF Sweep, IInv, facts
<1> QED BY <1>1, <1>2 DEF Sweep

(* The end of the scan keeps the cache and the requests sound. *)
LEMMA SweptKeeps ==
  ASSUME IInv, NEW h \in Handlers, Swept(h)
  PROVE  CacheSound' /\ RequestsSound'
<1>1. Sound(Idle)
  BY DEF Sound, Idle
<1>2. RequestsSound'
  BY <1>1, RequestStep DEF Swept, IInv
<1>3. SweepSound(req[h]) /\ req[h].left = {} /\ Cached \subseteq Keys
  BY DEF Swept, IInv, TypeOK, RequestsSound, Sound
<1>4. ASSUME NEW k \in Cached PROVE EntrySound(k)'
  <2>1. EntrySound(k)
    BY DEF IInv, CacheSound
  <2>2. ASSUME NEW p \in Perms, <<k, p>> \in req[h].clear
        PROVE  <<k, p>> \in overlapped \/ Right(cache[k].perms, k, p)
    BY <1>3, <2>2 DEF SweepSound
  <2> QED BY <2>1, <2>2 DEF Swept, EntrySound, Right
<1> QED BY <1>2, <1>4 DEF CacheSound, Swept, Cached

(* The clock keeps the cache and the requests sound. *)
LEMMA TickKeeps ==
  ASSUME IInv, Tick
  PROVE  CacheSound' /\ RequestsSound'
<1> DEFINE over == {k \in Cached : cache[k].until <= now'}
<1>1. cache' = Without(over) /\ req' = [h \in Handlers |-> Miss(req[h], over)] /\ UNCHANGED <<held, facts>>
  BY DEF Tick
<1>2. ASSUME NEW k \in Cached \ over PROVE now' < cache[k].until /\ cache[k].until <= now' + TTL
  <2>1. EntrySound(k) /\ cache[k].until \in Nat
    BY DEF IInv, CacheSound, TypeOK, Entry
  <2> QED BY <2>1, PermCacheAssumption DEF EntrySound, Tick, IInv, TypeOK
<1> HIDE DEF over
<1> QED BY <1>1, <1>2, WithoutKeeps, WithoutCacheSound DEF IInv, facts

-----------------------------------------------------------------------------
(* Every step keeps the inductive invariant. *)
LEMMA IInvStep == IInv /\ [Next]_vars => IInv'
<1> SUFFICES ASSUME IInv, [Next]_vars PROVE CacheSound' /\ RequestsSound'
  BY TypeStep DEF IInv
<1> DEFINE Goal == CacheSound' /\ RequestsSound'
<1>1. ASSUME NEW h \in Handlers, NEW k \in Keys, Hit(h, k) PROVE Goal
  <2> PICK q : q = [pc |-> "answer", key |-> k, perms |-> cache[k].perms,
                    aged |-> Began(k).aged, fresh |-> Began(k).fresh]
    OBVIOUS
  <2>1. Sound(q)
    BY <1>1, BeganSound, HitSound DEF Hit, permsKey, IInv, Sound, ReadSound, AnswerSound
  <2>2. Become(h, q) /\ UNCHANGED <<now, held, cache, facts, overlapped>>
    BY <1>1 DEF Hit, permsKey, facts
  <2> QED BY <2>1, <2>2, RequestStep, CacheStays DEF IInv
<1>2. ASSUME NEW h \in Handlers, NEW k \in Keys, GoToPostgres(h, k) PROVE Goal
  <2> PICK q : q = [pc |-> "read", key |-> k, aged |-> Began(k).aged, fresh |-> Began(k).fresh]
    OBVIOUS
  <2>1. Sound(q)
    BY BeganSound DEF Sound, ReadSound
  <2>2. Become(h, q) /\ UNCHANGED <<now, held, cache, facts, overlapped>>
    BY <1>2 DEF GoToPostgres, facts
  <2> QED BY <2>1, <2>2, RequestStep, CacheStays DEF IInv
<1>3. ASSUME NEW h \in Handlers, GetUserPermissionsScoped(h) PROVE Goal
  <2>1. Sound(req[h]) /\ req[h].pc = "read"
    BY <1>3 DEF GetUserPermissionsScoped, IInv, RequestsSound
  <2> PICK q : q = [pc |-> "store", key |-> req[h].key, perms |-> held[req[h].key],
                    aged |-> req[h].aged, fresh |-> req[h].fresh]
    OBVIOUS
  <2>2. Sound(q)
    BY <2>1 DEF Sound, ReadSound, StoreSound, Right
  <2>3. Become(h, q) /\ UNCHANGED <<now, held, cache, facts, overlapped>>
    BY <1>3 DEF GetUserPermissionsScoped, facts
  <2> QED BY <2>2, <2>3, RequestStep, CacheStays DEF IInv
<1>4. ASSUME NEW h \in Handlers, SetPerms(h) PROVE Goal
  BY <1>4, SetPermsKeeps
<1>5. ASSUME NEW h \in Handlers, Finish(h) PROVE Goal
  <2>1. Sound(Idle)
    BY DEF Sound, Idle
  <2> QED BY <1>5, <2>1, RequestStep, CacheStays DEF Finish, IInv, facts
<1>6. ASSUME NEW h \in Handlers, NEW after \in [Keys -> SUBSET Perms], CommitThenInvalidate(h, after)
      PROVE Goal
  BY <1>6, CommitKeeps DEF CommitThenInvalidate
<1>7. ASSUME NEW after \in [Keys -> SUBSET Perms], CommitOnly(after) PROVE Goal
  BY <1>7, CommitKeeps DEF CommitOnly
<1>8. ASSUME NEW h \in Handlers, InvalidatePerms(h) PROVE Goal
  <2>1. req[h] \in Sweeping
    BY <1>8, RequestFields DEF InvalidatePerms, IInv, TypeOK
  <2> PICK q : q = [req[h] EXCEPT !.pc = "sweep", !.left = Cached]
    OBVIOUS
  <2>2. q.pc = "sweep" /\ q.left = Cached
    BY <2>1 DEF Sweeping
  <2>3. Sound(q)
    BY <2>2 DEF Sound, SweepSound
  <2>4. Become(h, q) /\ UNCHANGED <<now, held, cache, facts, overlapped>>
    BY <1>8 DEF InvalidatePerms, facts
  <2> QED BY <2>3, <2>4, RequestStep, CacheStays DEF IInv
<1>9. ASSUME NEW h \in Handlers, NEW page \in SUBSET Keys, Sweep(h, page) PROVE Goal
  BY <1>9, SweepKeeps
<1>10. ASSUME NEW h \in Handlers, Swept(h) PROVE Goal
  BY <1>10, SweptKeeps
<1>11. ASSUME Tick PROVE Goal
  BY <1>11, TickKeeps
<1>12. CASE UNCHANGED vars
  BY <1>12, CacheStays DEF vars, facts, IInv, RequestsSound, Sound, ReadSound, StoreSound,
     AnswerSound, SweepSound, Right, Cached
<1>13. ASSUME Next PROVE Goal
  <2> HIDE DEF Goal
  <2>1. ASSUME NEW h \in Handlers, NEW after \in [Keys -> SUBSET Perms],
               AssignRole(h, after) \/ RevokeRole(h, after)
        PROVE  Goal
    BY <1>6, <2>1 DEF AssignRole, RevokeRole
  <2>2. ASSUME NEW after \in [Keys -> SUBSET Perms], GrantPermission(after) \/ RevokePermission(after)
        PROVE  Goal
    BY <1>7, <2>2 DEF GrantPermission, RevokePermission
  <2>3. ASSUME NEW h \in Handlers, NEW k \in Keys, Hit(h, k) \/ GoToPostgres(h, k) PROVE Goal
    BY <1>1, <1>2, <2>3
  <2>4. ASSUME NEW h \in Handlers, GetUserPermissionsScoped(h) \/ SetPerms(h) \/ Finish(h) PROVE Goal
    BY <1>3, <1>4, <1>5, <2>4
  <2>5. ASSUME NEW h \in Handlers, InvalidatePerms(h) \/ Swept(h) PROVE Goal
    BY <1>8, <1>10, <2>5
  <2> QED BY <1>9, <1>11, <1>13, <2>1, <2>2, <2>3, <2>4, <2>5 DEF Next
<1> QED BY <1>12, <1>13 DEF Goal

(* The inductive invariant always holds. *)
LEMMA AlwaysIInv == Spec => []IInv
<1>1. Init => IInv
  BY TypeCorrect DEF Init, IInv, TypeOK, Request, Cached, CacheSound, RequestsSound, Sound, Idle
<1> QED BY <1>1, IInvStep, PTL DEF Spec

(* An answer agrees with the tables in all it must report. *)
LEMMA AnswersRight ==
  ASSUME IInv, NEW h \in Handlers, req[h].pc = "answer", NEW p \in req[h].aged \cup req[h].fresh
  PROVE  Agrees(h, p)
BY DEF IInv, RequestsSound, Sound, AnswerSound, Right, Agrees

(* The time-to-live bounds how long any role change can go unnoticed: for  *)
(* any number of requests, keys and permissions, a validation that begins  *)
(* a TTL or more after a permission last changed reports its present       *)
(* value, unless a validation held the old value across the change.        *)
THEOREM StalenessBounded == Spec => []WithinTTL
<1>1. IInv => WithinTTL
  BY AnswersRight DEF WithinTTL
<1> QED BY <1>1, AlwaysIInv, PTL

(* A completed invalidation, none of whose deletions failed, makes every   *)
(* later validation report the present value, with the same exception.     *)
THEOREM InvalidationEffective == Spec => []AfterInvalidation
<1>1. IInv => AfterInvalidation
  BY AnswersRight DEF AfterInvalidation
<1> QED BY <1>1, AlwaysIInv, PTL
=============================================================================
