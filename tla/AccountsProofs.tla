--------------------------- MODULE AccountsProofs ---------------------------
(* Theorems about what becomes of accounts, for every value of the         *)
(* constants: that their changes reach the other side (Outbox), and what   *)
(* deletion and removal do to tokens being issued and keys being used      *)
(* (Tenancy).  The two share no name.                                      *)
EXTENDS Outbox, Tenancy, FiniteSetTheorems, SequenceTheorems, WellFoundedInduction, TLAPS

-----------------------------------------------------------------------------
(* Outbox.                                                                 *)

(* A non-empty set of naturals has a least element. *)
LEMMA LeastNat ==
  ASSUME NEW T \in SUBSET Nat, T # {}
  PROVE  \E m \in T : \A k \in T : m <= k
<1> DEFINE R == OpToRel(<, Nat)
<1>1. \A k, m \in Nat : k < m => <<k, m>> \in R
  BY DEF OpToRel
<1>2. IsWellFoundedOn(R, Nat)
  BY NatLessThanWellFounded
<1> HIDE DEF R
<1>3. \E m \in T : \A k \in T : ~(<<k, m>> \in R)
  BY <1>2, WFMin
<1>4. \A k, m \in T : ~(<<k, m>> \in R) => m <= k
  BY <1>1
<1> QED BY <1>3, <1>4

(* Rows are events with a stamp, numbered from one. *)
LEMMA RowFields ==
  ASSUME TypeOK
  PROVE  /\ Len(outbox) \in Nat
         /\ \A i \in Row : i \in Nat \ {0} /\ outbox[i] \in Event /\ outbox[i].at \in Nat
<1>1. Len(outbox) \in Nat /\ outbox \in Seq(Event)
  BY LenProperties DEF TypeOK
<1>2. \A i \in Row : i \in Nat \ {0} /\ outbox[i] \in Event
  BY <1>1, ElementOfSeq DEF Row
<1>3. \A e \in Event : e.at \in Nat
  BY DEF Event
<1> QED BY <1>1, <1>2, <1>3

(* A set of rows that is not empty has an oldest row. *)
LEMMA OldestInSet ==
  ASSUME TypeOK, NEW S \in SUBSET Row, S # {}
  PROVE  Oldest(S) \in S /\ \A k \in S : outbox[Oldest(S)].at <= outbox[k].at
<1> DEFINE T == {outbox[i].at : i \in S}
<1>1. T \in SUBSET Nat /\ T # {}
  BY RowFields
<1>2. PICK m \in T : \A k \in T : m <= k
  BY <1>1, LeastNat
<1>3. \E i \in S : \A k \in S : outbox[i].at <= outbox[k].at
  BY <1>2
<1> QED BY <1>3 DEF Oldest

(* Appending a committed row keeps the rows there are. *)
LEMMA Grown ==
  ASSUME TypeOK, NEW e \in Event, outbox' = Append(outbox, e)
  PROVE  /\ outbox' \in Seq(Event)
         /\ Row' = Row \cup {Len(outbox) + 1}
         /\ \A i \in Row : outbox'[i] = outbox[i] /\ i < Len(outbox) + 1
<1>1. outbox \in Seq(Event)
  BY DEF TypeOK
<1>2. /\ outbox' \in Seq(Event)
      /\ Len(outbox') = Len(outbox) + 1
      /\ \A i \in 1..Len(outbox) : outbox'[i] = outbox[i]
  BY <1>1, AppendProperties
<1>3. Row' = 1..(Len(outbox) + 1)
  BY <1>2 DEF Row
<1> QED BY <1>2, <1>3, RowFields DEF Row

(* The broker after it was handed a row. *)
LEMMA Stored ==
  ASSUME TypeOK, NEW i \in Row, Store(i)
  PROVE  /\ stream' \in Seq(Row)
         /\ window' \subseteq Row
         /\ Delivered \subseteq Delivered'
         /\ Delivered' \subseteq Delivered \cup {i}
         /\ i \in Delivered' \cup window
<1>1. stream \in Seq(Row) /\ DOMAIN stream = 1..Len(stream) /\ Len(stream) \in Nat
  BY LenProperties DEF TypeOK
<1>2. CASE i \in window
  BY <1>1, <1>2 DEF Store, Delivered, TypeOK
<1>3. CASE i \notin window
  <2>1. stream' = Append(stream, i)
    BY <1>3 DEF Store
  <2>2. /\ stream' \in Seq(Row)
        /\ Len(stream') = Len(stream) + 1
        /\ \A n \in 1..Len(stream) : stream'[n] = stream[n]
        /\ stream'[Len(stream) + 1] = i
    BY <1>1, <2>1, AppendProperties
  <2>3. DOMAIN stream' = 1..(Len(stream) + 1)
    BY <2>2, LenProperties
  <2>4. Delivered \subseteq Delivered'
    BY <1>1, <2>2, <2>3 DEF Delivered
  <2>5. Delivered' \subseteq Delivered \cup {i}
    BY <1>1, <2>2, <2>3 DEF Delivered
  <2>6. i \in Delivered'
    BY <1>1, <2>2, <2>3 DEF Delivered
  <2> QED BY <2>2, <2>4, <2>5, <2>6 DEF Store, TypeOK
<1> QED BY <1>2, <1>3

(* The row of a transaction is a row. *)
LEMMA RowTyped ==
  ASSUME TypeOK, NEW e \in open
  PROVE  RowOf(e) \in Event /\ e.at \in Nat \ {0} /\ e.user \in Ids /\ e.type \in EventType
<1>1. e \in Transaction
  BY DEF TypeOK
<1>2. e.at \in Nat \ {0} /\ e.user \in Ids /\ e.type \in EventType
  BY <1>1 DEF Transaction
<1> QED BY <1>2 DEF RowOf, Event

(* A commit of a transaction keeps the types. *)
LEMMA CommitTyped ==
  ASSUME TypeOK, NEW e \in open, Commit(e)
  PROVE  TypeOK'
<1>1. Row \subseteq Row' /\ outbox' \in Seq(Event)
  BY RowTyped, Grown DEF Commit
<1>2. stream' \in Seq(Row')
  BY <1>1, SeqMonotonic DEF Commit, TypeOK, broker
<1>3. status' \in [Ids -> {"absent", "active", "deleted"}]
  <2>1. Effect(e.type) \in {"absent", "active", "deleted"}
    BY RowTyped DEF Effect, EventType
  <2> QED BY <2>1 DEF Commit, TypeOK
<1>5. overlapped' \subseteq Nat /\ open' \subseteq Transaction
  <2>1. open' \subseteq open
    BY DEF Commit
  <2>2. \A f \in open : f.at \in Nat /\ f \in Transaction
    BY RowTyped DEF TypeOK
  <2> QED BY <2>1, <2>2 DEF Commit, TypeOK
<1>4. batch' \in [Relays -> SUBSET Row'] /\ published' \subseteq Row' /\ window' \subseteq Row'
  BY <1>1 DEF Commit, TypeOK, relay, broker
<1> QED BY <1>1, <1>2, <1>3, <1>4, <1>5 DEF Commit, TypeOK, relay

(* A relay that gives up its batch keeps the types. *)
LEMMA GiveUpTyped ==
  ASSUME TypeOK, NEW r \in Relays, GiveUp(r)
  PROVE  /\ batch' \in [Relays -> SUBSET Row] /\ acked' \in [Relays -> Nat]
         /\ \A q \in Relays : acked'[q] \in batch'[q] \cup {0}
BY DEF GiveUp, TypeOK

(* Every step keeps the types. *)
LEMMA TypedStep == TypeOK /\ [Next]_vars => TypeOK'
<1> SUFFICES ASSUME TypeOK, [Next]_vars PROVE TypeOK'
  OBVIOUS
<1> USE DEF identity, broker, relay
<1>0. ASSUME Row' = Row, UNCHANGED <<started, open, overlapped, status, outbox>>,
             published' \subseteq Row, stream' \in Seq(Row), window' \subseteq Row,
             batch' \in [Relays -> SUBSET Row], acked' \in [Relays -> Nat],
             \A r \in Relays : acked'[r] \in batch'[r] \cup {0}
      PROVE  TypeOK'
  BY <1>0 DEF TypeOK
<1>1. ASSUME NEW u \in Ids, NEW type \in EventType, Begin(u, type) PROVE TypeOK'
  <2>1. started' \in Nat \ {0} /\ started + 1 = started'
    BY <1>1 DEF Begin, TypeOK
  <2>2. open' \subseteq Transaction
    BY <1>1, <2>1 DEF Begin, TypeOK, Transaction
  <2>3. Row' = Row
    BY <1>1 DEF Begin, Row
  <2> QED BY <1>1, <2>1, <2>2, <2>3 DEF Begin, TypeOK
<1>2. ASSUME NEW e \in open, Rollback(e) PROVE TypeOK'
  <2>1. Row' = Row
    BY <1>2 DEF Rollback, Row
  <2> QED BY <1>2, <2>1 DEF Rollback, TypeOK
<1>3. ASSUME UNCHANGED outbox PROVE Row' = Row
  BY <1>3 DEF Row
<1>12. ASSUME NEW e \in open, Update(e) PROVE TypeOK'
  <2>1. PICK stage \in {"wrote", "missed"} : open' = (open \ {e}) \cup {[e EXCEPT !.stage = stage]}
    BY <1>12 DEF Update, Reach
  <2>2. e \in Transaction
    BY DEF TypeOK
  <2>3. [e EXCEPT !.stage = stage] \in Transaction
    BY <2>2 DEF Transaction
  <2> QED BY <1>3, <1>12, <2>1, <2>3 DEF Update, TypeOK
<1>4. ASSUME NEW r \in Relays, FetchUnpublishedOutbox(r) PROVE TypeOK'
  <2>1. batch' \in [Relays -> SUBSET Row] /\ \A q \in Relays : acked'[q] \in batch'[q] \cup {0}
    BY <1>4 DEF FetchUnpublishedOutbox, TypeOK, Pending
  <2> QED BY <1>0, <1>3, <1>4, <2>1 DEF FetchUnpublishedOutbox, TypeOK
<1>5. ASSUME NEW r \in Relays, Publish(r) PROVE TypeOK'
  <2>1. batch[r] \in SUBSET Row /\ batch[r] # {}
    BY <1>5 DEF Publish, TypeOK
  <2>2. Oldest(batch[r]) \in batch[r] /\ Oldest(batch[r]) \in Row
    BY <2>1, OldestInSet
  <2>3. stream' \in Seq(Row) /\ window' \subseteq Row
    BY <1>5, <2>2, Stored DEF Publish
  <2>4. acked' \in [Relays -> Nat] /\ \A q \in Relays : acked'[q] \in batch'[q] \cup {0}
    BY <1>5, <2>2, RowFields DEF Publish, TypeOK
  <2> QED BY <1>0, <1>3, <1>5, <2>3, <2>4 DEF Publish, TypeOK
<1>6. ASSUME NEW r \in Relays, PublishFails(r) PROVE TypeOK'
  <2>1. batch[r] \in SUBSET Row /\ batch[r] # {}
    BY <1>6 DEF PublishFails, TypeOK
  <2>2. Oldest(batch[r]) \in Row
    BY <2>1, OldestInSet
  <2>3. stream' \in Seq(Row) /\ window' \subseteq Row
    BY <1>6, <2>2, Stored DEF PublishFails, TypeOK
  <2> QED BY <1>0, <1>3, <1>6, <2>3, GiveUpTyped DEF PublishFails, TypeOK
<1>7. ASSUME NEW r \in Relays, MarkOutboxPublished(r) PROVE TypeOK'
  <2>1. acked[r] \in Row
    BY <1>7 DEF MarkOutboxPublished, TypeOK
  <2>2. batch' \in [Relays -> SUBSET Row] /\ acked' \in [Relays -> Nat]
        /\ \A q \in Relays : acked'[q] \in batch'[q] \cup {0}
    BY <1>7 DEF MarkOutboxPublished, TypeOK
  <2>3. published' \subseteq Row
    BY <1>7, <2>1 DEF MarkOutboxPublished, TypeOK
  <2> QED BY <1>0, <1>3, <1>7, <2>2, <2>3 DEF MarkOutboxPublished, TypeOK
<1>8. ASSUME NEW r \in Relays, Stop(r) PROVE TypeOK'
  <2>1. published' \subseteq Row
    BY <1>8 DEF Stop, TypeOK
  <2> QED BY <1>0, <1>3, <1>8, <2>1, GiveUpTyped DEF Stop, TypeOK
<1>9. ASSUME NEW i \in Row, Forget(i) PROVE TypeOK'
  BY <1>0, <1>3, <1>9 DEF Forget, TypeOK
<1>10. CASE UNCHANGED vars
  BY <1>0, <1>3, <1>10 DEF vars, TypeOK
<1>11. ASSUME NEW u \in Ids, Register(u) \/ DeleteUser(u) \/ RestoreUser(u) PROVE TypeOK'
  BY <1>1, <1>11 DEF Register, DeleteUser, RestoreUser, EventType
<1> QED BY <1>2, <1>4, <1>5, <1>6, <1>7, <1>8, <1>9, <1>10, <1>11, <1>12, CommitTyped DEF Next

(* The initial state is well typed. *)
LEMMA InitTyped == Init => TypeOK
<1> SUFFICES ASSUME Init PROVE TypeOK
  OBVIOUS
<1>1. outbox \in Seq(Event) /\ stream \in Seq(Row)
  BY EmptySeq DEF Init
<1> QED BY <1>1 DEF Init, TypeOK

(* No state ever leaves the types. *)
THEOREM TypeCorrect == Spec => []TypeOK
BY InitTyped, TypedStep, PTL DEF Spec

-----------------------------------------------------------------------------
(* What is marked, remembered or acknowledged was delivered. *)
Sent ==
  /\ published \subseteq Delivered
  /\ window \subseteq Delivered
  /\ \A r \in Relays : acked[r] # 0 => acked[r] \in Delivered

(* A batch lacks none of the undelivered rows that precede one of its own. *)
Batched ==
  \A r \in Relays : \A i \in batch[r], k \in Row : Precedes(k, i) => k \in Delivered \cup batch[r]

(* What is in the stream are rows of the outbox. *)
LEMMA DeliveredRows == TypeOK => Delivered \subseteq Row
BY LenProperties, ElementOfSeq DEF TypeOK, Delivered

(* Rows acknowledged or marked stay in the stream, which only grows. *)
LEMMA SentStep == TypeOK /\ Sent /\ [Next]_vars => Sent' /\ Delivered \subseteq Delivered'
<1> SUFFICES ASSUME TypeOK, Sent, [Next]_vars PROVE Sent' /\ Delivered \subseteq Delivered'
  OBVIOUS
<1>1. ASSUME NEW r \in Relays, Publish(r) PROVE Sent' /\ Delivered \subseteq Delivered'
  <2>1. Oldest(batch[r]) \in Row /\ Store(Oldest(batch[r]))
    BY <1>1, OldestInSet DEF Publish, TypeOK
  <2>2. Delivered \subseteq Delivered' /\ Oldest(batch[r]) \in Delivered'
    BY <2>1, Stored DEF Sent
  <2> QED BY <1>1, <2>1, <2>2 DEF Publish, Store, Sent, TypeOK
<1>2. ASSUME NEW r \in Relays, PublishFails(r) PROVE Sent' /\ Delivered \subseteq Delivered'
  <2>1. Oldest(batch[r]) \in Row
    BY <1>2, OldestInSet DEF PublishFails, TypeOK
  <2>2. Delivered \subseteq Delivered' /\ window' \subseteq Delivered'
    <3>1. CASE Store(Oldest(batch[r]))
      BY <2>1, <3>1, Stored DEF Store, Sent
    <3>2. CASE UNCHANGED broker
      BY <3>2 DEF broker, Delivered, Sent
    <3> QED BY <1>2, <3>1, <3>2 DEF PublishFails
  <2> QED BY <1>2, <2>2 DEF PublishFails, GiveUp, Sent, TypeOK
<1>3. ASSUME NEW r \in Relays, MarkOutboxPublished(r) PROVE Sent' /\ Delivered \subseteq Delivered'
  BY <1>3 DEF MarkOutboxPublished, Sent, TypeOK, broker, Delivered
<1>4. ASSUME NEW r \in Relays, Stop(r) PROVE Sent' /\ Delivered \subseteq Delivered'
  BY <1>4 DEF Stop, GiveUp, Sent, TypeOK, broker, Delivered
<1>5. ASSUME NEW i \in Row, Forget(i) PROVE Sent' /\ Delivered \subseteq Delivered'
  BY <1>5 DEF Forget, Sent, relay, Delivered
<1>6. ASSUME UNCHANGED <<published, broker, acked>> PROVE Sent' /\ Delivered \subseteq Delivered'
  BY <1>6 DEF Sent, broker, Delivered
<1>7. ASSUME NEW r \in Relays, FetchUnpublishedOutbox(r) PROVE UNCHANGED <<published, broker, acked>>
  BY <1>7 DEF FetchUnpublishedOutbox
<1>8. ASSUME NEW e \in open, Update(e) \/ Commit(e) \/ Rollback(e)
      PROVE  UNCHANGED <<published, broker, acked>>
  BY <1>8 DEF Update, Commit, Rollback, relay
<1>9. ASSUME NEW u \in Ids, Register(u) \/ DeleteUser(u) \/ RestoreUser(u)
      PROVE  UNCHANGED <<published, broker, acked>>
  BY <1>9 DEF Register, DeleteUser, RestoreUser, Begin, relay
<1>10. CASE UNCHANGED vars
  BY <1>6, <1>10 DEF vars, relay
<1>11. CASE Next
  BY <1>1, <1>2, <1>3, <1>4, <1>5, <1>6, <1>7, <1>8, <1>9, <1>11 DEF Next
<1> QED BY <1>10, <1>11

(* The rows of a fetch are the oldest ones. *)
LEMMA FetchedOldest ==
  ASSUME TypeOK, NEW i \in Pending, NEW k \in Pending, outbox[k].at < outbox[i].at,
         Cardinality(Older(i)) < Batch
  PROVE  Cardinality(Older(k)) < Batch
<1>1. IsFiniteSet(Row)
  BY RowFields, FS_Interval DEF Row
<1>2. IsFiniteSet(Older(i))
  BY <1>1, FS_Subset DEF Older, Pending
<1>3. Older(k) \subseteq Older(i)
  BY RowFields DEF Older, Pending
<1>4. IsFiniteSet(Older(k)) /\ Cardinality(Older(k)) <= Cardinality(Older(i))
  BY <1>2, <1>3, FS_Subset
<1>5. Cardinality(Older(k)) \in Nat /\ Cardinality(Older(i)) \in Nat
  BY <1>2, <1>4, FS_CardinalityType
<1> QED BY <1>4, <1>5, OutboxAssumption

(* A batch keeps, for each of its rows, every unsent row that precedes it. *)
LEMMA BatchedStep == TypeOK /\ Sent /\ Batched /\ [Next]_vars => Batched'
<1> SUFFICES ASSUME TypeOK, Sent, Batched, [Next]_vars PROVE Batched'
  OBVIOUS
<1>0. Delivered \subseteq Delivered'
  BY SentStep
<1>1. ASSUME UNCHANGED outbox, \A r \in Relays : batch'[r] \in {batch[r], {}} PROVE Batched'
  BY <1>0, <1>1 DEF Batched, Precedes, Row
<1>2. ASSUME NEW r \in Relays, FetchUnpublishedOutbox(r) PROVE Batched'
  <2>1. UNCHANGED outbox /\ Row' = Row
    BY <1>2 DEF FetchUnpublishedOutbox, identity, Row
  <2>2. ASSUME NEW i \in batch'[r], NEW k \in Row, Precedes(k, i) PROVE k \in Delivered \cup batch'[r]
    <3>1. batch'[r] = {j \in Pending : Cardinality(Older(j)) < Batch}
      BY <1>2 DEF FetchUnpublishedOutbox, TypeOK
    <3>2. CASE k \in published
      BY <3>2 DEF Sent
    <3>3. CASE k \in Pending
      BY <2>2, <3>1, <3>3, FetchedOldest DEF Precedes
    <3> QED BY <3>2, <3>3 DEF Pending
  <2>3. \A q \in Relays : q # r => batch'[q] = batch[q]
    BY <1>2 DEF FetchUnpublishedOutbox, TypeOK
  <2> QED BY <1>0, <2>1, <2>2, <2>3 DEF Batched, Precedes
<1>3. ASSUME NEW r \in Relays, MarkOutboxPublished(r) PROVE Batched'
  <2>1. UNCHANGED outbox /\ Row' = Row /\ acked[r] \in Delivered
    BY <1>3 DEF MarkOutboxPublished, identity, Row, Sent
  <2>2. \A q \in Relays : batch'[q] = IF q = r THEN batch[r] \ {acked[r]} ELSE batch[q]
    BY <1>3 DEF MarkOutboxPublished, TypeOK
  <2> QED BY <1>0, <2>1, <2>2 DEF Batched, Precedes
<1>4. ASSUME NEW e \in open, Commit(e) PROVE Batched'
  <2>1. /\ Row' = Row \cup {Len(outbox) + 1}
        /\ \A i \in Row : outbox'[i] = outbox[i] /\ i < Len(outbox) + 1
    BY <1>4, RowTyped, Grown DEF Commit
  <2>2. UNCHANGED batch /\ \A r \in Relays : batch[r] \subseteq Row
    BY <1>4 DEF Commit, relay, TypeOK
  <2>3. ASSUME NEW i \in Row, NEW k \in Row', Precedes(k, i)' PROVE k \in Row /\ Precedes(k, i)
    <3>1. k # Len(outbox) + 1
      BY <2>1, <2>3, RowFields DEF Precedes
    <3> QED BY <2>1, <2>3, <3>1 DEF Precedes
  <2> QED BY <1>0, <2>2, <2>3 DEF Batched
<1>5. ASSUME NEW r \in Relays, Publish(r) \/ PublishFails(r) \/ Stop(r) PROVE Batched'
  <2>1. UNCHANGED outbox /\ \A q \in Relays : batch'[q] \in {batch[q], {}}
    BY <1>5 DEF Publish, PublishFails, Stop, GiveUp, TypeOK, identity
  <2> QED BY <1>1, <2>1
<1>6. ASSUME NEW i \in Row, Forget(i) PROVE Batched'
  BY <1>1, <1>6 DEF Forget, identity, relay
<1>7. ASSUME NEW e \in open, Update(e) \/ Rollback(e) PROVE Batched'
  BY <1>1, <1>7 DEF Update, Rollback, relay
<1>8. ASSUME NEW u \in Ids, Register(u) \/ DeleteUser(u) \/ RestoreUser(u) PROVE Batched'
  BY <1>1, <1>8 DEF Register, DeleteUser, RestoreUser, Begin, relay
<1>9. CASE UNCHANGED vars
  BY <1>1, <1>9 DEF vars, identity, relay
<1>10. CASE Next
  BY <1>2, <1>3, <1>4, <1>5, <1>6, <1>7, <1>8, <1>10 DEF Next
<1> QED BY <1>9, <1>10

(* Handing the oldest row of a batch to the broker. *)
LEMMA StoreKeepsOrder ==
  ASSUME TypeOK, Batched, CausalOrder, NEW r \in Relays, batch[r] # {},
         Store(Oldest(batch[r])), UNCHANGED outbox
  PROVE  CausalOrder'
<1> DEFINE i == Oldest(batch[r])
<1>1. i \in batch[r] /\ i \in Row /\ \A k \in batch[r] : outbox[i].at <= outbox[k].at
  BY OldestInSet DEF TypeOK
<1>2. ASSUME NEW k \in Row, Precedes(k, i) PROVE k \in Delivered
  <2>1. k \notin batch[r]
    BY <1>1, <1>2, RowFields DEF Precedes
  <2> QED BY <1>1, <1>2, <2>1 DEF Batched
<1> HIDE DEF i
<1>3. stream \in Seq(Row) /\ DOMAIN stream = 1..Len(stream) /\ Len(stream) \in Nat
  BY LenProperties DEF TypeOK
<1>4. Row' = Row /\ \A k, j : Precedes(k, j)' <=> Precedes(k, j)
  BY DEF Row, Precedes
<1>5. CASE i \in window
  <2>1. stream' = stream
    BY <1>5 DEF Store, i
  <2> QED BY <1>4, <2>1 DEF CausalOrder
<1>6. CASE i \notin window
  <2>1. stream' = Append(stream, i)
    BY <1>6 DEF Store, i
  <2>2. /\ DOMAIN stream' = 1..(Len(stream) + 1)
        /\ \A n \in 1..Len(stream) : stream'[n] = stream[n]
        /\ stream'[Len(stream) + 1] = i
    BY <1>1, <1>3, <2>1, AppendProperties, LenProperties
  <2>3. ASSUME NEW n \in 1..Len(stream), NEW k \in Row, Precedes(k, stream'[n])
        PROVE  \E m \in 1..(n - 1) : stream'[m] = k
    <3>1. PICK m \in 1..(n - 1) : stream[m] = k
      BY <1>3, <2>2, <2>3 DEF CausalOrder
    <3> QED BY <1>3, <2>2, <3>1
  <2>4. ASSUME NEW k \in Row, Precedes(k, i)
        PROVE  \E m \in 1..(Len(stream) + 1 - 1) : stream'[m] = k
    <3>1. PICK m \in 1..Len(stream) : stream[m] = k
      BY <1>2, <1>3, <2>4 DEF Delivered
    <3> QED BY <1>3, <2>2, <3>1
  <2> QED BY <1>3, <1>4, <2>2, <2>3, <2>4 DEF CausalOrder
<1> QED BY <1>5, <1>6

(* Publishing the oldest row of such a batch keeps the causal order. *)
LEMMA CausalOrderStep == TypeOK /\ Batched /\ CausalOrder /\ [Next]_vars => CausalOrder'
<1> SUFFICES ASSUME TypeOK, Batched, CausalOrder, [Next]_vars PROVE CausalOrder'
  OBVIOUS
<1>1. ASSUME UNCHANGED <<outbox, stream>> PROVE CausalOrder'
  BY <1>1 DEF CausalOrder, Precedes, Row
<1>2. ASSUME NEW r \in Relays, Publish(r) PROVE CausalOrder'
  BY <1>2, StoreKeepsOrder DEF Publish, identity
<1>3. ASSUME NEW r \in Relays, PublishFails(r) PROVE CausalOrder'
  BY <1>1, <1>3, StoreKeepsOrder DEF PublishFails, identity, broker
<1>4. ASSUME NEW e \in open, Commit(e) PROVE CausalOrder'
  <2>1. /\ Row' = Row \cup {Len(outbox) + 1}
        /\ \A i \in Row : outbox'[i] = outbox[i] /\ i < Len(outbox) + 1
    BY <1>4, RowTyped, Grown DEF Commit
  <2>2. stream' = stream /\ \A n \in DOMAIN stream : stream[n] \in Row
    BY <1>4, LenProperties, ElementOfSeq DEF Commit, broker, TypeOK
  <2>3. ASSUME NEW i \in Row, NEW k \in Row', Precedes(k, i)' PROVE k \in Row /\ Precedes(k, i)
    <3>1. k # Len(outbox) + 1
      BY <2>1, <2>3, RowFields DEF Precedes
    <3> QED BY <2>1, <2>3, <3>1 DEF Precedes
  <2>4. ASSUME NEW n \in DOMAIN stream, NEW k \in Row', Precedes(k, stream[n])'
        PROVE  \E m \in 1..(n - 1) : stream[m] = k
    BY <2>2, <2>3, <2>4 DEF CausalOrder
  <2> QED BY <2>2, <2>4 DEF CausalOrder, Precedes
<1>5. ASSUME NEW r \in Relays, FetchUnpublishedOutbox(r) \/ MarkOutboxPublished(r) \/ Stop(r)
      PROVE  CausalOrder'
  BY <1>1, <1>5 DEF FetchUnpublishedOutbox, MarkOutboxPublished, Stop, identity, broker
<1>6. ASSUME NEW i \in Row, Forget(i) PROVE CausalOrder'
  BY <1>1, <1>6 DEF Forget, identity
<1>7. ASSUME NEW e \in open, Update(e) \/ Rollback(e) PROVE CausalOrder'
  BY <1>1, <1>7 DEF Update, Rollback, broker
<1>8. ASSUME NEW u \in Ids, Register(u) \/ DeleteUser(u) \/ RestoreUser(u) PROVE CausalOrder'
  BY <1>1, <1>8 DEF Register, DeleteUser, RestoreUser, Begin, broker
<1>9. CASE UNCHANGED vars
  BY <1>1, <1>9 DEF vars, identity, broker
<1>10. CASE Next
  BY <1>2, <1>3, <1>4, <1>5, <1>6, <1>7, <1>8, <1>10 DEF Next
<1> QED BY <1>9, <1>10

(* Nothing is sent or batched at first. *)
LEMMA InitOrdered == Init => Sent /\ Batched /\ CausalOrder
BY DEF Init, Sent, Batched, CausalOrder, Delivered

(* Rows reach the stream, for the first time, after every row that both    *)
(* began and committed before them, for any number of relays and whatever  *)
(* fails.                                                                  *)
THEOREM CausalOrderCorrect == Spec => []CausalOrder
BY InitTyped, TypedStep, InitOrdered, SentStep, BatchedStep, CausalOrderStep, PTL DEF Spec

-----------------------------------------------------------------------------
(* Stamps are handed out once, and none is of the future. *)
Stamped ==
  /\ \A i \in Row : outbox[i].at <= started
  /\ \A e \in open : e.at <= started /\ \A i \in Row : outbox[i].at # e.at
  /\ \A e, f \in open : e.at = f.at => e = f

(* A transaction that overlapped none began after every row of its user,   *)
(* and if its statement missed the users row it would still miss it.       *)
Undisturbed(e) ==
  e.at \notin overlapped =>
    /\ \A k \in RowsOf(e.user) : outbox[k].at < e.at
    /\ e.stage = "missed" => ~Matches(e.type, status[e.user])

Ordered ==
  \A u \in Ids : \A k, i \in RowsOf(u) :
    k < i /\ outbox[i].at \notin overlapped => outbox[k].at < outbox[i].at

(* A user that exists is in the state its last row tells of. *)
LastWins ==
  \A u \in Ids : status[u] # "absent" /\ Serial(u) =>
    \A i \in RowsOf(u) : (\A k \in RowsOf(u) : k <= i) => status[u] = Effect(outbox[i].type)

TransactionInv ==
  /\ Stamped
  /\ \A e \in open : Undisturbed(e)
  /\ Ordered
  /\ LastWins

LEMMA BeginKeeps ==
  ASSUME TypeOK, TransactionInv, NEW u \in Ids, NEW type, Begin(u, type)
  PROVE  TransactionInv'
<1> PICK e : e = [at |-> started', user |-> u, type |-> type, stage |-> "waits"]
  OBVIOUS
<1>1. /\ open' = open \cup {e} /\ started' = started + 1 /\ started \in Nat
      /\ UNCHANGED <<overlapped, status, outbox>>
      /\ e.at = started' /\ e.user = u /\ e.stage = "waits"
  BY DEF Begin, TypeOK
<1>2. UNCHANGED Row /\ \A v \in Ids : RowsOf(v)' = RowsOf(v) /\ Serial(v)' = Serial(v)
  BY <1>1 DEF Row, RowsOf, Serial
<1>3. \A i \in Row : outbox[i].at \in Nat
  BY RowFields
<1>4. \A f \in open : f.at \in Nat /\ f.user \in Ids
  BY RowTyped
<1>5. Stamped'
  BY <1>1, <1>2, <1>3, <1>4 DEF TransactionInv, Stamped
<1>6. Undisturbed(e)'
  BY <1>1, <1>2, <1>3 DEF TransactionInv, Stamped, Undisturbed, RowsOf
<1>7. \A f \in open : Undisturbed(f)'
  BY <1>1, <1>2, <1>4 DEF TransactionInv, Undisturbed
<1>8. Ordered' /\ LastWins'
  BY <1>1, <1>2 DEF TransactionInv, Ordered, LastWins
<1> QED BY <1>1, <1>5, <1>6, <1>7, <1>8 DEF TransactionInv

(* A statement that misses the row does not match it. *)
LEMMA UpdateKeeps ==
  ASSUME TypeOK, TransactionInv, NEW e \in open, Update(e)
  PROVE  TransactionInv'
<1>1. PICK x : /\ open' = (open \ {e}) \cup {x}
               /\ x.at = e.at /\ x.user = e.user /\ x.type = e.type
               /\ x.stage = "missed" => ~Matches(e.type, status[e.user])
  <2>1. e \in Transaction
    BY DEF TypeOK
  <2>2. PICK stage \in {"wrote", "missed"} :
          /\ open' = (open \ {e}) \cup {[e EXCEPT !.stage = stage]}
          /\ stage = "missed" => ~Matches(e.type, status[e.user])
    BY DEF Update, Reach
  <2>3. PICK y : y = [e EXCEPT !.stage = stage]
    OBVIOUS
  <2>4. y.at = e.at /\ y.user = e.user /\ y.type = e.type /\ y.stage = stage
    BY <2>1, <2>3 DEF Transaction
  <2> QED BY <2>2, <2>3, <2>4
<1>2. UNCHANGED <<started, overlapped, status, outbox>>
  BY DEF Update
<1>3. UNCHANGED Row /\ \A v \in Ids : RowsOf(v)' = RowsOf(v) /\ Serial(v)' = Serial(v)
  BY <1>2 DEF Row, RowsOf, Serial
<1>4. \A f \in open : f.at \in Nat /\ f.user \in Ids
  BY RowTyped
<1>5. Stamped'
  BY <1>1, <1>2, <1>3 DEF TransactionInv, Stamped
<1>6. \A f \in open' : Undisturbed(f)'
  BY <1>1, <1>2, <1>3, <1>4 DEF TransactionInv, Undisturbed
<1>7. Ordered' /\ LastWins'
  BY <1>2, <1>3 DEF TransactionInv, Ordered, LastWins
<1> QED BY <1>5, <1>6, <1>7 DEF TransactionInv

(* The stamp of a transaction that is rolled back is no other's. *)
LEMMA RollbackKeeps ==
  ASSUME TypeOK, TransactionInv, NEW e \in open, Rollback(e)
  PROVE  TransactionInv'
<1>1. /\ open' = open \ {e} /\ overlapped' = overlapped \ {e.at}
      /\ UNCHANGED <<started, status, outbox>>
  BY DEF Rollback
<1>2. UNCHANGED Row /\ \A v \in Ids : RowsOf(v)' = RowsOf(v)
  BY <1>1 DEF Row, RowsOf
<1>3. \A i \in Row : outbox[i].at \in overlapped' <=> outbox[i].at \in overlapped
  BY <1>1 DEF TransactionInv, Stamped
<1>4. \A f \in open' : f.at \in overlapped' <=> f.at \in overlapped
  BY <1>1 DEF TransactionInv, Stamped
<1>5. \A f \in open : f.user \in Ids
  BY RowTyped
<1>6. Stamped'
  BY <1>1, <1>2 DEF TransactionInv, Stamped
<1>7. \A f \in open' : Undisturbed(f)'
  BY <1>1, <1>2, <1>4, <1>5 DEF TransactionInv, Undisturbed
<1>8. \A v \in Ids : Serial(v)' <=> Serial(v)
  BY <1>1, <1>2, <1>3 DEF Serial, RowsOf
<1>9. Ordered'
  BY <1>1, <1>2, <1>3 DEF TransactionInv, Ordered, RowsOf
<1>10. LastWins'
  BY <1>1, <1>2, <1>8 DEF TransactionInv, LastWins
<1> QED BY <1>6, <1>7, <1>9, <1>10 DEF TransactionInv

(* A commit disturbs whoever is open for the same user.  Its row, if it    *)
(* was itself undisturbed, is the youngest and tells the state of the      *)
(* users row: that of its statement, or one the statement did not match.   *)
LEMMA CommitKeeps ==
  ASSUME TypeOK, TransactionInv, NEW e \in open, Commit(e)
  PROVE  TransactionInv'
<1> DEFINE last == Len(outbox) + 1
<1>1. /\ e.at \in Nat /\ e.user \in Ids /\ e.type \in EventType /\ RowOf(e) \in Event
      /\ outbox \in Seq(Event) /\ outbox' = Append(outbox, RowOf(e))
  BY RowTyped DEF Commit, TypeOK
<1>2. /\ Row' = Row \cup {last}
      /\ \A i \in Row : outbox'[i] = outbox[i] /\ i < last
  BY <1>1, Grown
<1>3. /\ outbox'[last].at = e.at /\ outbox'[last].user = e.user /\ outbox'[last].type = e.type
      /\ last \in Nat /\ last \notin Row
  <2>1. outbox'[last] = RowOf(e) /\ last \in Nat
    BY <1>1, AppendProperties, RowFields
  <2> QED BY <1>2, <2>1, RowFields DEF RowOf
<1> HIDE DEF last
<1>4. /\ open' = open \ {e} /\ UNCHANGED started
      /\ overlapped \subseteq overlapped'
      /\ \A f \in open' : f.user = e.user => f.at \in overlapped'
      /\ \A f \in open' : f.user # e.user => f.at \in overlapped \/ f.at \notin overlapped'
  <2>1. /\ open' = open \ {e} /\ UNCHANGED started
        /\ overlapped' = overlapped \cup {f.at : f \in {f \in open' : f.user = e.user}}
    BY DEF Commit
  <2> QED BY <2>1 DEF TransactionInv, Stamped
<1>5. \A v \in Ids : v # e.user => RowsOf(v)' = RowsOf(v) /\ status'[v] = status[v]
  BY <1>2, <1>3 DEF RowsOf, Commit, TypeOK
<1>6. RowsOf(e.user)' = RowsOf(e.user) \cup {last}
  BY <1>2, <1>3 DEF RowsOf
<1>7. \A v \in Ids : Serial(v)' => Serial(v)
  BY <1>2, <1>4, <1>5, <1>6 DEF Serial, RowsOf
<1>8. \A f \in open : f.user \in Ids /\ f.at \in Nat
  BY RowTyped
<1>9. Stamped'
  BY <1>2, <1>3, <1>4 DEF TransactionInv, Stamped
<1>10. ASSUME NEW f \in open' PROVE Undisturbed(f)'
  <2>1. CASE f.user = e.user
    BY <1>4, <2>1 DEF Undisturbed
  <2>2. CASE f.user # e.user
    <3>1. Undisturbed(f) /\ f.user \in Ids
      BY <1>4, <1>8 DEF TransactionInv
    <3>2. \A k \in RowsOf(f.user) : outbox'[k] = outbox[k]
      BY <1>2 DEF RowsOf
    <3> QED BY <1>4, <1>5, <2>2, <3>1, <3>2 DEF Undisturbed
  <2> QED BY <2>1, <2>2
<1>11. Ordered'
  <2>1. ASSUME NEW v \in Ids, NEW k \in RowsOf(v), NEW i \in RowsOf(v), k < i,
               outbox'[i].at \notin overlapped'
        PROVE  outbox'[k].at < outbox'[i].at
    BY <1>2, <1>4, <2>1 DEF TransactionInv, Ordered, RowsOf
  <2>2. ASSUME NEW k \in RowsOf(e.user), e.at \notin overlapped'
        PROVE  outbox'[k].at < e.at
    BY <1>2, <1>4, <2>2 DEF TransactionInv, Undisturbed, RowsOf
  <2>3. \A k \in RowsOf(e.user) : k \in Nat /\ k < last
    BY <1>2, RowFields DEF RowsOf
  <2> QED BY <1>3, <1>5, <1>6, <2>1, <2>2, <2>3 DEF Ordered
<1>12. LastWins'
  <2>1. ASSUME NEW v \in Ids, v # e.user, status'[v] # "absent", Serial(v)',
               NEW i \in RowsOf(v)', \A k \in RowsOf(v)' : k <= i
        PROVE  status'[v] = Effect(outbox'[i].type)
    BY <1>2, <1>5, <1>7, <2>1 DEF TransactionInv, LastWins, RowsOf
  <2>2. ASSUME status'[e.user] # "absent", Serial(e.user)',
               NEW i \in RowsOf(e.user)', \A k \in RowsOf(e.user)' : k <= i
        PROVE  status'[e.user] = Effect(outbox'[i].type)
    <3>1. i = last
      BY <1>2, <1>3, <1>6, <2>2, RowFields DEF RowsOf
    <3>2. e.at \notin overlapped
      BY <1>3, <1>4, <1>6, <2>2 DEF Serial
    <3>3. CASE e.stage = "wrote"
      BY <1>1, <1>3, <3>1, <3>3 DEF Commit, TypeOK
    <3>4. CASE e.stage = "missed"
      <4>1. status'[e.user] = status[e.user] /\ ~Matches(e.type, status[e.user])
        BY <3>2, <3>4 DEF Commit, TransactionInv, Undisturbed
      <4>2. status[e.user] \in {"active", "deleted"}
        BY <1>1, <2>2, <4>1 DEF TypeOK
      <4>3. e.type = "deleted" /\ status[e.user] = "deleted"
        BY <1>1, <4>1, <4>2 DEF Matches, EventType
      <4> QED BY <1>3, <3>1, <4>1, <4>3 DEF Effect
    <3> QED BY <3>3, <3>4 DEF Commit
  <2> QED BY <2>1, <2>2 DEF LastWins
<1> QED BY <1>9, <1>10, <1>11, <1>12 DEF TransactionInv

LEMMA TransactionStep == TypeOK /\ TransactionInv /\ [Next]_vars => TransactionInv'
<1> SUFFICES ASSUME TypeOK, TransactionInv, [Next]_vars PROVE TransactionInv'
  OBVIOUS
<1>1. CASE UNCHANGED identity
  <2>1. UNCHANGED Row /\ \A v : RowsOf(v)' = RowsOf(v) /\ Serial(v)' = Serial(v)
    BY <1>1 DEF identity, Row, RowsOf, Serial
  <2>2. UNCHANGED <<started, open, overlapped, status, outbox>>
    BY <1>1 DEF identity
  <2>3. Stamped' /\ \A e \in open : Undisturbed(e)'
    BY <2>1, <2>2 DEF TransactionInv, Stamped, Undisturbed
  <2>4. Ordered' /\ LastWins'
    BY <2>1, <2>2 DEF TransactionInv, Ordered, LastWins
  <2> QED BY <2>2, <2>3, <2>4 DEF TransactionInv
<1>2. ASSUME NEW u \in Ids, Register(u) \/ DeleteUser(u) \/ RestoreUser(u) PROVE TransactionInv'
  BY <1>2, BeginKeeps DEF Register, DeleteUser, RestoreUser
<1>3. ASSUME NEW r \in Relays,
             \/ FetchUnpublishedOutbox(r) \/ Publish(r) \/ PublishFails(r)
             \/ MarkOutboxPublished(r) \/ Stop(r)
      PROVE  TransactionInv'
  BY <1>1, <1>3 DEF FetchUnpublishedOutbox, Publish, PublishFails, MarkOutboxPublished, Stop
<1>4. ASSUME NEW i \in Row, Forget(i) PROVE TransactionInv'
  BY <1>1, <1>4 DEF Forget
<1>5. CASE UNCHANGED vars
  BY <1>1, <1>5 DEF vars
<1> QED BY <1>2, <1>3, <1>4, <1>5, UpdateKeeps, RollbackKeeps, CommitKeeps DEF Next

LEMMA InitTransactions == Init => TransactionInv
<1> SUFFICES ASSUME Init PROVE TransactionInv
  OBVIOUS
<1>1. Row = {} /\ open = {} /\ \A u \in Ids : RowsOf(u) = {}
  BY DEF Init, Row, RowsOf
<1> QED BY <1>1 DEF TransactionInv, Stamped, Ordered, LastWins

(* The last message about a user is about its last row: that row was sent, *)
(* every earlier one was sent before it, and none was sent twice.          *)
LEMMA LastTold ==
  ASSUME TypeOK, CausalOrder, TransactionInv, NEW u \in Ids, status[u] # "absent",
         Serial(u), RowsOf(u) \subseteq Delivered, Once(u)
  PROVE  Told(u)
<1> SUFFICES ASSUME NEW n \in DOMAIN stream, outbox[stream[n]].user = u,
                    \A m \in (n + 1)..Len(stream) : outbox[stream[m]].user # u
             PROVE  status[u] = Effect(outbox[stream[n]].type)
  BY DEF Told
<1>1. /\ DOMAIN stream = 1..Len(stream) /\ Len(stream) \in Nat
      /\ \A m \in DOMAIN stream : stream[m] \in Row
  BY LenProperties, ElementOfSeq DEF TypeOK
<1>2. stream[n] \in RowsOf(u)
  BY <1>1 DEF RowsOf
<1>3. ASSUME NEW last \in RowsOf(u), stream[n] < last PROVE FALSE
  <2>1. PICK p \in DOMAIN stream : stream[p] = last
    BY DEF Delivered
  <2>2. p <= n
    BY <1>1, <2>1 DEF RowsOf
  <2>3. Precedes(stream[n], stream[p])
    BY <1>2, <1>3, <2>1 DEF TransactionInv, Ordered, Serial, Precedes
  <2>4. PICK m \in 1..(p - 1) : stream[m] = stream[n]
    BY <1>1, <2>3 DEF CausalOrder
  <2>5. m \in DOMAIN stream /\ m # n
    BY <1>1, <2>2, <2>4
  <2> QED BY <2>4, <2>5 DEF Once
<1>4. \A k \in RowsOf(u) : k <= stream[n]
  BY <1>2, <1>3, RowFields DEF RowsOf
<1> QED BY <1>2, <1>4 DEF TransactionInv, LastWins

(* Once every row of an existing user is delivered, the last message about *)
(* it tells the state of the user, for any number of relays and whatever   *)
(* failed or is still under way, if no two of its committed transactions   *)
(* overlapped and none of its messages was duplicated.                     *)
THEOREM SerialHistoryToldCorrect == Spec => []SerialHistoryTold
<1>1. TypeOK /\ CausalOrder /\ TransactionInv => SerialHistoryTold
  BY LastTold DEF SerialHistoryTold
<1> QED BY <1>1, InitTyped, TypedStep, InitOrdered, SentStep, BatchedStep, CausalOrderStep,
           InitTransactions, TransactionStep, PTL DEF Spec

-----------------------------------------------------------------------------
(* Transactions are numbered within the bound. *)
Counted ==
  /\ IsFiniteSet(open)
  /\ Cardinality(open) + Len(outbox) <= started
  /\ started <= MaxTx

(* An element more adds at most one to the size. *)
LEMMA OneMore ==
  ASSUME NEW S, IsFiniteSet(S), NEW x
  PROVE  /\ IsFiniteSet(S \cup {x})
         /\ Cardinality(S \cup {x}) \in Nat
         /\ Cardinality(S \cup {x}) <= Cardinality(S) + 1
<1>1. Cardinality(S) \in Nat
  BY FS_CardinalityType
<1>2. IsFiniteSet(S \cup {x}) /\ Cardinality(S \cup {x}) \in {Cardinality(S), Cardinality(S) + 1}
  BY FS_AddElement
<1> QED BY <1>1, <1>2

(* An element less takes one from the size. *)
LEMMA OneLess ==
  ASSUME NEW S, IsFiniteSet(S), NEW x \in S
  PROVE  /\ IsFiniteSet(S \ {x})
         /\ Cardinality(S \ {x}) \in Nat
         /\ Cardinality(S \ {x}) + 1 = Cardinality(S)
<1>1. Cardinality(S) \in Nat
  BY FS_CardinalityType
<1>2. IsFiniteSet(S \ {x}) /\ Cardinality(S \ {x}) = Cardinality(S) - 1
  BY FS_RemoveElement
<1>3. Cardinality(S \ {x}) \in Nat
  BY <1>2, FS_CardinalityType
<1> QED BY <1>1, <1>2, <1>3

(* Open transactions and rows together stay within the transactions begun. *)
LEMMA CountedStep == TypeOK /\ Counted /\ [Next]_vars => Counted'
<1> SUFFICES ASSUME TypeOK, Counted, [Next]_vars PROVE Counted'
  OBVIOUS
<1>0. /\ Len(outbox) \in Nat /\ started \in Nat /\ Cardinality(open) \in Nat /\ MaxTx \in Nat
      /\ outbox \in Seq(Event)
  BY RowFields, FS_CardinalityType, OutboxAssumption DEF TypeOK, Counted
<1>1. ASSUME NEW u \in Ids, NEW type, Begin(u, type) PROVE Counted'
  <2> PICK e : e = [at |-> started', user |-> u, type |-> type, stage |-> "waits"]
    OBVIOUS
  <2>1. open' = open \cup {e} /\ started' = started + 1 /\ started < MaxTx /\ outbox' = outbox
    BY <1>1 DEF Begin
  <2>2. IsFiniteSet(open') /\ Cardinality(open') <= Cardinality(open) + 1
        /\ Cardinality(open') \in Nat
    BY <2>1, OneMore DEF Counted
  <2> QED BY <1>0, <2>1, <2>2 DEF Counted
<1>2. ASSUME NEW e \in open PROVE /\ IsFiniteSet(open \ {e})
                                  /\ Cardinality(open \ {e}) + 1 = Cardinality(open)
                                  /\ Cardinality(open \ {e}) \in Nat
  BY OneLess DEF Counted
<1>3. ASSUME NEW e \in open, Rollback(e) PROVE Counted'
  <2>1. UNCHANGED <<started, outbox>> /\ open' = open \ {e}
    BY <1>3 DEF Rollback
  <2>2. IsFiniteSet(open') /\ Cardinality(open') + 1 = Cardinality(open) /\ Cardinality(open') \in Nat
    BY <1>2, <2>1
  <2>3. Cardinality(open) + Len(outbox) <= started /\ started <= MaxTx
    BY DEF Counted
  <2>4. Cardinality(open') + Len(outbox) <= started
    BY <1>0, <2>2, <2>3
  <2> QED BY <2>1, <2>2, <2>3, <2>4 DEF Counted
<1>4. ASSUME NEW e \in open, Commit(e) PROVE Counted'
  <2>1. Len(outbox') = Len(outbox) + 1
    BY <1>0, <1>4, RowTyped, AppendProperties DEF Commit
  <2>2. UNCHANGED started /\ open' = open \ {e}
    BY <1>4 DEF Commit
  <2>3. IsFiniteSet(open') /\ Cardinality(open') + 1 = Cardinality(open) /\ Cardinality(open') \in Nat
    BY <1>2, <2>2
  <2>4. Cardinality(open) + Len(outbox) <= started /\ started <= MaxTx
    BY DEF Counted
  <2>5. Cardinality(open') + Len(outbox') <= started
    BY <1>0, <2>1, <2>3, <2>4
  <2> QED BY <2>2, <2>3, <2>4, <2>5 DEF Counted
<1>10. ASSUME NEW e \in open, Update(e) PROVE Counted'
  <2>1. PICK x : open' = (open \ {e}) \cup {x}
    BY <1>10 DEF Update, Reach
  <2>2. IsFiniteSet(open') /\ Cardinality(open') <= Cardinality(open \ {e}) + 1
        /\ Cardinality(open') \in Nat
    BY <1>2, <2>1, OneMore
  <2>3. UNCHANGED <<started, outbox>>
    BY <1>10 DEF Update
  <2>4. Cardinality(open \ {e}) + 1 = Cardinality(open) /\ Cardinality(open \ {e}) \in Nat
    BY <1>2
  <2>5. Cardinality(open) + Len(outbox) <= started /\ started <= MaxTx
    BY DEF Counted
  <2>6. Cardinality(open') + Len(outbox) <= started
    BY <1>0, <2>2, <2>4, <2>5
  <2> QED BY <2>2, <2>3, <2>5, <2>6 DEF Counted
<1>5. CASE UNCHANGED identity
  BY <1>5 DEF identity, Counted
<1>6. ASSUME NEW u \in Ids, Register(u) \/ DeleteUser(u) \/ RestoreUser(u) PROVE Counted'
  BY <1>1, <1>6 DEF Register, DeleteUser, RestoreUser
<1>7. CASE UNCHANGED vars
  BY <1>5, <1>7 DEF vars
<1>8. ASSUME NEW r \in Relays,
             \/ FetchUnpublishedOutbox(r) \/ Publish(r) \/ PublishFails(r)
             \/ MarkOutboxPublished(r) \/ Stop(r)
      PROVE  Counted'
  BY <1>5, <1>8 DEF FetchUnpublishedOutbox, Publish, PublishFails, MarkOutboxPublished, Stop
<1>9. ASSUME NEW i \in Row, Forget(i) PROVE Counted'
  BY <1>5, <1>9 DEF Forget
<1> QED BY <1>3, <1>4, <1>6, <1>7, <1>8, <1>9, <1>10 DEF Next

(* Every step of the outbox is a step of AtLeastOnce or a stutter. *)
LEMMA PromiseStep ==
  TypeOK /\ Sent /\ Counted /\ Counted' /\ [Next]_vars => [Promise!Next]_(Promise!vars)
<1> SUFFICES ASSUME TypeOK, Sent, Counted, Counted', [Next]_vars
             PROVE  Promise!Next \/ UNCHANGED <<Row, Delivered, published>>
  BY DEF Promise!vars
<1>0. Row \subseteq 1..MaxTx
  BY RowFields, FS_CardinalityType, OutboxAssumption DEF Row, Counted, TypeOK
<1>1. ASSUME UNCHANGED outbox PROVE Row' = Row
  BY <1>1 DEF Row
<1>2. ASSUME NEW e \in open, Commit(e) PROVE Promise!Next
  <2>1. Row' = Row \cup {Len(outbox) + 1} /\ Len(outbox) + 1 \notin Row
    BY <1>2, RowTyped, Grown, RowFields DEF Commit
  <2>2. UNCHANGED <<Delivered, published>>
    BY <1>2 DEF Commit, broker, Delivered
  <2>3. Len(outbox) + 1 \in 1..MaxTx
    <3>1. Len(outbox') = Len(outbox) + 1
      BY <1>2, RowTyped, AppendProperties DEF Commit, TypeOK
    <3>2. Cardinality(open') \in Nat /\ started \in Nat /\ started' = started
      BY <1>2, FS_CardinalityType DEF Counted, Commit, TypeOK
    <3> QED BY <3>1, <3>2, RowFields, OutboxAssumption DEF Counted
  <2>4. Promise!Accept(Len(outbox) + 1)
    BY <2>1, <2>2 DEF Promise!Accept
  <2> QED BY <2>3, <2>4 DEF Promise!Next
<1>3. ASSUME NEW r \in Relays, batch[r] # {}, Store(Oldest(batch[r])), UNCHANGED <<outbox, published>>
      PROVE  Promise!Next \/ UNCHANGED <<Row, Delivered, published>>
  <2> PICK i \in Row : i = Oldest(batch[r])
    BY <1>3, OldestInSet DEF TypeOK
  <2>1. Delivered \subseteq Delivered' /\ Delivered' \subseteq Delivered \cup {i}
    BY <1>3, Stored
  <2>2. CASE Delivered' = Delivered
    BY <1>1, <1>3, <2>2
  <2>3. CASE Delivered' # Delivered
    <3>1. i \notin Delivered /\ Delivered' = Delivered \cup {i}
      BY <2>1, <2>3
    <3>2. Promise!Deliver(i)
      BY <1>1, <1>3, <3>1 DEF Promise!Deliver
    <3> QED BY <1>0, <3>2 DEF Promise!Next
  <2> QED BY <2>2, <2>3
<1>4. ASSUME NEW r \in Relays, acked[r] # 0, published' = published \cup {acked[r]},
             UNCHANGED <<outbox, stream>>
      PROVE  Promise!Next \/ UNCHANGED <<Row, Delivered, published>>
  <2>1. UNCHANGED <<Row, Delivered>> /\ published' = published \cup {acked[r]}
    BY <1>1, <1>4 DEF Delivered
  <2>2. acked[r] \in Delivered
    BY <1>4 DEF Sent
  <2>3. acked[r] \in 1..MaxTx
    BY <1>0, <2>2, DeliveredRows
  <2>4. CASE acked[r] \in published
    BY <2>1, <2>4
  <2>5. CASE acked[r] \notin published
    <3>1. Promise!Settle(acked[r])
      BY <2>1, <2>2, <2>5 DEF Promise!Settle
    <3> QED BY <2>3, <3>1 DEF Promise!Next
  <2> QED BY <2>4, <2>5
<1>5. ASSUME UNCHANGED <<outbox, stream, published>> PROVE UNCHANGED <<Row, Delivered, published>>
  BY <1>1, <1>5 DEF Delivered
<1>6. ASSUME NEW r \in Relays, Publish(r)
      PROVE  Promise!Next \/ UNCHANGED <<Row, Delivered, published>>
  BY <1>3, <1>6 DEF Publish, identity
<1>7. ASSUME NEW r \in Relays, PublishFails(r)
      PROVE  Promise!Next \/ UNCHANGED <<Row, Delivered, published>>
  BY <1>3, <1>5, <1>7 DEF PublishFails, identity, broker
<1>8. ASSUME NEW r \in Relays, FetchUnpublishedOutbox(r)
      PROVE  UNCHANGED <<Row, Delivered, published>>
  BY <1>5, <1>8 DEF FetchUnpublishedOutbox, identity, broker
<1>14. ASSUME NEW r \in Relays, MarkOutboxPublished(r) \/ Stop(r)
       PROVE  Promise!Next \/ UNCHANGED <<Row, Delivered, published>>
  <2>1. UNCHANGED <<outbox, stream>>
    BY <1>14 DEF MarkOutboxPublished, Stop, identity, broker
  <2>2. published' = published \/ (acked[r] # 0 /\ published' = published \cup {acked[r]})
    BY <1>14 DEF MarkOutboxPublished, Stop
  <2> QED BY <1>4, <1>5, <2>1, <2>2
<1>9. ASSUME NEW i \in Row, Forget(i) PROVE UNCHANGED <<Row, Delivered, published>>
  BY <1>5, <1>9 DEF Forget, identity
<1>10. ASSUME NEW e \in open, Update(e) \/ Rollback(e)
       PROVE  UNCHANGED <<Row, Delivered, published>>
  BY <1>5, <1>10 DEF Update, Rollback, broker
<1>11. ASSUME NEW u \in Ids, Register(u) \/ DeleteUser(u) \/ RestoreUser(u)
       PROVE  UNCHANGED <<Row, Delivered, published>>
  BY <1>5, <1>11 DEF Register, DeleteUser, RestoreUser, Begin, broker
<1>12. CASE UNCHANGED vars
  BY <1>5, <1>12 DEF vars, identity, broker
<1>13. CASE Next
  BY <1>2, <1>6, <1>7, <1>8, <1>9, <1>10, <1>11, <1>13, <1>14 DEF Next
<1> QED BY <1>12, <1>13

(* The outbox implements at-least-once delivery, its safety part: only     *)
(* committed rows are delivered, only delivered rows are marked, and       *)
(* nothing delivered or marked is taken back.                              *)
THEOREM OutboxIsSafe == Spec => Promise!Safe
<1>1. Init => Promise!Init
  BY DEF Init, Promise!Init, Row, Delivered
<1>2. Init => Counted
  BY FS_EmptySet, OutboxAssumption DEF Init, Counted
<1> QED BY <1>1, <1>2, InitTyped, TypedStep, InitOrdered, SentStep, CountedStep, PromiseStep, PTL
        DEF Spec, Promise!Safe

(* What the promise comes to: a row that is marked was delivered, and what *)
(* was delivered was committed.                                            *)
THEOREM MarkedWasDelivered == Spec => []Promise!TypeOK
<1>1. Promise!Init => Promise!TypeOK
  BY DEF Promise!Init, Promise!TypeOK
<1>2. Promise!TypeOK /\ [Promise!Next]_(Promise!vars) => Promise!TypeOK'
  BY DEF Promise!TypeOK, Promise!Next, Promise!vars, Promise!Accept, Promise!Deliver, Promise!Settle
<1> QED BY <1>1, <1>2, OutboxIsSafe, PTL DEF Promise!Safe

-----------------------------------------------------------------------------
(* Tenancy.                                                                *)

(* The program counter of a request tells its kind. *)
LEMMA RequestFields ==
  ASSUME NEW r \in Request
  PROVE  /\ r.pc = "idle" <=> r = Idle
         /\ r.pc \in {"project?", "exists?", "issue"} <=> r \in Opening
         /\ r.pc \in {"owner?", "member?", "permissions?", "answer"} <=> r \in Validating
         /\ r # Idle <=> r \in Opening \/ r \in Validating
BY DEF Request, Idle, Opening, Validating

(* A request that goes on keeps everything else. *)
LEMMA OpeningFields ==
  ASSUME NEW r \in Opening, NEW pc \in {"project?", "exists?", "issue"}
  PROVE  /\ [r EXCEPT !.pc = pc] \in Opening /\ [r EXCEPT !.pc = pc].pc = pc
         /\ [r EXCEPT !.pc = pc].to = r.to /\ [r EXCEPT !.pc = pc].barred = r.barred
BY DEF Opening

LEMMA ValidatingFields ==
  ASSUME NEW r \in Validating, NEW pc \in {"owner?", "member?", "permissions?", "answer"}
  PROVE  /\ [r EXCEPT !.pc = pc] \in Validating /\ [r EXCEPT !.pc = pc].pc = pc
         /\ [r EXCEPT !.pc = pc].to = r.to /\ [r EXCEPT !.pc = pc].barred = r.barred
         /\ [r EXCEPT !.pc = pc].lacking = r.lacking
BY DEF Validating

(* A request for which a reason is lifted keeps everything else, *)
LEMMA OpeningLifted ==
  ASSUME NEW r \in Opening, NEW x
  PROVE  /\ [r EXCEPT !.barred = @ \ {x}] \in Opening /\ [r EXCEPT !.barred = @ \ {x}].pc = r.pc
         /\ [r EXCEPT !.barred = @ \ {x}].to = r.to
         /\ [r EXCEPT !.barred = @ \ {x}].barred = r.barred \ {x}
BY DEF Opening

LEMMA ValidatingLifted ==
  ASSUME NEW r \in Validating, NEW x
  PROVE  /\ [r EXCEPT !.barred = @ \ {x}] \in Validating /\ [r EXCEPT !.barred = @ \ {x}].pc = r.pc
         /\ [r EXCEPT !.barred = @ \ {x}].to = r.to
         /\ [r EXCEPT !.barred = @ \ {x}].barred = r.barred \ {x}
         /\ [r EXCEPT !.barred = @ \ {x}].lacking = r.lacking
         /\ [r EXCEPT !.barred = @ \ {x}].scopes = r.scopes
BY DEF Validating

(* and so does one whose owner is given a permission. *)
LEMMA ValidatingGained ==
  ASSUME NEW r \in Validating, NEW x
  PROVE  /\ [r EXCEPT !.lacking = @ \ {x}] \in Validating /\ [r EXCEPT !.lacking = @ \ {x}].pc = r.pc
         /\ [r EXCEPT !.lacking = @ \ {x}].to = r.to
         /\ [r EXCEPT !.lacking = @ \ {x}].barred = r.barred
         /\ [r EXCEPT !.lacking = @ \ {x}].lacking = r.lacking \ {x}
         /\ [r EXCEPT !.lacking = @ \ {x}].scopes = r.scopes
BY DEF Validating

LEMMA ValidatingLoaded ==
  ASSUME NEW r \in Validating, NEW S
  PROVE  /\ [r EXCEPT !.pc = "answer", !.scopes = @ \cap S] \in Validating
         /\ [r EXCEPT !.pc = "answer", !.scopes = @ \cap S].pc = "answer"
         /\ [r EXCEPT !.pc = "answer", !.scopes = @ \cap S].to = r.to
         /\ [r EXCEPT !.pc = "answer", !.scopes = @ \cap S].barred = r.barred
         /\ [r EXCEPT !.pc = "answer", !.scopes = @ \cap S].lacking = r.lacking
         /\ [r EXCEPT !.pc = "answer", !.scopes = @ \cap S].scopes = r.scopes \cap S
BY DEF Validating

(* A permission is held for a binding tenant-wide or for its very project. *)
LEMMA ScopedBy ==
  ASSUME NEW b \in Binding
  PROVE  PermissionsScoped(b) =
           {perm \in Perms : \E c \in {b, [b EXCEPT !.project = Wide]} : [to |-> c, perm |-> perm] \in held}
<1>1. [b EXCEPT !.project = b.project] = b
  BY DEF Binding
<1> QED BY <1>1 DEF PermissionsScoped

-----------------------------------------------------------------------------
(* The inductive invariant.  What bars a request bars it still, and is     *)
(* none of what the request was checked for; what it lacks its owner does  *)
(* not hold.                                                               *)

Bars(b) ==
  {x \in Reason : \/ x = "gone" /\ users[b.user] = "gone"
                  \/ x = "project" /\ ~Within(b.project, b.tenant)
                  \/ x = "deleted" /\ users[b.user] # "active"
                  \/ x = "nonmember" /\ ~IsActiveMember(b)}

Passed(pc) ==
  (IF pc \in {"project?", "exists?", "issue"} THEN {"deleted", "nonmember"} ELSE {"gone", "project"})
    \cup (IF pc \in {"exists?", "issue"} THEN {"project"} ELSE {})
    \cup (IF pc = "issue" THEN {"gone"} ELSE {})
    \cup (IF pc \in {"member?", "permissions?", "answer"} THEN {"deleted"} ELSE {})
    \cup (IF pc \in {"permissions?", "answer"} THEN {"nonmember"} ELSE {})

Admitted(b) == <<b.user, b.tenant>> \in everMember

Sound(r) ==
  /\ r \in Request
  /\ r # Idle => r.barred \subseteq Bars(r.to) /\ r.barred \cap Passed(r.pc) = {}
  /\ r \in Opening => /\ Admitted(r.to)
                      /\ r.pc # "project?" => Within(r.to.project, r.to.tenant)
  /\ r \in Validating => /\ r.lacking \cap PermissionsScoped(r.to) = {}
                         /\ r.pc = "answer" => r.scopes \cap r.lacking = {}

Standing ==
  /\ users \in [Users -> {"active", "deleted", "gone"}]
  /\ memberships \subseteq everMember /\ everMember \subseteq Users \X Tenants
  /\ \A m \in memberships : users[m[1]] # "gone"
  /\ held \subseteq [to : Binding, perm : Perms]

Issued ==
  /\ bindings \subseteq Binding
  /\ \A b \in bindings : Admitted(b) /\ Within(b.project, b.tenant)
  /\ Minted \subseteq Keys /\ api_keys \in [Minted -> Key]
  /\ \A k \in Minted : /\ users[api_keys[k].to.user] # "gone"
                       /\ Admitted(api_keys[k].to)
                       /\ Within(api_keys[k].to.project, api_keys[k].to.tenant)

TenancyInv ==
  /\ Standing /\ Issued
  /\ req \in [Handlers -> Request]
  /\ \A h \in Handlers : Sound(req[h])

LEMMA TenancyInitInv == TenancyInit => TenancyInv
<1> SUFFICES ASSUME TenancyInit PROVE TenancyInv
  OBVIOUS
<1>1. Standing
  BY DEF TenancyInit, Standing
<1>2. Minted = {} /\ api_keys \in [Minted -> Key]
  BY DEF TenancyInit, Minted
<1>3. Issued
  BY <1>2 DEF TenancyInit, Issued
<1>4. Idle \in Request /\ Idle \notin Opening /\ Idle \notin Validating
  BY DEF Request, Idle, Opening, Validating
<1> QED BY <1>1, <1>3, <1>4 DEF TenancyInit, TenancyInv, Sound

(* The inductive invariant implies the properties it is for. *)
LEMMA TenancyInvImplies == TenancyInv => TenancyTypeOK /\ NothingOnceBarred /\ BoundWhereAdmitted
<1> SUFFICES ASSUME TenancyInv PROVE TenancyTypeOK /\ NothingOnceBarred /\ BoundWhereAdmitted
  OBVIOUS
<1>1. TenancyTypeOK
  BY DEF TenancyInv, Standing, Issued, TenancyTypeOK
<1>2. BoundWhereAdmitted
  BY DEF TenancyInv, Issued, Admitted, BoundWhereAdmitted
<1>3. ASSUME NEW h \in Handlers, req[h].pc \in {"issue", "answer"} PROVE req[h].barred = {}
  <2>1. Sound(req[h]) /\ req[h] # Idle
    BY <1>3, RequestFields DEF TenancyInv
  <2>2. Bars(req[h].to) \subseteq Passed("issue") /\ Bars(req[h].to) \subseteq Passed("answer")
    BY DEF Bars, Passed
  <2> QED BY <1>3, <2>1, <2>2 DEF Sound
<1>4. ASSUME NEW h \in Handlers, req[h].pc = "answer" PROVE req[h].scopes \cap req[h].lacking = {}
  BY <1>4, RequestFields DEF TenancyInv, Sound
<1> QED BY <1>1, <1>2, <1>3, <1>4 DEF NothingOnceBarred

-----------------------------------------------------------------------------
(* A step of a request. *)

LEMMA IdleSound == Sound(Idle)
BY DEF Sound, Request, Idle, Opening, Validating

LEMMA RequestStep ==
  ASSUME TenancyInv, NEW h \in Handlers, NEW r, Sound(r), Become(h, r),
         UNCHANGED <<standing, bindings, api_keys>>
  PROVE  TenancyInv'
<1>1. Standing' /\ Issued'
  BY DEF TenancyInv, Standing, Issued, standing, Admitted, Minted
<1>2. r \in Request /\ req' = [req EXCEPT ![h] = r]
  BY DEF Become, Sound
<1>3. req' \in [Handlers -> Request]
  BY <1>2 DEF TenancyInv
<1>4. ASSUME NEW x, Sound(x) PROVE Sound(x)'
  BY <1>4 DEF Sound, Bars, Admitted, IsActiveMember, PermissionsScoped, standing
<1>5. ASSUME NEW i \in Handlers PROVE Sound(req[i])'
  <2>1. PICK x : x = req'[i]
    OBVIOUS
  <2>2. Sound(x)
    BY <1>2, <2>1 DEF TenancyInv
  <2> QED BY <1>4, <2>1, <2>2 DEF Sound
<1> QED BY <1>1, <1>3, <1>5 DEF TenancyInv

(* A login or a switch begins for a member. *)
LEMMA OpenStep ==
  ASSUME TenancyInv, NEW h \in Handlers, NEW u \in Users, NEW t \in Tenants, NEW b \in Binding,
         IssueForActiveTenant(h, u, t) \/ SwitchTenant(h, b)
  PROVE  TenancyInv'
<1>1. CASE IssueForActiveTenant(h, u, t)
  <2> DEFINE c == [user |-> u, tenant |-> t, project |-> Wide]
             r == [pc |-> "issue", to |-> c, barred |-> {}]
  <2>1. c \in Binding /\ Within(c.project, c.tenant) /\ Admitted(c)
    BY <1>1, TenancyAssumption
    DEF IssueForActiveTenant, Binding, Scope, Within, Admitted, TenancyInv, Standing
  <2> HIDE DEF c
  <2>2. r \in Opening /\ r \notin Validating
    BY <2>1 DEF Opening, Validating
  <2>3. Sound(r)
    BY <2>1, <2>2 DEF Sound, Request
  <2> QED BY <1>1, <2>3, RequestStep DEF IssueForActiveTenant, c
<1>2. CASE SwitchTenant(h, b)
  <2>1. PICK pc \in {"exists?", "project?"} :
          /\ Become(h, [pc |-> pc, to |-> b, barred |-> BarsToToken(b)])
          /\ pc = "exists?" => b.project = Wide
    BY <1>2 DEF SwitchTenant
  <2> DEFINE r == [pc |-> pc, to |-> b, barred |-> BarsToToken(b)]
  <2>2. r \in Opening /\ r \notin Validating
    BY DEF Opening, Validating, BarsToToken
  <2>3. IsActiveMember(b) /\ Admitted(b)
    BY <1>2 DEF SwitchTenant, IsActiveMember, Admitted, TenancyInv, Standing
  <2>4. pc = "exists?" => Within(b.project, b.tenant)
    BY <2>1, TenancyAssumption DEF Within
  <2>5. BarsToToken(b) \subseteq Bars(b) /\ BarsToToken(b) \cap Passed(pc) = {}
    BY <2>3, <2>4 DEF BarsToToken, Bars, Passed
  <2>6. Sound(r)
    BY <2>2, <2>3, <2>4, <2>5 DEF Sound, Request
  <2> QED BY <1>2, <2>1, <2>6, RequestStep DEF SwitchTenant
<1> QED BY <1>1, <1>2

(* A request passes a check of what bars it no longer. *)
LEMMA OpeningAdvanced ==
  ASSUME TenancyInv, NEW h \in Handlers, req[h] \in Opening, NEW pc \in {"exists?", "issue"},
         Within(req[h].to.project, req[h].to.tenant),
         Bars(req[h].to) \cap (Passed(pc) \ Passed(req[h].pc)) = {}
  PROVE  Sound([req[h] EXCEPT !.pc = pc])
<1> DEFINE r == [req[h] EXCEPT !.pc = pc]
<1>0. pc \in {"project?", "exists?", "issue"}
  OBVIOUS
<1>1. r \in Opening /\ r.pc = pc /\ r.to = req[h].to /\ r.barred = req[h].barred
  BY <1>0, OpeningFields, ZenonT(40)
<1>2. r \in Request /\ r \notin Validating /\ req[h] # Idle
  BY <1>1 DEF Request, Opening, Validating, Idle
<1>3. Sound(req[h])
  BY DEF TenancyInv
<1> HIDE DEF r
<1>4. Sound(r)
  BY <1>1, <1>2, <1>3 DEF Sound
<1> QED BY <1>4 DEF r

LEMMA ValidatingAdvanced ==
  ASSUME TenancyInv, NEW h \in Handlers, req[h] \in Validating, NEW pc \in {"member?", "permissions?"},
         Bars(req[h].to) \cap (Passed(pc) \ Passed(req[h].pc)) = {}
  PROVE  Sound([req[h] EXCEPT !.pc = pc])
<1> DEFINE r == [req[h] EXCEPT !.pc = pc]
<1>0. pc \in {"owner?", "member?", "permissions?", "answer"}
  OBVIOUS
<1>1. /\ r \in Validating /\ r.pc = pc /\ r.to = req[h].to /\ r.barred = req[h].barred
      /\ r.lacking = req[h].lacking
  BY <1>0, ValidatingFields
<1>2. r \in Request /\ r \notin Opening /\ req[h] # Idle
  BY <1>1 DEF Request, Opening, Validating, Idle
<1>3. Sound(req[h])
  BY DEF TenancyInv
<1> HIDE DEF r
<1>4. Sound(r)
  BY <1>1, <1>2, <1>3 DEF Sound
<1> QED BY <1>4 DEF r

LEMMA CheckProjectStep ==
  ASSUME TenancyInv, NEW h \in Handlers, CheckProject(h)
  PROVE  TenancyInv'
<1>1. req[h] \in Opening /\ req[h].pc = "project?"
  BY RequestFields DEF CheckProject, TenancyInv
<1>2. CASE Within(req[h].to.project, req[h].to.tenant)
  <2>1. Bars(req[h].to) \cap (Passed("exists?") \ Passed("project?")) = {}
    BY <1>2 DEF Bars, Passed
  <2>2. Sound([req[h] EXCEPT !.pc = "exists?"])
    BY <1>1, <1>2, <2>1, OpeningAdvanced
  <2> QED BY <1>2, <2>2, RequestStep DEF CheckProject, Advance
<1> QED BY <1>2, IdleSound, RequestStep DEF CheckProject

LEMMA FindUserStep ==
  ASSUME TenancyInv, NEW h \in Handlers, FindUser(h)
  PROVE  TenancyInv'
<1>1. req[h] \in Opening /\ req[h].pc = "exists?" /\ Within(req[h].to.project, req[h].to.tenant)
  BY RequestFields DEF FindUser, TenancyInv, Sound
<1>2. CASE users[req[h].to.user] # "gone"
  <2>1. Bars(req[h].to) \cap (Passed("issue") \ Passed("exists?")) = {}
    BY <1>2 DEF Bars, Passed
  <2>2. Sound([req[h] EXCEPT !.pc = "issue"])
    BY <1>1, <2>1, OpeningAdvanced
  <2> QED BY <1>2, <2>2, RequestStep DEF FindUser, Advance
<1> QED BY <1>2, IdleSound, RequestStep DEF FindUser

LEMMA CheckOwnerStep ==
  ASSUME TenancyInv, NEW h \in Handlers, CheckOwner(h)
  PROVE  TenancyInv'
<1>1. req[h] \in Validating /\ req[h].pc = "owner?"
  BY RequestFields DEF CheckOwner, TenancyInv
<1>2. CASE users[req[h].to.user] = "active"
  <2>1. Bars(req[h].to) \cap (Passed("member?") \ Passed("owner?")) = {}
    BY <1>2 DEF Bars, Passed
  <2>2. Sound([req[h] EXCEPT !.pc = "member?"])
    BY <1>1, <2>1, ValidatingAdvanced
  <2> QED BY <1>2, <2>2, RequestStep DEF CheckOwner, Advance
<1> QED BY <1>2, IdleSound, RequestStep DEF CheckOwner

LEMMA CheckMemberStep ==
  ASSUME TenancyInv, NEW h \in Handlers, CheckMember(h)
  PROVE  TenancyInv'
<1>1. req[h] \in Validating /\ req[h].pc = "member?"
  BY RequestFields DEF CheckMember, TenancyInv
<1>2. CASE IsActiveMember(req[h].to)
  <2>1. Bars(req[h].to) \cap (Passed("permissions?") \ Passed("member?")) = {}
    BY <1>2 DEF Bars, Passed
  <2>2. Sound([req[h] EXCEPT !.pc = "permissions?"])
    BY <1>1, <2>1, ValidatingAdvanced
  <2> QED BY <1>2, <2>2, RequestStep DEF CheckMember, Advance
<1> QED BY <1>2, IdleSound, RequestStep DEF CheckMember

(* What the owner lacked it lacks still, so it is not among the            *)
(* permissions that are loaded.                                            *)
LEMMA LoadPermissionsStep ==
  ASSUME TenancyInv, NEW h \in Handlers, LoadPermissions(h)
  PROVE  TenancyInv'
<1> DEFINE S == PermissionsScoped(req[h].to)
           r == [req[h] EXCEPT !.pc = "answer", !.scopes = @ \cap S]
<1>1. req[h] \in Validating /\ req[h].pc = "permissions?" /\ Sound(req[h])
  BY RequestFields DEF LoadPermissions, TenancyInv
<1>2. /\ r \in Validating /\ r.pc = "answer" /\ r.to = req[h].to /\ r.barred = req[h].barred
      /\ r.lacking = req[h].lacking /\ r.scopes = req[h].scopes \cap S
  BY <1>1, ValidatingLoaded
<1>3. r \in Request /\ r \notin Opening /\ req[h] # Idle
  BY <1>1, <1>2 DEF Request, Opening, Validating, Idle
<1>4. Passed("answer") = Passed("permissions?")
  BY DEF Passed
<1>5. Become(h, r) /\ UNCHANGED <<standing, bindings, api_keys>>
  BY DEF LoadPermissions
<1> HIDE DEF r
<1>6. Sound(r)
  BY <1>1, <1>2, <1>3, <1>4 DEF Sound
<1> QED BY <1>5, <1>6, RequestStep

LEMMA ValidateApiKeyStep ==
  ASSUME TenancyInv, NEW h \in Handlers, NEW k \in Keys, ValidateApiKey(h, k)
  PROVE  TenancyInv'
<1> DEFINE b == api_keys[k].to
           r == [pc |-> "owner?", key |-> k, to |-> b, barred |-> BarsToKey(k),
                 lacking |-> Perms \ PermissionsScoped(b), scopes |-> api_keys[k].scopes]
<1>1. k \in Minted /\ api_keys[k] \in Key /\ api_keys[k].state = "live"
  BY DEF ValidateApiKey, TenancyInv, Issued
<1>2. b \in Binding /\ api_keys[k].scopes \in SUBSET Perms
  BY <1>1 DEF Key
<1>3. BarsToKey(k) \subseteq Bars(b) /\ BarsToKey(k) \cap Passed("owner?") = {}
  BY <1>1 DEF BarsToKey, Bars, Passed
<1>4. Become(h, r) /\ UNCHANGED <<standing, bindings, api_keys>>
  BY DEF ValidateApiKey
<1> HIDE DEF b
<1>5. r \in Validating
  BY <1>2 DEF Validating, BarsToKey
<1>6. r \in Request /\ r \notin Opening
  BY <1>5 DEF Request, Opening, Validating
<1>7. Sound(r)
  BY <1>3, <1>5, <1>6 DEF Sound
<1> QED BY <1>4, <1>7, RequestStep

(* The tokens that are issued are bound as the request was admitted. *)
LEMMA IssueTokensStep ==
  ASSUME TenancyInv, NEW h \in Handlers, IssueTokens(h)
  PROVE  TenancyInv'
<1>1. /\ req[h] \in Opening /\ req[h].to \in Binding /\ Admitted(req[h].to)
      /\ Within(req[h].to.project, req[h].to.tenant)
  <2>1. req[h] \in Opening /\ req[h].pc = "issue" /\ Sound(req[h])
    BY RequestFields DEF IssueTokens, TenancyInv
  <2> QED BY <2>1 DEF Sound, Opening
<1>2. bindings' = bindings \cup {req[h].to} /\ UNCHANGED <<standing, api_keys>> /\ Become(h, Idle)
  BY DEF IssueTokens
<1>3. Standing'
  BY <1>2 DEF TenancyInv, Standing, standing
<1>4. Issued'
  BY <1>1, <1>2 DEF TenancyInv, Issued, Admitted, Minted, standing
<1>5. req' = [req EXCEPT ![h] = Idle] /\ req' \in [Handlers -> Request]
  BY <1>2 DEF Become, TenancyInv, Request
<1>6. ASSUME NEW x, Sound(x) PROVE Sound(x)'
  BY <1>2, <1>6 DEF Sound, Bars, Admitted, IsActiveMember, PermissionsScoped, standing
<1>7. ASSUME NEW i \in Handlers PROVE Sound(req[i])'
  <2>1. PICK x : x = req'[i]
    OBVIOUS
  <2>2. Sound(x)
    BY <1>5, <2>1, IdleSound DEF TenancyInv
  <2> QED BY <1>6, <2>1, <2>2 DEF Sound
<1> QED BY <1>3, <1>4, <1>5, <1>7 DEF TenancyInv

-----------------------------------------------------------------------------
(* Steps that change a table. *)

(* Tables only lose rows, and users only go: what bars a request goes on   *)
(* barring it.                                                             *)
Worse ==
  /\ memberships' \subseteq memberships /\ held' \subseteq held /\ everMember \subseteq everMember'
  /\ \A u \in Users : /\ users[u] # "active" => users'[u] # "active"
                      /\ users[u] = "gone" => users'[u] = "gone"

LEMMA WorseStep ==
  ASSUME TenancyInv, Worse, Standing', Issued', UNCHANGED req
  PROVE  TenancyInv'
<1>1. ASSUME NEW r, Sound(r) PROVE Sound(r)'
  <2>1. r # Idle => r.to \in Binding
    BY <1>1, RequestFields DEF Sound, Opening, Validating
  <2>2. ASSUME NEW b \in Binding
        PROVE  /\ Bars(b) \subseteq Bars(b)' /\ PermissionsScoped(b)' \subseteq PermissionsScoped(b)
               /\ Admitted(b) => Admitted(b)'
    BY DEF Worse, Bars, IsActiveMember, PermissionsScoped, Admitted, Binding
  <2>3. ASSUME r # Idle PROVE r.barred \subseteq Bars(r.to)' /\ r.barred \cap Passed(r.pc) = {}
    BY <1>1, <2>1, <2>2, <2>3 DEF Sound
  <2>4. ASSUME r \in Opening PROVE Admitted(r.to)'
    BY <1>1, <2>2, <2>4 DEF Sound, Opening
  <2>5. ASSUME r \in Validating PROVE r.lacking \cap PermissionsScoped(r.to)' = {}
    BY <1>1, <2>2, <2>5 DEF Sound, Validating
  <2> QED BY <1>1, <2>3, <2>4, <2>5 DEF Sound
<1>2. ASSUME NEW h \in Handlers PROVE Sound(req[h])'
  <2>1. PICK x : x = req[h]
    OBVIOUS
  <2>2. Sound(x)
    BY <2>1 DEF TenancyInv
  <2> QED BY <1>1, <2>1, <2>2 DEF Sound
<1> QED BY <1>2 DEF TenancyInv

(* A key is minted under a token, revoked, or expires. *)
LEMMA KeyStep ==
  ASSUME TenancyInv, NEW k \in Keys,
         \/ \E b \in bindings, s \in SUBSET Perms, mortal \in BOOLEAN : CreateApiKey(k, b, s, mortal)
         \/ RevokeApiKey(k) \/ KeyExpires(k)
  PROVE  TenancyInv'
<1>1. ASSUME NEW b \in bindings, NEW s \in SUBSET Perms, NEW mortal \in BOOLEAN,
             CreateApiKey(k, b, s, mortal)
      PROVE  Issued'
  <2> DEFINE row == [to |-> b, scopes |-> s, mortal |-> mortal, state |-> "live"]
  <2>1. row \in Key /\ row.to = b
    BY DEF Key, TenancyInv, Issued
  <2>2. api_keys' = [x \in Minted \cup {k} |-> IF x = k THEN row ELSE api_keys[x]]
    BY <1>1 DEF CreateApiKey
  <2> HIDE DEF row
  <2>3. Minted' = Minted \cup {k} /\ api_keys' \in [Minted \cup {k} -> Key]
    BY <2>1, <2>2 DEF TenancyInv, Issued, Minted
  <2>4. \A x \in Minted' : api_keys'[x].to = IF x = k THEN b ELSE api_keys[x].to
    BY <2>1, <2>2, <2>3
  <2>5. users[b.user] # "gone" /\ k \notin Minted /\ UNCHANGED <<users, everMember, bindings>>
    BY <1>1 DEF CreateApiKey, standing
  <2> QED BY <2>3, <2>4, <2>5 DEF TenancyInv, Issued, Admitted
<1>2. ASSUME RevokeApiKey(k) \/ KeyExpires(k) PROVE Issued'
  <2>1. PICK s \in {"revoked", "expired"} : api_keys' = [api_keys EXCEPT ![k].state = s]
    BY <1>2 DEF RevokeApiKey, KeyExpires
  <2>2. k \in Minted /\ api_keys[k] \in Key /\ UNCHANGED <<users, everMember, bindings>>
    BY <1>2 DEF RevokeApiKey, KeyExpires, standing, TenancyInv, Issued
  <2>3. [api_keys[k] EXCEPT !.state = s] \in Key /\ [api_keys[k] EXCEPT !.state = s].to = api_keys[k].to
    BY <2>2 DEF Key
  <2>4. api_keys' = [api_keys EXCEPT ![k] = [api_keys[k] EXCEPT !.state = s]]
    BY <2>1
  <2>5. Minted' = Minted /\ api_keys' \in [Minted -> Key]
    BY <2>3, <2>4 DEF TenancyInv, Issued, Minted
  <2>6. \A x \in Minted : api_keys'[x].to = api_keys[x].to
    BY <2>3, <2>4 DEF TenancyInv, Issued
  <2> QED BY <2>2, <2>5, <2>6 DEF TenancyInv, Issued, Admitted
<1>3. UNCHANGED <<standing, req>>
  BY DEF CreateApiKey, RevokeApiKey, KeyExpires
<1>4. Standing' /\ Worse
  BY <1>3 DEF TenancyInv, Standing, standing, Worse
<1> QED BY <1>1, <1>2, <1>3, <1>4, WorseStep

(* A membership or a permission is taken away. *)
LEMMA TakenStep ==
  ASSUME TenancyInv, memberships' \subseteq memberships, held' \subseteq held,
         UNCHANGED <<users, bindings, api_keys, req, everMember>>
  PROVE  TenancyInv'
<1>1. Standing' /\ Issued' /\ Worse
  BY DEF TenancyInv, Standing, Issued, Worse, Admitted, Minted
<1> QED BY <1>1, WorseStep

LEMMA RemoveMemberStep ==
  ASSUME TenancyInv, NEW u \in Users, NEW t \in Tenants, RemoveMember(u, t)
  PROVE  TenancyInv'
BY TakenStep DEF RemoveMember

LEMMA LoseStep ==
  ASSUME TenancyInv, NEW entry \in held, Lose(entry)
  PROVE  TenancyInv'
BY TakenStep DEF Lose

LEMMA DeleteStep ==
  ASSUME TenancyInv, NEW u \in Users, SoftDeleteUser(u) \/ HardDeleteUser(u)
  PROVE  TenancyInv'
<1>1. CASE SoftDeleteUser(u)
  <2>1. /\ users' = [users EXCEPT ![u] = "deleted"] /\ users[u] = "active"
        /\ UNCHANGED <<memberships, held, bindings, api_keys, req, everMember>>
    BY <1>1 DEF SoftDeleteUser
  <2>2. /\ users' \in [Users -> {"active", "deleted", "gone"}]
        /\ \A v \in Users : users'[v] = "gone" <=> users[v] = "gone"
        /\ \A v \in Users : users[v] # "active" => users'[v] # "active"
    BY <2>1 DEF TenancyInv, Standing
  <2>3. \A k \in Minted : api_keys[k].to.user \in Users
    BY DEF TenancyInv, Issued, Key, Binding
  <2>4. \A m \in memberships : m[1] \in Users
    BY DEF TenancyInv, Standing
  <2>5. Standing'
    BY <2>1, <2>2, <2>4 DEF TenancyInv, Standing
  <2>6. Issued' /\ Worse
    BY <2>1, <2>2, <2>3 DEF TenancyInv, Issued, Worse, Admitted, Minted
  <2> QED BY <2>1, <2>5, <2>6, WorseStep
<1>2. CASE HardDeleteUser(u)
  <2> DEFINE left == {x \in Minted : api_keys[x].to.user # u}
  <2>1. /\ users' = [users EXCEPT ![u] = "gone"]
        /\ memberships' = {m \in memberships : m[1] # u} /\ held' = {e \in held : e.to.user # u}
        /\ api_keys' = [k \in left |-> api_keys[k]]
        /\ UNCHANGED <<bindings, req, everMember>>
    BY <1>2 DEF HardDeleteUser
  <2>2. /\ users' \in [Users -> {"active", "deleted", "gone"}] /\ users'[u] = "gone"
        /\ \A v \in Users : v # u => users'[v] = users[v]
    BY <2>1 DEF TenancyInv, Standing
  <2>3. Minted' = left /\ left \subseteq Minted
    BY <2>1 DEF Minted
  <2>4. api_keys' \in [left -> Key] /\ \A k \in left : api_keys'[k] = api_keys[k]
    BY <2>1, <2>3 DEF TenancyInv, Issued
  <2>5. \A k \in left : api_keys[k].to.user \in Users /\ api_keys[k].to.user # u
    BY DEF TenancyInv, Issued, Key, Binding
  <2>6. \A m \in memberships' : m \in memberships /\ m[1] \in Users /\ m[1] # u
    BY <2>1 DEF TenancyInv, Standing
  <2>7. Standing'
    BY <2>1, <2>2, <2>6 DEF TenancyInv, Standing
  <2> HIDE DEF left
  <2>8. Issued'
    BY <2>1, <2>2, <2>3, <2>4, <2>5 DEF TenancyInv, Issued, Admitted
  <2>9. Worse
    BY <2>1, <2>2 DEF Worse
  <2> QED BY <2>1, <2>7, <2>8, <2>9, WorseStep
<1> QED BY <1>1, <1>2

-----------------------------------------------------------------------------
(* Steps that lift a reason. *)

LEMMA LiftStep ==
  ASSUME TenancyInv, NEW reason, NEW B, Lift(reason, B), Standing', Issued',
         \A b \in Binding : /\ Bars(b) \subseteq Bars(b)' \cup (IF b \in B THEN {reason} ELSE {})
                            /\ Admitted(b) => Admitted(b)',
         UNCHANGED held
  PROVE  TenancyInv'
<1>1. ASSUME NEW h \in Handlers PROVE Sound(req[h])'
  <2>1. PICK r : r = req[h]
    OBVIOUS
  <2>2. Sound(r)
    BY <2>1 DEF TenancyInv
  <2>3. req'[h] = IF r # Idle /\ r.to \in B THEN [r EXCEPT !.barred = @ \ {reason}] ELSE r
    BY <2>1 DEF Lift
  <2>4. r # Idle => r.to \in Binding /\ (r \in Opening \/ r \in Validating)
    BY <2>2, RequestFields DEF Sound, Opening, Validating
  <2>5. PermissionsScoped(r.to)' = PermissionsScoped(r.to)
    BY DEF PermissionsScoped
  <2>6. ASSUME r = Idle \/ r.to \notin B PROVE Sound(r)'
    BY <2>2, <2>4, <2>5, <2>6 DEF Sound, Opening, Idle
  <2>7. ASSUME r # Idle, r.to \in B PROVE Sound([r EXCEPT !.barred = @ \ {reason}])'
    <3>1. PICK x : x = [r EXCEPT !.barred = @ \ {reason}]
      OBVIOUS
    <3>2. x.pc = r.pc /\ x.to = r.to /\ x.barred = r.barred \ {reason}
      BY <2>4, <2>7, <3>1, OpeningLifted, ValidatingLifted
    <3>3. x.barred \subseteq Bars(x.to)' /\ x.barred \cap Passed(x.pc) = {}
      BY <2>2, <2>4, <2>7, <3>2 DEF Sound
    <3>4. CASE r \in Opening
      <4>1. x \in Opening /\ x \in Request /\ x \notin Validating
        BY <3>1, <3>4, OpeningLifted DEF Request, Opening, Validating
      <4> QED BY <2>2, <2>4, <2>7, <3>1, <3>2, <3>3, <3>4, <4>1 DEF Sound
    <3>5. CASE r \in Validating
      <4>1. x \in Validating /\ x \in Request /\ x \notin Opening
        BY <3>1, <3>5, ValidatingLifted DEF Request, Opening, Validating
      <4>2. x.lacking = r.lacking /\ x.scopes = r.scopes
        BY <3>1, <3>5, ValidatingLifted
      <4> QED BY <2>2, <2>5, <3>1, <3>2, <3>3, <3>5, <4>1, <4>2 DEF Sound
    <3> QED BY <2>4, <2>7, <3>4, <3>5
  <2> QED BY <2>3, <2>6, <2>7 DEF Sound
<1>2. ASSUME NEW h \in Handlers PROVE req'[h] \in Request
  BY <1>1, <1>2 DEF Sound
<1>3. req' \in [Handlers -> Request]
  BY <1>2 DEF Lift
<1> QED BY <1>1, <1>3 DEF TenancyInv

LEMMA AddMemberStep ==
  ASSUME TenancyInv, NEW u \in Users, NEW t \in Tenants, AddMember(u, t)
  PROVE  TenancyInv'
<1> DEFINE B == {b \in Binding : b.user = u /\ b.tenant = t}
<1>1. /\ memberships' = memberships \cup {<<u, t>>} /\ everMember' = everMember \cup {<<u, t>>}
      /\ users[u] # "gone" /\ UNCHANGED <<users, held, bindings, api_keys>> /\ Lift("nonmember", B)
  BY DEF AddMember
<1>2. Standing'
  BY <1>1 DEF TenancyInv, Standing
<1>3. Issued'
  BY <1>1 DEF TenancyInv, Issued, Admitted, Minted
<1>4. ASSUME NEW b \in Binding
      PROVE  /\ Bars(b) \subseteq Bars(b)' \cup (IF b \in B THEN {"nonmember"} ELSE {})
             /\ Admitted(b) => Admitted(b)'
  <2>1. b \notin B /\ IsActiveMember(b)' => IsActiveMember(b)
    BY <1>1 DEF IsActiveMember
  <2> QED BY <1>1, <2>1 DEF Bars, Admitted
<1> HIDE DEF B
<1> QED BY <1>1, <1>2, <1>3, <1>4, LiftStep

LEMMA RestoreStep ==
  ASSUME TenancyInv, NEW u \in Users, Restore(u)
  PROVE  TenancyInv'
<1> DEFINE B == {b \in Binding : b.user = u}
<1>1. /\ users' = [users EXCEPT ![u] = "active"] /\ users[u] = "deleted" /\ Lift("deleted", B)
      /\ UNCHANGED <<memberships, held, bindings, api_keys, everMember>>
  BY DEF Restore
<1>2. /\ users' \in [Users -> {"active", "deleted", "gone"}]
      /\ \A v \in Users : v # u => users'[v] = users[v]
      /\ \A v \in Users : users'[v] = "gone" <=> users[v] = "gone"
  BY <1>1 DEF TenancyInv, Standing
<1>3. \A m \in memberships : m[1] \in Users
  BY DEF TenancyInv, Standing
<1>4. \A k \in Minted : api_keys[k].to.user \in Users
  BY DEF TenancyInv, Issued, Key, Binding
<1>5. Standing'
  BY <1>1, <1>2, <1>3 DEF TenancyInv, Standing
<1>6. Issued'
  BY <1>1, <1>2, <1>4 DEF TenancyInv, Issued, Admitted, Minted
<1>7. ASSUME NEW b \in Binding
      PROVE  /\ Bars(b) \subseteq Bars(b)' \cup (IF b \in B THEN {"deleted"} ELSE {})
             /\ Admitted(b) => Admitted(b)'
  <2>1. b.user \in Users /\ (b \notin B => b.user # u)
    BY DEF Binding
  <2> QED BY <1>1, <1>2, <2>1 DEF Bars, Admitted, IsActiveMember
<1> HIDE DEF B
<1> QED BY <1>1, <1>5, <1>6, <1>7, LiftStep

(* A validation whose owner gains a permission lacks it no longer. *)
LEMMA GainStep ==
  ASSUME TenancyInv, NEW b \in Binding, NEW perm \in Perms, Gain(b, perm)
  PROVE  TenancyInv'
<1>1. held' = held \cup {[to |-> b, perm |-> perm]} /\ UNCHANGED <<users, memberships, bindings, api_keys, everMember>>
  BY DEF Gain
<1>2. Standing'
  BY <1>1 DEF TenancyInv, Standing
<1>3. Issued'
  BY <1>1 DEF TenancyInv, Issued, Admitted, Minted
<1>4. \A c : Bars(c)' = Bars(c) /\ (Admitted(c)' <=> Admitted(c))
  BY <1>1 DEF Bars, Admitted, IsActiveMember
<1>5. ASSUME NEW c \in Binding, NEW x \in PermissionsScoped(c)', x \notin PermissionsScoped(c)
      PROVE  x = perm /\ b \in {c, [c EXCEPT !.project = Wide]}
  <2>1. PICK p \in {Wide, c.project} : x \in Perms /\ [to |-> [c EXCEPT !.project = p], perm |-> x] \in held'
    BY <1>5 DEF PermissionsScoped
  <2>2. PICK d : d = [c EXCEPT !.project = p]
    OBVIOUS
  <2>3. d \in {c, [c EXCEPT !.project = Wide]}
    BY <2>1, <2>2 DEF Binding
  <2>4. x \in Perms /\ [to |-> d, perm |-> x] \in held' /\ [to |-> d, perm |-> x] \notin held
    BY <1>5, <2>1, <2>2 DEF PermissionsScoped
  <2>5. [to |-> d, perm |-> x] = [to |-> b, perm |-> perm]
    BY <1>1, <2>4
  <2>6. d = b /\ x = perm
    BY <2>5
  <2> QED BY <2>3, <2>6
<1>6. ASSUME NEW h \in Handlers PROVE Sound(req[h])'
  <2>1. PICK r : r = req[h]
    OBVIOUS
  <2>2. Sound(r)
    BY <2>1 DEF TenancyInv
  <2>3. req'[h] = IF r \in Validating /\ b \in {r.to, [r.to EXCEPT !.project = Wide]}
                    THEN [r EXCEPT !.lacking = @ \ {perm}] ELSE r
    BY <2>1 DEF Gain
  <2>4. r \in Validating => r.to \in Binding
    BY DEF Validating
  <2>5. ASSUME r \notin Validating \/ b \notin {r.to, [r.to EXCEPT !.project = Wide]} PROVE Sound(r)'
    <3>1. r \in Validating => PermissionsScoped(r.to)' \subseteq PermissionsScoped(r.to)
      BY <1>5, <2>4, <2>5
    <3> QED BY <1>4, <2>2, <3>1 DEF Sound
  <2>6. ASSUME r \in Validating PROVE Sound([r EXCEPT !.lacking = @ \ {perm}])'
    <3>1. PICK x : x = [r EXCEPT !.lacking = @ \ {perm}]
      OBVIOUS
    <3>2. /\ x \in Validating /\ x.pc = r.pc /\ x.to = r.to /\ x.barred = r.barred
          /\ x.lacking = r.lacking \ {perm} /\ x.scopes = r.scopes
      BY <2>6, <3>1, ValidatingGained
    <3>3. x \in Request /\ x \notin Opening /\ r # Idle
      BY <2>6, <3>2 DEF Request, Opening, Validating, Idle
    <3>4. x.lacking \cap PermissionsScoped(x.to)' = {}
      BY <1>5, <2>2, <2>4, <2>6, <3>2 DEF Sound
    <3> QED BY <1>4, <2>2, <2>6, <3>1, <3>2, <3>3, <3>4 DEF Sound
  <2> QED BY <2>3, <2>5, <2>6 DEF Sound
<1>7. ASSUME NEW h \in Handlers PROVE req'[h] \in Request
  BY <1>6, <1>7 DEF Sound
<1>8. req' \in [Handlers -> Request]
  BY <1>7 DEF Gain
<1> QED BY <1>2, <1>3, <1>6, <1>8 DEF TenancyInv

-----------------------------------------------------------------------------
LEMMA TenancyInvStep == TenancyInv /\ [TenancyNext]_tenancyVars => TenancyInv'
<1> SUFFICES ASSUME TenancyInv, [TenancyNext]_tenancyVars PROVE TenancyInv'
  OBVIOUS
<1>1. ASSUME NEW h \in Handlers, Finish(h) PROVE TenancyInv'
  BY <1>1, IdleSound, RequestStep DEF Finish
<1>2. CASE UNCHANGED tenancyVars
  <2>1. Standing' /\ Issued' /\ Worse /\ UNCHANGED req
    BY <1>2 DEF tenancyVars, standing, TenancyInv, Standing, Issued, Worse, Admitted, Minted
  <2> QED BY <2>1, WorseStep
<1>3. CASE TenancyNext
  <2>1. ASSUME NEW h \in Handlers,
               \/ CheckProject(h) \/ FindUser(h) \/ IssueTokens(h)
               \/ CheckOwner(h) \/ CheckMember(h) \/ LoadPermissions(h)
        PROVE  TenancyInv'
    BY <2>1, CheckProjectStep, FindUserStep, IssueTokensStep, CheckOwnerStep, CheckMemberStep,
       LoadPermissionsStep
  <2>2. ASSUME NEW h \in Handlers, NEW u \in Users, NEW t \in Tenants, IssueForActiveTenant(h, u, t)
        PROVE  TenancyInv'
    <3>1. [user |-> u, tenant |-> t, project |-> Wide] \in Binding
      BY DEF Binding, Scope
    <3> QED BY <2>2, <3>1, OpenStep
  <2>3. ASSUME NEW h \in Handlers, NEW b \in Binding, SwitchTenant(h, b) PROVE TenancyInv'
    <3>1. b.user \in Users /\ b.tenant \in Tenants
      BY DEF Binding
    <3> QED BY <2>3, <3>1, OpenStep
  <2>4. ASSUME NEW u \in Users, NEW t \in Tenants, RemoveMember(u, t) PROVE TenancyInv'
    BY <2>4, RemoveMemberStep
  <2>5. ASSUME NEW entry \in held, Lose(entry) PROVE TenancyInv'
    BY <2>5, LoseStep
  <2>6. ASSUME NEW k \in Keys, NEW h \in Handlers, ValidateApiKey(h, k) PROVE TenancyInv'
    BY <2>6, ValidateApiKeyStep
  <2>7. ASSUME NEW k \in Keys,
               \/ \E b \in bindings, s \in SUBSET Perms, mortal \in BOOLEAN : CreateApiKey(k, b, s, mortal)
               \/ RevokeApiKey(k) \/ KeyExpires(k)
        PROVE  TenancyInv'
    BY <2>7, KeyStep
  <2>8. ASSUME NEW u \in Users, SoftDeleteUser(u) \/ Restore(u) \/ HardDeleteUser(u) PROVE TenancyInv'
    BY <2>8, DeleteStep, RestoreStep
  <2> QED BY <1>1, <1>3, <2>1, <2>2, <2>3, <2>4, <2>5, <2>6, <2>7, <2>8, AddMemberStep, GainStep
          DEF TenancyNext
<1> QED BY <1>2, <1>3

(* No reachable state leaves the types or breaks a foreign key. *)
THEOREM TenancyTypeCorrect == TenancySpec => []TenancyTypeOK
BY TenancyInitInv, TenancyInvStep, TenancyInvImplies, PTL DEF TenancySpec

(* For any number of users, tenants and concurrent requests: no token is   *)
(* issued and no key accepted for a request that was barred from its       *)
(* beginning on, and no permission is reported that the owner of a key     *)
(* lacked from then on.                                                    *)
THEOREM NothingOnceBarredCorrect == TenancySpec => []NothingOnceBarred
BY TenancyInitInv, TenancyInvStep, TenancyInvImplies, PTL DEF TenancySpec

(* However logins, switches, refreshes and keys follow one another, what   *)
(* they are bound to is a tenant the user was admitted to, and a project   *)
(* of that tenant or none.                                                 *)
THEOREM BoundWhereAdmittedCorrect == TenancySpec => []BoundWhereAdmitted
BY TenancyInitInv, TenancyInvStep, TenancyInvImplies, PTL DEF TenancySpec
=============================================================================
