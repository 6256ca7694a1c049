------------------------------- MODULE Outbox -------------------------------
(***************************************************************************)
(* The transactional outbox: Register, DeleteUser and RestoreUser commit a *)
(* change of the users table together with an outbox row, and the relay of *)
(* every replica polls the table, publishes to JetStream and marks the row.*)
(*                                                                         *)
(* A row's created_at is DEFAULT now(), which in Postgres is the start of  *)
(* the transaction.  What the change does to the users row is decided when *)
(* its statement runs: if it matches the row it takes the row's lock and   *)
(* keeps it until the end, so another one that matches waits; if it does   *)
(* not, it waits for nothing and changes nothing, and the outbox row is    *)
(* written all the same.  So a transaction is Begin, Update and Commit,    *)
(* and rows are named by their place in the commit order.  JetStream drops *)
(* a message whose id it has seen within its dedupe window.                *)
(***************************************************************************)
EXTENDS Naturals, Sequences, FiniteSets

CONSTANTS
  Ids,        \* users; bounds the model
  Relays,     \* replicas, each runs one relay
  Batch,      \* LIMIT of a fetch
  MaxTx,      \* bound on the number of transactions
  MaxStream   \* bound: no dedupe entry expires once the stream is this long

ASSUME OutboxAssumption ==
  /\ Batch \in Nat \ {0}
  /\ MaxTx \in Nat
  /\ MaxStream \in Nat

VARIABLES
  started,    \* number of transactions begun; the last created_at handed out
  open,       \* transactions in progress
  overlapped, \* history: created_at of those during which another of their user committed
  status,     \* status[u]: the users row
  outbox,     \* committed rows, in commit order
  published,  \* rows with a published_at
  stream,     \* JetStream: the rows of the messages it stored
  window,     \* rows whose message id JetStream still remembers
  batch,      \* batch[r]: rows that drain has fetched and not yet finished
  acked       \* acked[r]: the row the broker has acknowledged to r, to be marked; 0 = none

identity == <<started, open, overlapped, status, outbox>>
broker == <<stream, window>>
relay == <<batch, acked>>
vars == <<identity, published, broker, relay>>

EventType == {"registered", "deleted", "erased", "restored"}

(* "waits" for its statement, which then "wrote" the users row or "missed" *)
Transaction == [at : Nat \ {0}, user : Ids, type : EventType, stage : {"waits", "wrote", "missed"}]
Event == [at : Nat \ {0}, user : Ids, type : EventType]
Row == 1..Len(outbox)
RowsOf(u) == {i \in Row : outbox[i].user = u}

TypeOK ==
  /\ started \in Nat
  /\ open \subseteq Transaction
  /\ overlapped \subseteq Nat
  /\ status \in [Ids -> {"absent", "active", "deleted"}]
  /\ outbox \in Seq(Event)
  /\ published \subseteq Row
  /\ stream \in Seq(Row)
  /\ window \subseteq Row
  /\ batch \in [Relays -> SUBSET Row]
  /\ acked \in [Relays -> Nat]
  /\ \A r \in Relays : acked[r] \in batch[r] \cup {0}

(* The accounts seeded when the service starts have no outbox row. *)
Init ==
  /\ started = 0
  /\ open = {}
  /\ overlapped = {}
  /\ status \in [Ids -> {"absent", "active"}]
  /\ outbox = <<>>
  /\ published = {}
  /\ stream = <<>>
  /\ window = {}
  /\ batch = [r \in Relays |-> {}]
  /\ acked = [r \in Relays |-> 0]

-----------------------------------------------------------------------------
(* The handlers.  They stamp the row with the start of the transaction,    *)
(* and write it whether or not the UPDATE or DELETE matches a user.        *)
Begin(u, type) ==
  /\ started < MaxTx
  /\ started' = started + 1
  /\ open' = open \cup {[at |-> started', user |-> u, type |-> type, stage |-> "waits"]}
  /\ UNCHANGED <<overlapped, status, outbox, published, broker, relay>>

(* The id exists, or existed. *)
Known(u) == status[u] # "absent" \/ RowsOf(u) # {}

Register(u) ==
  /\ ~Known(u)
  /\ ~\E e \in open : e.user = u
  /\ Begin(u, "registered")

DeleteUser(u) == Known(u) /\ \E type \in {"deleted", "erased"} : Begin(u, type)

RestoreUser(u) == Known(u) /\ Begin(u, "restored")

(* The WHERE clause of the statement on a users row; an INSERT has none. *)
Matches(type, s) ==
  CASE type = "registered" -> TRUE
    [] type = "deleted" -> s = "active"
    [] type \in {"erased", "restored"} -> s # "absent"

(* What the statement makes of the row it matches. *)
Effect(type) ==
  CASE type \in {"registered", "restored"} -> "active"
    [] type = "deleted" -> "deleted"
    [] type = "erased" -> "absent"

(* Another transaction has the lock of e's users row. *)
Locked(e) == \E f \in open : f.user = e.user /\ f.stage = "wrote"

Reach(e, stage) == open' = (open \ {e}) \cup {[e EXCEPT !.stage = stage]}

(* The statement on users. *)
Update(e) ==
  /\ e.stage = "waits"
  /\ IF Matches(e.type, status[e.user]) THEN ~Locked(e) /\ Reach(e, "wrote") ELSE Reach(e, "missed")
  /\ UNCHANGED <<started, overlapped, status, outbox, published, broker, relay>>

(* InsertOutbox: the row written for a transaction. *)
RowOf(e) == [at |-> e.at, user |-> e.user, type |-> e.type]

(* The row is inserted and the transaction commits. *)
Commit(e) ==
  /\ e.stage \in {"wrote", "missed"}
  /\ status' = IF e.stage = "wrote" THEN [status EXCEPT ![e.user] = Effect(e.type)] ELSE status
  /\ outbox' = Append(outbox, RowOf(e))
  /\ open' = open \ {e}
  /\ overlapped' = overlapped \cup {f.at : f \in {f \in open' : f.user = e.user}}
  /\ UNCHANGED <<started, published, broker, relay>>

(* An error return, a cancelled request or a crash before the commit. *)
Rollback(e) ==
  /\ open' = open \ {e}
  /\ overlapped' = overlapped \ {e.at}
  /\ UNCHANGED <<started, status, outbox, published, broker, relay>>

-----------------------------------------------------------------------------
(* The relay. *)
Pending == Row \ published

Older(i) == {k \in Pending : outbox[k].at < outbox[i].at}

(* Faulty variant, for SerialHistoryTold: newest first. *)
FaultyNewestFirst(S) == CHOOSE i \in S : \A k \in S : outbox[k].at <= outbox[i].at

Oldest(S) == CHOOSE i \in S : \A k \in S : outbox[i].at <= outbox[k].at

(* Faulty variant, for CausalOrder: a failed row is skipped. *)
FaultySkip(r) ==
  /\ batch' = [batch EXCEPT ![r] = @ \ {Oldest(@)}]
  /\ acked' = [acked EXCEPT ![r] = 0]

(* Faulty variant, for TypeOK: the acknowledgement of a dropped batch is    *)
(* kept for the next one.                                                  *)
FaultyKeepAck(r) ==
  /\ batch' = [batch EXCEPT ![r] = {}]
  /\ UNCHANGED acked

(* The rest of the batch is dropped; the rows stay unpublished. *)
GiveUp(r) ==
  /\ batch' = [batch EXCEPT ![r] = {}]
  /\ acked' = [acked EXCEPT ![r] = 0]

(* The server stores the message unless it remembers its id. *)
Store(i) ==
  /\ stream' = IF i \in window THEN stream ELSE Append(stream, i)
  /\ window' = window \cup {i}

FetchUnpublishedOutbox(r) ==
  /\ batch[r] = {}
  /\ batch' = [batch EXCEPT ![r] = {i \in Pending : Cardinality(Older(i)) < Batch}]
  /\ UNCHANGED <<identity, published, broker, acked>>

Publish(r) ==
  /\ batch[r] # {} /\ acked[r] = 0
  /\ Store(Oldest(batch[r]))
  /\ acked' = [acked EXCEPT ![r] = Oldest(batch[r])]
  /\ UNCHANGED <<identity, published, batch>>

(* Faulty variant, for ImplementsAtLeastOnce: a row whose publish fails is *)
(* marked nevertheless.                                                    *)
FaultyMarkUnsent(r) ==
  /\ batch[r] # {}
  /\ published' = published \cup {Oldest(batch[r])}
  /\ batch' = [batch EXCEPT ![r] = @ \ {Oldest(@)}]
  /\ acked' = [acked EXCEPT ![r] = 0]
  /\ UNCHANGED <<identity, broker>>

(* The publish fails: not stored, or stored and the acknowledgement lost. *)
PublishFails(r) ==
  /\ batch[r] # {} /\ acked[r] = 0
  /\ Store(Oldest(batch[r])) \/ UNCHANGED broker
  /\ GiveUp(r)
  /\ UNCHANGED <<identity, published>>

MarkOutboxPublished(r) ==
  /\ acked[r] # 0
  /\ published' = published \cup {acked[r]}
  /\ batch' = [batch EXCEPT ![r] = @ \ {acked[r]}]
  /\ acked' = [acked EXCEPT ![r] = 0]
  /\ UNCHANGED <<identity, broker>>

(* The mark fails, done or not, or the process is stopped or crashes. *)
Stop(r) ==
  /\ batch[r] # {}
  /\ published' \in {published, published \cup ({acked[r]} \ {0})}
  /\ GiveUp(r)
  /\ UNCHANGED <<identity, broker>>

(* The dedupe window of a message passes. *)
Forget(i) ==
  /\ i \in window
  /\ Len(stream) < MaxStream
  /\ window' = window \ {i}
  /\ UNCHANGED <<identity, published, stream, relay>>

Next ==
  \/ \E u \in Ids : Register(u) \/ DeleteUser(u) \/ RestoreUser(u)
  \/ \E e \in open : Update(e) \/ Commit(e) \/ Rollback(e)
  \/ \E r \in Relays : \/ FetchUnpublishedOutbox(r) \/ Publish(r) \/ PublishFails(r)
                       \/ MarkOutboxPublished(r) \/ Stop(r)
  \/ \E i \in Row : Forget(i)

Spec == Init /\ [][Next]_vars

(* A relay polls every second for as long as its process runs (processes   *)
(* are restarted), and neither JetStream nor Postgres fails every time.    *)
(* It is enough that this holds of the relays together.                    *)
Fairness ==
  /\ WF_vars(\E r \in Relays : FetchUnpublishedOutbox(r))
  /\ SF_vars(\E r \in Relays : Publish(r))
  /\ SF_vars(\E r \in Relays : MarkOutboxPublished(r))

FairSpec == Spec /\ Fairness

-----------------------------------------------------------------------------
Delivered == {stream[n] : n \in DOMAIN stream}

(* Row k belongs to a transaction that both began and committed before     *)
(* that of row i.                                                          *)
Precedes(k, i) == k < i /\ outbox[k].at < outbox[i].at

(* The first delivery of a row comes after that of every row that precedes *)
(* it, however many relays publish the same rows at once, fail and retry.  *)
CausalOrder ==
  \A n \in DOMAIN stream : \A k \in Row :
    Precedes(k, stream[n]) => \E m \in 1..(n - 1) : stream[m] = k

(* Every committed row is delivered and marked, and only those, and no row *)
(* is marked before the broker has it.                                     *)
Promise == INSTANCE AtLeastOnce WITH Messages <- 1..MaxTx, accepted <- Row,
                                     delivered <- Delivered, settled <- published

ImplementsAtLeastOnce == Promise!Spec

(* The last message about u does not contradict the users row. *)
Told(u) ==
  \A n \in DOMAIN stream :
    (outbox[stream[n]].user = u /\ \A m \in (n + 1)..Len(stream) : outbox[stream[m]].user # u)
      => status[u] = Effect(outbox[stream[n]].type)

Once(u) ==
  \A m, n \in DOMAIN stream : stream[m] = stream[n] /\ outbox[stream[m]].user = u => m = n

(* No two of u's committed transactions overlapped. *)
Serial(u) == \A i \in RowsOf(u) : outbox[i].at \notin overlapped

(* A consumer that has got every message about a user knows the state of   *)
(* its row ("the user service drops the matching profile asynchronously",  *)
(* "un-deletes the matching profile"), for every existing user with a row  *)
(* whose transactions did not overlap and whose messages were not          *)
(* duplicated; whatever else is under way.  A delete that overlaps a       *)
(* restore may miss the row and still tell of a deletion after it.         *)
SerialHistoryTold ==
  \A u \in Ids :
    /\ status[u] # "absent"
    /\ Serial(u)
    /\ RowsOf(u) \subseteq Delivered
    /\ Once(u)
    => Told(u)
=============================================================================
