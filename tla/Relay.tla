-------------------------------- MODULE Relay --------------------------------
(***************************************************************************)
(* The transactional outbox (internal/outbox): transactions write events,  *)
(* a relay locks a batch of unpublished rows, produces them to Kafka and   *)
(* marks them in the same transaction.  The broker appends one record at   *)
(* a time; a relay may fail or die after any of them.                      *)
(*                                                                         *)
(* An event is known by its outbox id, drawn from a sequence before the    *)
(* transaction commits: ids become visible out of order, but the changes   *)
(* of one order follow each other under its row lock.                      *)
(***************************************************************************)
EXTENDS Naturals, FiniteSets, Sequences, Functions

CONSTANTS
  Orders,        \* message keys
  Kinds,         \* event types, each with a topic
  Topics,
  TopicOf,       \* the topic of each event type
  Partitions,
  PartitionOf,   \* the partition Kafka's hash gives each key
  Relays,        \* relay processes, one after the other or at once
  NoOrder,
  BatchSize,     \* RelayBatchSize
  MaxRelays,     \* how many relays may run at once
  MaxEvents,     \* bound: ids drawn from the sequence
  MaxFaults,     \* bound: failed batches and dying relays
  LocksLinger    \* does PostgreSQL keep the locks of a dead relay for a while?

ASSUME RelayAssumption ==
  /\ BatchSize \in Nat \ {0} /\ MaxRelays \in Nat /\ MaxEvents \in Nat /\ MaxFaults \in Nat
  /\ LocksLinger \in BOOLEAN
  /\ NoOrder \notin Orders
  /\ TopicOf \in [Kinds -> Topics] /\ PartitionOf \in [Orders -> Partitions]

VARIABLES
  next,     \* the sequence of outbox ids
  tx,       \* the outbox row each order's open transaction has written, or 0
  row,      \* the outbox: the state of the row with each id
  order,    \* the msg_key of each id
  kind,     \* the event_type of each id
  relay,    \* what each relay is doing
  batch,    \* the rows it has locked
  todo,     \* the records of its batch that no broker has acknowledged
  log,      \* Kafka: the ids in each partition of each topic
  faults,   \* faults so far
  overlap   \* were two batches ever locked at the same time?

vars == <<next, tx, row, order, kind, relay, batch, todo, log, faults, overlap>>

Ids == 1..MaxEvents

Logs == Topics \X Partitions

(* The key decides the partition, the event type the topic. *)
LogOf(i) == <<TopicOf[kind[i]], PartitionOf[order[i]]>>

Committed(i) == row[i] \in {"unpublished", "published", "deleted"}

Logged(i) == order[i] # NoOrder /\ i \in Range(log[LogOf(i)])

Init ==
  /\ next = 1
  /\ tx = [o \in Orders |-> 0]
  /\ row = [i \in Ids |-> "none"]
  /\ order = [i \in Ids |-> NoOrder]
  /\ kind = [i \in Ids |-> "none"]
  /\ relay = [r \in Relays |-> "down"]
  /\ batch = [r \in Relays |-> {}]
  /\ todo = [r \in Relays |-> {}]
  /\ log = [l \in Logs |-> << >>]
  /\ faults = 0
  /\ overlap = FALSE

-----------------------------------------------------------------------------
(* Writers: the transactions of booking and of the workers.                 *)

(* outbox.Write inside the transaction that changes the order; the order's *)
(* row lock admits one at a time.                                          *)
Write(o, k) ==
  /\ tx[o] = 0
  /\ next <= MaxEvents
  /\ next' = next + 1
  /\ tx' = [tx EXCEPT ![o] = next]
  /\ row' = [row EXCEPT ![next] = "open"]
  /\ order' = [order EXCEPT ![next] = o]
  /\ kind' = [kind EXCEPT ![next] = k]
  /\ UNCHANGED <<relay, batch, todo, log, faults, overlap>>

(* The transaction commits, or rolls back and leaves a gap in the ids. *)
EndTx(o) ==
  /\ tx[o] # 0
  /\ \E end \in {"unpublished", "rolled_back"} : row' = [row EXCEPT ![tx[o]] = end]
  /\ tx' = [tx EXCEPT ![o] = 0]
  /\ UNCHANGED <<next, order, kind, relay, batch, todo, log, faults, overlap>>

-----------------------------------------------------------------------------
(* The relay.                                                               *)

Alive(r) == relay[r] \in {"idle", "producing"}

Start(r) ==
  /\ relay[r] = "down"
  /\ Cardinality({q \in Relays : Alive(q)}) < MaxRelays
  /\ relay' = [relay EXCEPT ![r] = "idle"]
  /\ UNCHANGED <<next, tx, row, order, kind, batch, todo, log, faults, overlap>>

(* Mutant: no SKIP LOCKED and no lock. *)
FreeRowsAll == {i \in Ids : row[i] = "unpublished"}

(* The unpublished rows no other relay has locked. *)
FreeRows == {i \in Ids : row[i] = "unpublished" /\ \A r \in Relays : i \notin batch[r]}

(* Mutant: ORDER BY id DESC. *)
OldestLast(S) == {i \in S : Cardinality({j \in S : j > i}) < BatchSize}

(* ORDER BY id LIMIT BatchSize. *)
Oldest(S) == {i \in S : Cardinality({j \in S : j < i}) < BatchSize}

(* LockUnpublished, and the records of the batch handed to the producer. *)
LockUnpublished(r) ==
  /\ relay[r] = "idle"
  /\ FreeRows # {}
  /\ batch' = [batch EXCEPT ![r] = Oldest(FreeRows)]
  /\ todo' = [todo EXCEPT ![r] = Oldest(FreeRows)]
  /\ relay' = [relay EXCEPT ![r] = "producing"]
  /\ overlap' = (overlap \/ \E q \in Relays : batch[q] # {})
  /\ UNCHANGED <<next, tx, row, order, kind, log, faults>>

(* A broker appends a record.  The idempotent producer keeps the order     *)
(* within a partition, and partitions know nothing of each other.          *)
Produce(r, i) ==
  /\ relay[r] = "producing"
  /\ i \in todo[r]
  /\ \A j \in todo[r] : LogOf(j) = LogOf(i) => i <= j
  /\ log' = [log EXCEPT ![LogOf(i)] = Append(@, i)]
  /\ todo' = [todo EXCEPT ![r] = @ \ {i}]
  /\ UNCHANGED <<next, tx, row, order, kind, relay, batch, faults, overlap>>

(* Mutant: WHERE id <= the last id of the batch. *)
MarkedUpTo(r) == {i \in Ids : row[i] = "unpublished" /\ \E j \in batch[r] : i <= j}

(* The rows MarkPublished updates. *)
Marked(r) == batch[r]

Unlock(r) ==
  /\ batch' = [batch EXCEPT ![r] = {}]
  /\ todo' = [todo EXCEPT ![r] = {}]

(* ProduceSync returned without an error. *)
Acknowledged(r) == relay[r] = "producing" /\ todo[r] = {}

(* Every record was acknowledged: mark the rows and commit. *)
MarkPublished(r) ==
  /\ Acknowledged(r)
  /\ row' = [i \in Ids |-> IF i \in Marked(r) THEN "published" ELSE row[i]]
  /\ relay' = [relay EXCEPT ![r] = "idle"]
  /\ Unlock(r)
  /\ UNCHANGED <<next, tx, order, kind, log, faults, overlap>>

(* Producing or marking fails or takes longer than batchTimeout: the       *)
(* transaction rolls back and the loop tries again.                        *)
BatchFails(r) ==
  /\ relay[r] = "producing"
  /\ faults < MaxFaults
  /\ faults' = faults + 1
  /\ relay' = [relay EXCEPT ![r] = "idle"]
  /\ Unlock(r)
  /\ UNCHANGED <<next, tx, row, order, kind, log, overlap>>

(* The process dies; PostgreSQL ends its session now or, if the connection *)
(* does not tell, later.                                                   *)
Crash(r) ==
  /\ Alive(r)
  /\ faults < MaxFaults
  /\ faults' = faults + 1
  /\ \/ /\ relay' = [relay EXCEPT ![r] = "down"]
        /\ Unlock(r)
     \/ /\ LocksLinger
        /\ relay' = [relay EXCEPT ![r] = "dead"]
        /\ UNCHANGED <<batch, todo>>
  /\ UNCHANGED <<next, tx, row, order, kind, log, overlap>>

SessionEnds(r) ==
  /\ relay[r] = "dead"
  /\ relay' = [relay EXCEPT ![r] = "down"]
  /\ Unlock(r)
  /\ UNCHANGED <<next, tx, row, order, kind, log, faults, overlap>>

(* Rows that may be older than Retention. *)
ExpiredRows == {i \in Ids : row[i] = "published"}

(* DeletePublishedBefore, row by row. *)
Cleanup(i) ==
  /\ \E r \in Relays : Alive(r)
  /\ i \in ExpiredRows
  /\ row' = [row EXCEPT ![i] = "deleted"]
  /\ UNCHANGED <<next, tx, order, kind, relay, batch, todo, log, faults, overlap>>

Work(r) == LockUnpublished(r) \/ (\E i \in Ids : Produce(r, i)) \/ MarkPublished(r)

RelayNext ==
  \/ \E o \in Orders : EndTx(o) \/ \E k \in Kinds : Write(o, k)
  \/ \E r \in Relays : Start(r) \/ Work(r) \/ BatchFails(r) \/ Crash(r) \/ SessionEnds(r)
  \/ \E i \in Ids : Cleanup(i)

Spec == Init /\ [][RelayNext]_vars

(* Open transactions end, a supervisor keeps a relay running, and its loop *)
(* goes on.                                                                *)
RelayFairness ==
  /\ \A o \in Orders : WF_vars(EndTx(o))
  /\ \A r \in Relays : SF_vars(Start(r)) /\ WF_vars(Work(r)) /\ WF_vars(SessionEnds(r))

-----------------------------------------------------------------------------
(* Properties.                                                              *)

(* No event is lost and none is invented (ADR-002): a committed event is   *)
(* on Kafka or still an unpublished row, and what is on Kafka was          *)
(* committed.                                                              *)
EventsExact ==
  /\ \A i \in Ids : Committed(i) => row[i] = "unpublished" \/ Logged(i)
  /\ \A l \in Logs : \A i \in Range(log[l]) : Committed(i) /\ LogOf(i) = l

(* The position of an id's first copy. *)
First(l, i) == CHOOSE n \in DOMAIN log[l] : log[l][n] = i /\ \A m \in 1..(n - 1) : log[l][m] # i

(* The events of an order reach their topic in the order they were         *)
(* committed (ADR-002), whatever batches are sent again, as long as no two *)
(* batches were locked at once: one relay, or several that take turns.     *)
OrderKept ==
  ~overlap => \A i, j \in Ids :
    /\ i < j
    /\ Committed(i) /\ Logged(j)
    /\ order[i] = order[j] /\ LogOf(i) = LogOf(j)
    => Logged(i) /\ First(LogOf(i), i) < First(LogOf(j), j)

(* Two relays never publish the same row as long as nothing fails (the     *)
(* lock of LockUnpublished).                                               *)
NoCopies ==
  faults = 0 => \A l \in Logs : \A m, n \in DOMAIN log[l] : log[l][m] = log[l][n] => m = n
=============================================================================
