----------------------------- MODULE RelayProofs -----------------------------
(***************************************************************************)
(* Proofs that no event and no message is lost: what the outbox relay puts *)
(* on Kafka is what was committed (EventsExact), once if nothing fails     *)
(* (NoCopies), and the notify service commits an offset only past records  *)
(* the customer was told of (CommittedMeansTold).  For any orders, event   *)
(* types, topics, partitions, relays, members and batch sizes, with any    *)
(* number of relays and members running at once.                           *)
(***************************************************************************)
EXTENDS Notify, TLAPS

RelayShape ==
  /\ next \in Nat \ {0} /\ faults \in Nat
  /\ tx \in [Orders -> Nat]
  /\ row \in [Ids -> {"none", "open", "rolled_back", "unpublished", "published", "deleted"}]
  /\ order \in [Ids -> Orders \cup {NoOrder}]
  /\ kind \in [Ids -> Kinds \cup {"none"}]
  /\ relay \in [Relays -> {"down", "idle", "producing", "dead"}]
  /\ batch \in [Relays -> SUBSET Ids] /\ todo \in [Relays -> SUBSET Ids]
  /\ log \in [Logs -> Seq(Ids)]

(* A row that is there has its key and its type, ids to come are unused,   *)
(* and an open transaction holds an open row.                              *)
Rows ==
  /\ \A i \in Ids : row[i] # "none" => order[i] \in Orders /\ kind[i] \in Kinds /\ i < next
  /\ \A o \in Orders : tx[o] # 0 => tx[o] \in Ids /\ row[tx[o]] = "open" /\ order[tx[o]] = o

(* A relay has locked unpublished rows of its own, and those it no longer  *)
(* has to send are on Kafka.                                               *)
BatchInv(r) ==
  /\ todo[r] \subseteq batch[r]
  /\ \A i \in batch[r] : row[i] = "unpublished" /\ \A q \in Relays \ {r} : i \notin batch[q]
  /\ \A i \in batch[r] \ todo[r] : Logged(i)
  /\ relay[r] \in {"down", "idle"} => batch[r] = {}

Batches == \A r \in Relays : BatchInv(r)

(* What is marked is on Kafka. *)
MarkedLogged == \A i \in Ids : row[i] \in {"published", "deleted"} => Logged(i)

(* What is on Kafka was committed. *)
LoggedCommitted == \A l \in Logs : \A i \in Ids : i \in Range(log[l]) => Committed(i) /\ LogOf(i) = l

RelayInv == RelayShape /\ Rows /\ Batches /\ MarkedLogged /\ LoggedCommitted

-----------------------------------------------------------------------------
(* The log of a row that is there. *)
LEMMA LogOfType ==
  ASSUME RelayInv, NEW i \in Ids, row[i] # "none"
  PROVE  LogOf(i) \in Logs /\ order[i] # NoOrder
  BY Zenon, RelayAssumption DEF RelayInv, Rows, LogOf, Logs

LEMMA RangeAppend ==
  ASSUME NEW S, NEW s \in Seq(S), NEW e \in S
  PROVE  Append(s, e) \in Seq(S) /\ Range(Append(s, e)) = Range(s) \cup {e}
  <1>1. /\ Append(s, e) \in Seq(S) /\ Len(s) \in Nat
        /\ DOMAIN s = 1..Len(s) /\ DOMAIN Append(s, e) = 1..(Len(s) + 1)
        /\ Append(s, e)[Len(s) + 1] = e
        /\ \A n \in 1..Len(s) : Append(s, e)[n] = s[n]
    OBVIOUS
  <1>2. DOMAIN Append(s, e) = DOMAIN s \cup {Len(s) + 1}
    BY <1>1
  <1> QED
    BY <1>1, <1>2 DEF Range

LEMMA RelayInvInit == Init => RelayInv
  <1> SUFFICES ASSUME Init PROVE RelayInv
    OBVIOUS
  <1>1. Range(<< >>) = {}
    BY DEF Range
  <1>2. RelayShape
    BY RelayAssumption DEF Init, RelayShape, Ids
  <1>3. Rows /\ MarkedLogged
    BY Zenon DEF Init, Rows, MarkedLogged
  <1>4. Batches
    BY Zenon DEF Init, Batches, BatchInv
  <1>5. LoggedCommitted
    BY Zenon, <1>1 DEF Init, LoggedCommitted
  <1> QED
    BY Zenon, <1>2, <1>3, <1>4, <1>5 DEF RelayInv

(* outbox.Write and the end of its transaction: no row that is committed,  *)
(* locked or on Kafka is touched.                                          *)
LEMMA WriterStep ==
  ASSUME RelayInv, NEW i \in Ids, ~Committed(i), row'[i] # "published", row'[i] # "deleted",
         \A j \in Ids \ {i} : row'[j] = row[j] /\ order'[j] = order[j] /\ kind'[j] = kind[j],
         UNCHANGED <<relay, batch, todo, log>>, RelayShape', Rows'
  PROVE  RelayInv'
  <1>1. \A j \in Ids \ {i} : /\ LogOf(j)' = LogOf(j)
                             /\ Logged(j)' <=> Logged(j)
                             /\ Committed(j)' <=> Committed(j)
    BY Zenon DEF LogOf, Logged, Committed
  <1>2. \A l \in Logs : i \notin Range(log[l])
    BY Zenon DEF RelayInv, LoggedCommitted
  <1>3. \A r \in Relays : i \notin batch[r]
    BY Zenon DEF RelayInv, Batches, BatchInv, Committed
  <1>4. Batches'
    BY <1>1, <1>3 DEF RelayInv, RelayShape, Batches, BatchInv
  <1>5. MarkedLogged'
    BY Zenon, <1>1 DEF RelayInv, MarkedLogged
  <1>6. LoggedCommitted'
    BY Zenon, <1>1, <1>2 DEF RelayInv, LoggedCommitted
  <1> QED
    BY Zenon, <1>4, <1>5, <1>6 DEF RelayInv

LEMMA WriteStep ==
  ASSUME RelayInv, NEW o \in Orders, NEW k \in Kinds, Write(o, k)
  PROVE  RelayInv'
  <1>1. next \in Ids /\ row[next] = "none" /\ next \in Nat /\ next # 0
    BY RelayAssumption DEF Write, RelayInv, RelayShape, Rows, Ids
  <1>2. /\ next' = next + 1 /\ tx' = [tx EXCEPT ![o] = next] /\ row' = [row EXCEPT ![next] = "open"]
        /\ order' = [order EXCEPT ![next] = o] /\ kind' = [kind EXCEPT ![next] = k]
        /\ UNCHANGED <<relay, batch, todo, log, faults>>
    BY Zenon DEF Write
  <1>3. RelayShape'
    BY <1>1, <1>2 DEF RelayInv, RelayShape
  <1>4. /\ row'[next] = "open" /\ order'[next] = o /\ kind'[next] = k /\ tx'[o] = next
        /\ \A j \in Ids \ {next} : row'[j] = row[j] /\ order'[j] = order[j] /\ kind'[j] = kind[j]
        /\ \A p \in Orders \ {o} : tx'[p] = tx[p]
    BY Zenon, <1>1, <1>2 DEF RelayInv, RelayShape
  <1>5. \A j \in Ids : j \in Nat
    BY DEF Ids
  <1>6. Rows'
    <2>1. next < next' /\ \A j \in Ids : j < next => j < next'
      BY <1>1, <1>2, <1>5
    <2>2. \A j \in Ids : row'[j] # "none" => order'[j] \in Orders /\ kind'[j] \in Kinds /\ j < next'
      BY Zenon, <1>4, <2>1 DEF RelayInv, Rows
    <2>3. \A p \in Orders : tx'[p] # 0 => tx'[p] \in Ids /\ row'[tx'[p]] = "open" /\ order'[tx'[p]] = p
      <3>1. ASSUME NEW p \in Orders \ {o}, tx[p] # 0
            PROVE  tx[p] \in Ids \ {next} /\ row[tx[p]] = "open" /\ order[tx[p]] = p
        BY Zenon, <1>1, <3>1 DEF RelayInv, Rows
      <3> SUFFICES ASSUME NEW p \in Orders, tx'[p] # 0
                   PROVE  tx'[p] \in Ids /\ row'[tx'[p]] = "open" /\ order'[tx'[p]] = p
        OBVIOUS
      <3>2. CASE p = o
        BY Zenon, <1>1, <1>4, <3>2
      <3>3. CASE p # o
        <4>1. PICK i : i = tx[p]
          OBVIOUS
        <4>2. tx'[p] = i /\ i \in Ids \ {next} /\ row[i] = "open" /\ order[i] = p
          BY Zenon, <1>4, <3>1, <3>3, <4>1
        <4> QED
          BY Zenon, <1>4, <4>2
      <3> QED
        BY Zenon, <3>2, <3>3
    <2> QED
      BY Zenon, <2>2, <2>3 DEF Rows
  <1>7. ~Committed(next)
    BY Zenon, <1>1 DEF Committed
  <1> QED
    BY Zenon, <1>1, <1>2, <1>3, <1>4, <1>6, <1>7, WriterStep

LEMMA EndTxStep ==
  ASSUME RelayInv, NEW o \in Orders, EndTx(o)
  PROVE  RelayInv'
  <1>1. PICK result \in {"unpublished", "rolled_back"} : row' = [row EXCEPT ![tx[o]] = result]
    BY Zenon DEF EndTx
  <1>2. tx' = [tx EXCEPT ![o] = 0] /\ UNCHANGED <<next, order, kind, relay, batch, todo, log, faults>>
    BY Zenon DEF EndTx
  <1>3. tx[o] \in Ids /\ row[tx[o]] = "open"
    BY Zenon DEF EndTx, RelayInv, Rows
  <1>4. row'[tx[o]] = result /\ \A j \in Ids \ {tx[o]} : row'[j] = row[j]
    BY Zenon, <1>1, <1>3 DEF RelayInv, RelayShape
  <1>5. RelayShape'
    BY Zenon, <1>1, <1>2, <1>3 DEF RelayInv, RelayShape
  <1>6. tx'[o] = 0 /\ \A p \in Orders \ {o} : tx'[p] = tx[p]
    BY Zenon, <1>2 DEF RelayInv, RelayShape
  <1>7. Rows'
    <2>1. \A p \in Orders \ {o} : tx[p] # 0 => tx[p] # tx[o]
      BY Zenon, <1>3 DEF EndTx, RelayInv, Rows
    <2>2. \A j \in Ids : row'[j] # "none" => order[j] \in Orders /\ kind[j] \in Kinds /\ j < next
      BY Zenon, <1>3, <1>4 DEF RelayInv, Rows
    <2>3. \A p \in Orders : tx'[p] # 0 => tx'[p] \in Ids /\ row'[tx'[p]] = "open" /\ order[tx'[p]] = p
      BY <1>4, <1>6, <2>1 DEF RelayInv, Rows
    <2> QED
      BY Zenon, <1>2, <2>2, <2>3 DEF Rows
  <1>8. ~Committed(tx[o])
    BY Zenon, <1>3 DEF Committed
  <1> QED
    BY Zenon, <1>2, <1>3, <1>4, <1>5, <1>7, <1>8, WriterStep

(* Steps of one relay that change neither rows nor Kafka. *)
LEMMA LockStep ==
  ASSUME RelayInv, NEW r \in Relays, UNCHANGED <<next, tx, row, order, kind, log>>, faults' \in Nat,
         relay' \in [Relays -> {"down", "idle", "producing", "dead"}],
         batch' \in [Relays -> SUBSET Ids], todo' \in [Relays -> SUBSET Ids],
         \A q \in Relays \ {r} : relay'[q] = relay[q] /\ batch'[q] = batch[q] /\ todo'[q] = todo[q],
         BatchInv(r)'
  PROVE  RelayInv'
  <1>1. \A i : /\ LogOf(i)' = LogOf(i)
               /\ Logged(i)' <=> Logged(i)
               /\ Committed(i)' <=> Committed(i)
    BY Zenon DEF LogOf, Logged, Committed
  <1>2. RelayShape' /\ Rows'
    BY Zenon DEF RelayInv, RelayShape, Rows
  <1>3. MarkedLogged' /\ LoggedCommitted'
    BY Zenon, <1>1 DEF RelayInv, MarkedLogged, LoggedCommitted
  <1>4. ASSUME NEW q \in Relays \ {r} PROVE BatchInv(q)'
    BY Zenon, <1>1 DEF RelayInv, Batches, BatchInv
  <1> QED
    BY Zenon, <1>2, <1>3, <1>4 DEF RelayInv, Batches

(* The relay ends with no lock: a failed batch, a dead process, a session  *)
(* that ends.                                                              *)
LEMMA UnlockStep ==
  ASSUME RelayInv, NEW r \in Relays, NEW s \in {"down", "idle"}, relay' = [relay EXCEPT ![r] = s],
         Unlock(r), UNCHANGED <<next, tx, row, order, kind, log>>, faults' \in Nat
  PROVE  RelayInv'
  <1>1. /\ relay' \in [Relays -> {"down", "idle", "producing", "dead"}]
        /\ batch' \in [Relays -> SUBSET Ids] /\ todo' \in [Relays -> SUBSET Ids]
        /\ \A q \in Relays \ {r} : relay'[q] = relay[q] /\ batch'[q] = batch[q] /\ todo'[q] = todo[q]
        /\ batch'[r] = {} /\ todo'[r] = {}
    BY Zenon DEF Unlock, RelayInv, RelayShape
  <1>2. BatchInv(r)'
    BY Zenon, <1>1 DEF BatchInv
  <1> QED
    BY Zenon, <1>1, <1>2, LockStep

LEMMA StartStep ==
  ASSUME RelayInv, NEW r \in Relays, Start(r)
  PROVE  RelayInv'
  <1>1. /\ relay[r] = "down" /\ relay' = [relay EXCEPT ![r] = "idle"]
        /\ UNCHANGED <<next, tx, row, order, kind, batch, todo, log, faults>>
    BY Zenon DEF Start
  <1>2. batch[r] = {} /\ todo[r] = {}
    BY Zenon, <1>1 DEF RelayInv, Batches, BatchInv
  <1>3. BatchInv(r)'
    BY Zenon, <1>1, <1>2 DEF BatchInv
  <1> QED
    BY Zenon, <1>1, <1>3, LockStep DEF RelayInv, RelayShape

LEMMA CrashStep ==
  ASSUME RelayInv, NEW r \in Relays, BatchFails(r) \/ Crash(r) \/ SessionEnds(r)
  PROVE  RelayInv'
  <1>1. UNCHANGED <<next, tx, row, order, kind, log>> /\ faults' \in Nat
    BY DEF BatchFails, Crash, SessionEnds, RelayInv, RelayShape
  <1>2. CASE Unlock(r) /\ \E s \in {"down", "idle"} : relay' = [relay EXCEPT ![r] = s]
    BY Zenon, <1>1, <1>2, UnlockStep
  <1>3. CASE relay' = [relay EXCEPT ![r] = "dead"] /\ UNCHANGED <<batch, todo>>
    <2>1. relay'[r] = "dead" /\ \A q \in Relays \ {r} : relay'[q] = relay[q]
      BY Zenon, <1>3 DEF RelayInv, RelayShape
    <2>2. \A i : Logged(i)' <=> Logged(i)
      BY Zenon, <1>1 DEF Logged, LogOf
    <2>3. BatchInv(r)'
      BY Zenon, <1>1, <1>3, <2>1, <2>2 DEF RelayInv, Batches, BatchInv
    <2> QED
      BY Zenon, <1>1, <1>3, <2>1, <2>3, LockStep DEF RelayInv, RelayShape
  <1> QED
    BY Zenon, <1>2, <1>3 DEF BatchFails, Crash, SessionEnds

LEMMA LockUnpublishedStep ==
  ASSUME RelayInv, NEW r \in Relays, LockUnpublished(r)
  PROVE  RelayInv'
  <1> DEFINE B == Oldest(FreeRows)
  <1>1. /\ batch' = [batch EXCEPT ![r] = B] /\ todo' = [todo EXCEPT ![r] = B]
        /\ relay' = [relay EXCEPT ![r] = "producing"]
        /\ UNCHANGED <<next, tx, row, order, kind, log, faults>>
    BY Zenon DEF LockUnpublished
  <1>2. /\ B \in SUBSET Ids
        /\ \A i \in B : row[i] = "unpublished" /\ \A q \in Relays : i \notin batch[q]
    BY Zenon DEF Oldest, FreeRows
  <1> HIDE DEF B
  <1>3. /\ relay' \in [Relays -> {"down", "idle", "producing", "dead"}]
        /\ batch' \in [Relays -> SUBSET Ids] /\ todo' \in [Relays -> SUBSET Ids]
        /\ \A q \in Relays \ {r} : relay'[q] = relay[q] /\ batch'[q] = batch[q] /\ todo'[q] = todo[q]
        /\ relay'[r] = "producing" /\ batch'[r] = B /\ todo'[r] = B
    BY Zenon, <1>1, <1>2 DEF RelayInv, RelayShape
  <1>4. BatchInv(r)'
    BY Zenon, <1>1, <1>2, <1>3 DEF BatchInv
  <1> QED
    BY Zenon, <1>1, <1>3, <1>4, LockStep DEF RelayInv, RelayShape

(* What a record of the batch does to Kafka. *)
LEMMA ProduceEffect ==
  ASSUME RelayInv, NEW r \in Relays, NEW i \in Ids, Produce(r, i)
  PROVE  /\ UNCHANGED <<next, tx, row, order, kind, relay, batch, faults>>
         /\ relay[r] = "producing" /\ i \in todo[r] /\ i \in batch[r] /\ row[i] = "unpublished"
         /\ LogOf(i) \in Logs
         /\ log' \in [Logs -> Seq(Ids)]
         /\ log'[LogOf(i)] = Append(log[LogOf(i)], i)
         /\ \A l \in Logs : l # LogOf(i) => log'[l] = log[l]
         /\ Range(log'[LogOf(i)]) = Range(log[LogOf(i)]) \cup {i}
         /\ todo' \in [Relays -> SUBSET Ids] /\ todo'[r] = todo[r] \ {i}
         /\ \A q \in Relays \ {r} : todo'[q] = todo[q]
         /\ Logged(i)'
         /\ \A j \in Ids \ {i} : Logged(j)' <=> Logged(j)
         /\ \A j : LogOf(j)' = LogOf(j) /\ (Committed(j)' <=> Committed(j))
  <1>1. UNCHANGED <<next, tx, row, order, kind, relay, batch, faults>> /\ relay[r] = "producing"
    BY Zenon DEF Produce
  <1>2. i \in todo[r] /\ i \in batch[r] /\ row[i] = "unpublished"
    BY Zenon DEF Produce, RelayInv, Batches, BatchInv
  <1>3. LogOf(i) \in Logs /\ order[i] # NoOrder
    BY Zenon, <1>2, LogOfType
  <1>4. log' = [log EXCEPT ![LogOf(i)] = Append(log[LogOf(i)], i)]
        /\ todo' = [todo EXCEPT ![r] = todo[r] \ {i}]
    BY Zenon DEF Produce
  <1>5. log[LogOf(i)] \in Seq(Ids)
    BY Zenon, <1>3 DEF RelayInv, RelayShape
  <1>6. Append(log[LogOf(i)], i) \in Seq(Ids)
        /\ Range(Append(log[LogOf(i)], i)) = Range(log[LogOf(i)]) \cup {i}
    BY <1>5, RangeAppend
  <1>7. /\ log' \in [Logs -> Seq(Ids)] /\ log'[LogOf(i)] = Append(log[LogOf(i)], i)
        /\ \A l \in Logs : l # LogOf(i) => log'[l] = log[l]
    BY Zenon, <1>3, <1>4, <1>6 DEF RelayInv, RelayShape
  <1>8. /\ todo' \in [Relays -> SUBSET Ids] /\ todo'[r] = todo[r] \ {i}
        /\ \A q \in Relays \ {r} : todo'[q] = todo[q]
    BY Zenon, <1>4 DEF RelayInv, RelayShape
  <1>9. \A j : LogOf(j)' = LogOf(j) /\ (Committed(j)' <=> Committed(j))
    BY Zenon, <1>1 DEF LogOf, Committed
  <1>10. Logged(i)'
    BY Zenon, <1>1, <1>3, <1>6, <1>7, <1>9 DEF Logged
  <1>11. ASSUME NEW j \in Ids \ {i} PROVE Logged(j)' <=> Logged(j)
    <2>1. CASE order[j] = NoOrder
      BY Zenon, <1>1, <2>1 DEF Logged
    <2>2. CASE order[j] # NoOrder /\ LogOf(j) = LogOf(i)
      BY Zenon, <1>1, <1>6, <1>7, <1>9, <2>2 DEF Logged
    <2>3. CASE order[j] # NoOrder /\ LogOf(j) # LogOf(i)
      <3>1. log'[LogOf(j)] = log[LogOf(j)]
        BY <1>3, <1>4, <2>3 DEF RelayInv, RelayShape
      <3> QED
        BY Zenon, <1>1, <1>9, <3>1 DEF Logged
    <2> QED
      BY Zenon, <2>1, <2>2, <2>3
  <1> QED
    BY Zenon, <1>1, <1>2, <1>3, <1>6, <1>7, <1>8, <1>9, <1>10, <1>11

LEMMA ProduceStep ==
  ASSUME RelayInv, NEW r \in Relays, NEW i \in Ids, Produce(r, i)
  PROVE  RelayInv'
  <1>1. RelayShape' /\ Rows'
    BY ProduceEffect DEF RelayInv, RelayShape, Rows
  <1>2. \A j \in Ids : Logged(j) => Logged(j)'
    BY Zenon, ProduceEffect
  <1>3. Batches'
    BY <1>2, ProduceEffect DEF RelayInv, RelayShape, Batches, BatchInv
  <1>4. MarkedLogged'
    BY Zenon, <1>2, ProduceEffect DEF RelayInv, MarkedLogged
  <1>5. LoggedCommitted'
    <2> SUFFICES ASSUME NEW l \in Logs, NEW j \in Ids, j \in Range(log'[l])
                 PROVE  Committed(j) /\ LogOf(j) = l
      BY ProduceEffect DEF LoggedCommitted
    <2>1. CASE j \in Range(log[l])
      BY Zenon, <2>1 DEF RelayInv, LoggedCommitted
    <2>2. CASE j \notin Range(log[l])
      <3>1. l = LogOf(i)
        <4>1. \A m \in Logs : m # LogOf(i) => log'[m] = log[m]
          BY Zenon DEF Produce, RelayInv, RelayShape
        <4> QED
          BY Zenon, <2>2, <4>1
      <3>2. j = i
        <4>1. Range(log'[LogOf(i)]) = Range(log[LogOf(i)]) \cup {i}
          BY ProduceEffect, Zenon
        <4> QED
          BY Zenon, <2>2, <3>1, <4>1
      <3>3. row[i] = "unpublished"
        BY ProduceEffect, Zenon
      <3> QED
        BY Zenon, <3>1, <3>2, <3>3 DEF Committed
    <2> QED
      BY Zenon, <2>1, <2>2
  <1> QED
    BY Zenon, <1>1, <1>3, <1>4, <1>5 DEF RelayInv

(* Rows are marked or deleted: only rows that are on Kafka, and no row     *)
(* that stays locked.                                                      *)
LEMMA MarkStep ==
  ASSUME RelayInv, NEW M \in SUBSET Ids, NEW s \in {"published", "deleted"},
         row' = [i \in Ids |-> IF i \in M THEN s ELSE row[i]],
         UNCHANGED <<next, tx, order, kind, log, faults>>,
         \A i \in M : Logged(i) /\ Committed(i),
         relay' \in [Relays -> {"down", "idle", "producing", "dead"}],
         batch' \in [Relays -> SUBSET Ids], todo' \in [Relays -> SUBSET Ids],
         \A q \in Relays : \/ batch'[q] = {} /\ todo'[q] = {}
                           \/ /\ batch'[q] = batch[q] /\ todo'[q] = todo[q] /\ relay'[q] = relay[q]
                              /\ batch[q] \cap M = {}
  PROVE  RelayInv'
  <1>1. \A i : LogOf(i)' = LogOf(i) /\ (Logged(i)' <=> Logged(i))
    BY Zenon DEF LogOf, Logged
  <1>2. \A i \in Ids : Committed(i)' <=> Committed(i)
    BY Zenon DEF Committed
  <1>3. \A i \in M : row[i] # "open" /\ row[i] # "none"
    BY Zenon DEF Committed
  <1>4. RelayShape'
    BY Zenon DEF RelayInv, RelayShape
  <1>5. Rows'
    BY Zenon, <1>3 DEF RelayInv, Rows
  <1>6. ASSUME NEW q \in Relays PROVE BatchInv(q)'
    <2>1. CASE batch'[q] = {} /\ todo'[q] = {}
      BY Zenon, <2>1 DEF BatchInv
    <2>2. CASE batch'[q] = batch[q] /\ todo'[q] = todo[q] /\ relay'[q] = relay[q] /\ batch[q] \cap M = {}
      <3>1. BatchInv(q) /\ batch[q] \subseteq Ids
        BY Zenon DEF RelayInv, RelayShape, Batches
      <3>2. \A i \in batch[q] : row'[i] = "unpublished" /\ \A p \in Relays \ {q} : i \notin batch'[p]
        BY Zenon, <2>2, <3>1 DEF BatchInv
      <3> QED
        BY Zenon, <1>1, <2>2, <3>1, <3>2 DEF BatchInv
    <2> QED
      BY Zenon, <2>1, <2>2
  <1>7. MarkedLogged'
    BY Zenon, <1>1 DEF RelayInv, MarkedLogged
  <1>8. LoggedCommitted'
    BY Zenon, <1>1, <1>2 DEF RelayInv, LoggedCommitted
  <1> QED
    BY Zenon, <1>4, <1>5, <1>6, <1>7, <1>8 DEF RelayInv, Batches

LEMMA MarkPublishedStep ==
  ASSUME RelayInv, NEW r \in Relays, MarkPublished(r)
  PROVE  RelayInv'
  <1>1. /\ todo[r] = {} /\ relay' = [relay EXCEPT ![r] = "idle"] /\ Unlock(r)
        /\ row' = [i \in Ids |-> IF i \in batch[r] THEN "published" ELSE row[i]]
        /\ UNCHANGED <<next, tx, order, kind, log, faults>>
    BY Zenon DEF MarkPublished, Acknowledged, Marked
  <1>2. batch[r] \in SUBSET Ids /\ \A i \in batch[r] : Logged(i) /\ Committed(i)
    BY Zenon, <1>1 DEF RelayInv, RelayShape, Batches, BatchInv, Committed
  <1>3. /\ relay' \in [Relays -> {"down", "idle", "producing", "dead"}]
        /\ batch' \in [Relays -> SUBSET Ids] /\ todo' \in [Relays -> SUBSET Ids]
        /\ batch'[r] = {} /\ todo'[r] = {}
        /\ \A q \in Relays \ {r} : relay'[q] = relay[q] /\ batch'[q] = batch[q] /\ todo'[q] = todo[q]
    BY Zenon, <1>1 DEF Unlock, RelayInv, RelayShape
  <1>4. \A q \in Relays \ {r} : batch[q] \cap batch[r] = {}
    BY Zenon DEF RelayInv, Batches, BatchInv
  <1> QED
    BY Zenon, <1>1, <1>2, <1>3, <1>4, MarkStep

LEMMA CleanupStep ==
  ASSUME RelayInv, NEW i \in Ids, Cleanup(i)
  PROVE  RelayInv'
  <1>1. /\ row[i] = "published" /\ row' = [row EXCEPT ![i] = "deleted"]
        /\ UNCHANGED <<next, tx, order, kind, relay, batch, todo, log, faults>>
    BY Zenon DEF Cleanup, ExpiredRows
  <1>2. row' = [j \in Ids |-> IF j \in {i} THEN "deleted" ELSE row[j]]
    BY Zenon, <1>1 DEF RelayInv, RelayShape
  <1>3. Logged(i) /\ Committed(i)
    BY Zenon, <1>1 DEF RelayInv, MarkedLogged, Committed
  <1>4. \A q \in Relays : batch[q] \cap {i} = {}
    BY Zenon, <1>1 DEF RelayInv, Batches, BatchInv
  <1>5. /\ relay' \in [Relays -> {"down", "idle", "producing", "dead"}]
        /\ batch' \in [Relays -> SUBSET Ids] /\ todo' \in [Relays -> SUBSET Ids]
    BY Zenon, <1>1 DEF RelayInv, RelayShape
  <1>6. \A q \in Relays : /\ batch'[q] = batch[q] /\ todo'[q] = todo[q] /\ relay'[q] = relay[q]
                         /\ batch[q] \cap {i} = {}
    BY Zenon, <1>1, <1>4
  <1>7. {i} \in SUBSET Ids /\ \A j \in {i} : Logged(j) /\ Committed(j)
    BY Zenon, <1>3
  <1>8. UNCHANGED <<next, tx, order, kind, log, faults>>
    BY Zenon, <1>1
  <1> QED
    BY Zenon, <1>2, <1>5, <1>6, <1>7, <1>8, MarkStep

LEMMA RelayInvStep == RelayInv /\ [RelayNext]_vars => RelayInv'
  <1> SUFFICES ASSUME RelayInv, [RelayNext]_vars PROVE RelayInv'
    OBVIOUS
  <1>1. ASSUME NEW o \in Orders, EndTx(o) \/ \E k \in Kinds : Write(o, k) PROVE RelayInv'
    BY Zenon, <1>1, EndTxStep, WriteStep
  <1>2. ASSUME NEW r \in Relays, Start(r) \/ BatchFails(r) \/ Crash(r) \/ SessionEnds(r) PROVE RelayInv'
    BY Zenon, <1>2, StartStep, CrashStep
  <1>3. ASSUME NEW r \in Relays, Work(r) PROVE RelayInv'
    BY Zenon, <1>3, LockUnpublishedStep, ProduceStep, MarkPublishedStep DEF Work
  <1>4. ASSUME NEW i \in Ids, Cleanup(i) PROVE RelayInv'
    BY Zenon, <1>4, CleanupStep
  <1>5. CASE UNCHANGED vars
    <2>1. \A i : (Logged(i)' <=> Logged(i)) /\ (Committed(i)' <=> Committed(i)) /\ LogOf(i)' = LogOf(i)
      BY Zenon, <1>5 DEF vars, Logged, LogOf, Committed
    <2> QED
      BY <1>5, <2>1 DEF vars, RelayInv, RelayShape, Rows, Batches, BatchInv, MarkedLogged, LoggedCommitted
  <1> QED
    BY Zenon, <1>1, <1>2, <1>3, <1>4, <1>5 DEF RelayNext

LEMMA RelayInvariant == Spec => []RelayInv
  BY RelayInvInit, RelayInvStep, PTL DEF Spec

(* A committed event is on Kafka or still an unpublished row, and Kafka    *)
(* holds committed events only (relayBatch in relay.go, outbox.Write),     *)
(* with however many relays, failing and dying wherever they do.           *)
THEOREM RelayEventsExact == Spec => []EventsExact
  <1>1. RelayInv => EventsExact
    <2> SUFFICES ASSUME RelayInv PROVE EventsExact
      OBVIOUS
    <2>1. \A l \in Logs : Range(log[l]) \subseteq Ids
      BY DEF RelayInv, RelayShape, Range
    <2> QED
      BY Zenon, <2>1 DEF RelayInv, MarkedLogged, LoggedCommitted, EventsExact, Committed
  <1> QED
    BY <1>1, RelayInvariant, PTL

-----------------------------------------------------------------------------
(* Copies: while nothing has failed, an unpublished row that is on Kafka   *)
(* is still locked by the relay that sent it.                              *)
StillLocked(i) ==
  row[i] = "unpublished" /\ Logged(i) => \E r \in Relays : i \in batch[r] \ todo[r]

Injective(l) == \A m, n \in DOMAIN log[l] : log[l][m] = log[l][n] => m = n

CopyInv ==
  faults = 0 => /\ \A r \in Relays : relay[r] # "dead"
                /\ \A i \in Ids : StillLocked(i)
                /\ \A l \in Logs : Injective(l)

LEMMA AppendInjective ==
  ASSUME NEW S, NEW s \in Seq(S), NEW e \in S, e \notin Range(s),
         \A m, n \in DOMAIN s : s[m] = s[n] => m = n
  PROVE  \A m, n \in DOMAIN Append(s, e) : Append(s, e)[m] = Append(s, e)[n] => m = n
  <1>1. /\ Len(s) \in Nat /\ DOMAIN s = 1..Len(s) /\ DOMAIN Append(s, e) = 1..(Len(s) + 1)
        /\ Append(s, e)[Len(s) + 1] = e
        /\ \A n \in 1..Len(s) : Append(s, e)[n] = s[n]
    OBVIOUS
  <1>2. \A n \in DOMAIN s : s[n] # e
    BY Zenon DEF Range
  <1>3. DOMAIN Append(s, e) = DOMAIN s \cup {Len(s) + 1}
    BY <1>1
  <1> QED
    BY Zenon, <1>1, <1>2, <1>3

(* Steps that leave Kafka as it is. *)
LEMMA CopyQuiet ==
  ASSUME RelayInv, CopyInv, UNCHANGED log,
         faults' = 0 => faults = 0 /\ \A r \in Relays : relay'[r] # "dead",
         faults = 0 => \A i \in Ids : StillLocked(i)'
  PROVE  CopyInv'
  BY Zenon DEF CopyInv, Injective

LEMMA CopyWriter ==
  ASSUME RelayInv, CopyInv, NEW o \in Orders, EndTx(o) \/ \E k \in Kinds : Write(o, k)
  PROVE  CopyInv'
  <1>0. UNCHANGED <<relay, batch, todo, log, faults>>
    BY Zenon DEF EndTx, Write
  <1>1. ASSUME EndTx(o), NEW i \in Ids, faults = 0 PROVE StillLocked(i)'
    <2>1. tx[o] \in Ids /\ row[tx[o]] = "open" /\ UNCHANGED <<order, kind>>
      BY Zenon, <1>1 DEF EndTx, RelayInv, Rows
    <2>2. (Logged(i)' <=> Logged(i)) /\ LogOf(i)' = LogOf(i)
      BY Zenon, <1>0, <2>1 DEF Logged, LogOf
    <2>3. CASE i = tx[o]
      <3>1. LogOf(i) \in Logs /\ ~Committed(i)
        BY Zenon, <2>1, <2>3, LogOfType DEF Committed
      <3>2. ~Logged(i)
        BY Zenon, <3>1 DEF RelayInv, LoggedCommitted, Logged
      <3> QED
        BY Zenon, <2>2, <3>2 DEF StillLocked
    <2>4. CASE i # tx[o]
      <3>1. row'[i] = row[i]
        BY Zenon, <1>1, <2>1, <2>4 DEF EndTx, RelayInv, RelayShape
      <3> QED
        BY Zenon, <1>0, <1>1, <2>2, <3>1 DEF StillLocked, CopyInv
    <2> QED
      BY Zenon, <2>3, <2>4
  <1>2. ASSUME NEW k \in Kinds, Write(o, k), NEW i \in Ids, faults = 0 PROVE StillLocked(i)'
    <2>1. next \in Ids
      BY <1>2, RelayAssumption DEF Write, RelayInv, RelayShape, Ids
    <2>2. CASE i = next
      <3>1. row'[i] = "open"
        BY Zenon, <1>2, <2>1, <2>2 DEF Write, RelayInv, RelayShape
      <3> QED
        BY Zenon, <3>1 DEF StillLocked
    <2>3. CASE i # next
      <3>1. row'[i] = row[i] /\ order'[i] = order[i] /\ kind'[i] = kind[i]
        BY Zenon, <1>2, <2>1, <2>3 DEF Write, RelayInv, RelayShape
      <3>2. Logged(i)' <=> Logged(i)
        BY Zenon, <1>0, <3>1 DEF Logged, LogOf
      <3> QED
        BY Zenon, <1>0, <1>2, <3>1, <3>2 DEF StillLocked, CopyInv
    <2> QED
      BY Zenon, <2>2, <2>3
  <1>3. faults' = 0 => faults = 0 /\ \A r \in Relays : relay'[r] # "dead"
    BY Zenon, <1>0 DEF CopyInv
  <1>4. faults = 0 => \A i \in Ids : StillLocked(i)'
    BY Zenon, <1>1, <1>2
  <1> QED
    BY Zenon, <1>0, <1>3, <1>4, CopyQuiet

(* A relay locks rows, or marks and unlocks them: it had none, or they are *)
(* no longer unpublished.                                                  *)
LEMMA CopyWork ==
  ASSUME RelayInv, CopyInv, NEW r \in Relays, Start(r) \/ LockUnpublished(r) \/ MarkPublished(r)
  PROVE  CopyInv'
  <1>0. UNCHANGED <<order, kind, log, faults>>
    BY Zenon DEF Start, LockUnpublished, MarkPublished
  <1>1. \A q \in Relays : relay[q] # "dead" => relay'[q] # "dead"
    BY Zenon DEF Start, LockUnpublished, MarkPublished, RelayInv, RelayShape
  <1>2. \A q \in Relays : q # r => batch'[q] = batch[q] /\ todo'[q] = todo[q]
    BY Zenon DEF Start, LockUnpublished, MarkPublished, Unlock, RelayInv, RelayShape
  <1>3. \A i \in Ids : row'[i] = "unpublished" => row[i] = "unpublished" /\ i \notin batch[r]
    <2>1. CASE Start(r) \/ LockUnpublished(r)
      BY Zenon, <2>1 DEF Start, LockUnpublished, RelayInv, Batches, BatchInv
    <2>2. CASE MarkPublished(r)
      BY Zenon, <2>2 DEF MarkPublished, Marked, RelayInv, RelayShape
    <2> QED
      BY Zenon, <2>1, <2>2
  <1>4. \A i : Logged(i)' <=> Logged(i)
    BY Zenon, <1>0 DEF Logged, LogOf
  <1>5. ASSUME NEW i \in Ids, faults = 0 PROVE StillLocked(i)'
    <2> SUFFICES ASSUME row'[i] = "unpublished", Logged(i)
                 PROVE  \E q \in Relays : i \in batch'[q] \ todo'[q]
      BY Zenon, <1>4 DEF StillLocked
    <2>1. PICK q \in Relays : i \in batch[q] \ todo[q]
      BY Zenon, <1>3, <1>5 DEF CopyInv, StillLocked
    <2>2. q # r
      BY Zenon, <1>3, <2>1
    <2> QED
      BY Zenon, <1>2, <2>1, <2>2
  <1>6. faults' = 0 => faults = 0 /\ \A q \in Relays : relay'[q] # "dead"
    BY Zenon, <1>0, <1>1 DEF CopyInv
  <1>7. faults = 0 => \A i \in Ids : StillLocked(i)'
    BY Zenon, <1>5
  <1> QED
    BY Zenon, <1>0, <1>6, <1>7, CopyQuiet

(* A record is sent: it was not on Kafka. *)
LEMMA CopyProduce ==
  ASSUME RelayInv, CopyInv, NEW r \in Relays, NEW i \in Ids, Produce(r, i)
  PROVE  CopyInv'
  <1> SUFFICES ASSUME faults = 0 PROVE CopyInv'
    BY Zenon DEF CopyInv, Produce
  <1>1. /\ UNCHANGED <<row, relay, batch>> /\ i \in todo[r] /\ i \in batch[r] /\ row[i] = "unpublished"
        /\ LogOf(i) \in Logs /\ log'[LogOf(i)] = Append(log[LogOf(i)], i)
        /\ todo'[r] = todo[r] \ {i}
        /\ \A j \in Ids \ {i} : Logged(j)' <=> Logged(j)
    BY ProduceEffect, Zenon
  <1>2. \A l \in Logs : l # LogOf(i) => log'[l] = log[l]
    BY Zenon DEF Produce, RelayInv, RelayShape
  <1>3. \A q \in Relays : todo'[q] \subseteq todo[q]
    BY Zenon DEF Produce, RelayInv, RelayShape
  <1>4. ~Logged(i)
    <2> SUFFICES ASSUME Logged(i) PROVE FALSE
      OBVIOUS
    <2>1. PICK q \in Relays : i \in batch[q] \ todo[q]
      BY Zenon, <1>1 DEF CopyInv, StillLocked
    <2>2. q = r
      BY Zenon, <1>1, <2>1 DEF RelayInv, Batches, BatchInv
    <2> QED
      BY Zenon, <1>1, <2>1, <2>2
  <1>5. i \notin Range(log[LogOf(i)])
    BY Zenon, <1>1, <1>4, LogOfType DEF Logged
  <1>6. \A l \in Logs : Injective(l)'
    <2>1. log[LogOf(i)] \in Seq(Ids) /\ \A m, n \in DOMAIN log[LogOf(i)] :
             log[LogOf(i)][m] = log[LogOf(i)][n] => m = n
      BY Zenon, <1>1 DEF RelayInv, RelayShape, CopyInv, Injective
    <2> DEFINE s == Append(log[LogOf(i)], i)
    <2>2. \A m, n \in DOMAIN s : s[m] = s[n] => m = n
      BY Zenon, <1>5, <2>1, AppendInjective
    <2> HIDE DEF s
    <2>3. log'[LogOf(i)] = s
      BY Zenon, <1>1 DEF s
    <2> QED
      BY Zenon, <1>2, <2>2, <2>3 DEF CopyInv, Injective
  <1>7. ASSUME NEW j \in Ids PROVE StillLocked(j)'
    <2>1. CASE j = i
      BY Zenon, <1>1, <2>1 DEF StillLocked
    <2>2. CASE j # i
      BY Zenon, <1>1, <1>3, <2>2 DEF CopyInv, StillLocked
    <2> QED
      BY Zenon, <2>1, <2>2
  <1> QED
    BY Zenon, <1>1, <1>6, <1>7 DEF CopyInv

LEMMA CopyInvStep == RelayInv /\ CopyInv /\ [RelayNext]_vars => CopyInv'
  <1> SUFFICES ASSUME RelayInv, CopyInv, [RelayNext]_vars PROVE CopyInv'
    OBVIOUS
  <1>1. ASSUME NEW o \in Orders, EndTx(o) \/ \E k \in Kinds : Write(o, k) PROVE CopyInv'
    BY Zenon, <1>1, CopyWriter
  <1>2. ASSUME NEW r \in Relays, Start(r) \/ Work(r) PROVE CopyInv'
    BY Zenon, <1>2, CopyWork, CopyProduce DEF Work
  <1>3. ASSUME NEW r \in Relays, BatchFails(r) \/ Crash(r) PROVE CopyInv'
    BY <1>3 DEF BatchFails, Crash, CopyInv, RelayInv, RelayShape
  <1>4. ASSUME NEW r \in Relays, SessionEnds(r) PROVE CopyInv'
    BY Zenon, <1>4 DEF SessionEnds, CopyInv
  <1>5. ASSUME NEW i \in Ids, Cleanup(i) PROVE CopyInv'
    <2>1. /\ UNCHANGED <<order, kind, relay, batch, todo, log, faults>>
          /\ \A j \in Ids : row'[j] = "unpublished" => row[j] = "unpublished"
      BY Zenon, <1>5 DEF Cleanup, RelayInv, RelayShape
    <2>2. \A j : Logged(j)' <=> Logged(j)
      BY Zenon, <2>1 DEF Logged, LogOf
    <2>3. faults = 0 => \A j \in Ids : StillLocked(j)'
      BY Zenon, <2>1, <2>2 DEF StillLocked, CopyInv
    <2> QED
      BY Zenon, <2>1, <2>3, CopyQuiet DEF CopyInv
  <1>6. CASE UNCHANGED vars
    BY Zenon, <1>6 DEF vars, CopyInv, StillLocked, Injective, Logged, LogOf
  <1> QED
    BY Zenon, <1>1, <1>2, <1>3, <1>4, <1>5, <1>6 DEF RelayNext

(* As long as no batch fails and no relay dies, nothing is published twice *)
(* however many relays run at once: FOR UPDATE SKIP LOCKED keeps their     *)
(* batches apart until the rows are marked (relayBatch in relay.go).       *)
THEOREM RelayNoCopies == Spec => []NoCopies
  <1>1. Init => CopyInv
    BY DEF Init, CopyInv, StillLocked, Injective
  <1>2. CopyInv => NoCopies
    BY Zenon DEF CopyInv, NoCopies, Injective
  <1> QED
    BY <1>1, <1>2, CopyInvStep, RelayInvariant, PTL DEF Spec

-----------------------------------------------------------------------------
(* The notify service.                                                     *)


Busy(m) == member[m] \in {"sending", "marking"}

(* The log of the records with a dedupe key. *)
KeyLog(k) == <<TopicOf[k[1]], PartitionOf[k[2]]>>

(* The dedupe key of the record a member is handling. *)
Key(m) == DedupeKey(Record(m, at[m]))

GroupShape ==
  /\ owner \in [Logs -> Members \cup {NoMember}]
  /\ offset \in [Logs -> Nat]
  /\ member \in [Members -> {"down", "polling", "working", "sending", "marking"}]
  /\ at = [m \in Members |-> at[m]]
  /\ pos \in [Members -> [Logs -> Nat]] /\ end \in [Members -> [Logs -> Nat]]
  /\ seen \subseteq Keys /\ sent \in [Keys -> Nat] /\ blemishes \in Nat

(* A member's batch lies in the logs, only a working member has records    *)
(* left in it, and the record it is sending is one of them.                *)
Place(m) ==
  /\ \A l \in Logs : pos[m][l] <= end[m][l] /\ end[m][l] <= Len(log[l])
  /\ member[m] \in {"down", "polling"} => Rest(m) = {}
  /\ Busy(m) => at[m] \in Rest(m)

(* The first n records of a log were told. *)
Reached(l, n) ==
  /\ n \in Nat /\ n <= Len(log[l])
  /\ \A p \in 1..n : kind[log[l][p]] \in Notified => sent[DedupeKey(log[l][p])] > 0

(* What is remembered, committed, behind a member or being marked was      *)
(* told.                                                                   *)
Telling ==
  /\ \A k \in seen : sent[k] > 0
  /\ \A l \in Logs : Reached(l, offset[l]) /\ \A m \in Members : Reached(l, pos[m][l])
  /\ \A m \in Members : member[m] = "marking" => sent[Key(m)] > 0

NotifyInv == GroupShape /\ (\A m \in Members : Place(m)) /\ Telling

-----------------------------------------------------------------------------
(* What every step keeps: the records of a log, and their kinds and keys.  *)
Kept ==
  \A l \in Logs :
    /\ Len(log[l]) \in Nat /\ Len(log'[l]) \in Nat /\ Len(log[l]) <= Len(log'[l])
    /\ \A p \in 1..Len(log[l]) : /\ log'[l][p] = log[l][p]
                                 /\ kind'[log[l][p]] = kind[log[l][p]]
                                 /\ order'[log[l][p]] = order[log[l][p]]

LEMMA KeptSame ==
  ASSUME RelayInv, UNCHANGED <<log, kind, order>>
  PROVE  Kept
  <1>1. \A l \in Logs : Len(log[l]) \in Nat /\ Len(log[l]) <= Len(log[l])
    BY DEF RelayInv, RelayShape
  <1> QED
    BY Zenon, <1>1 DEF Kept

LEMMA KeptWrite ==
  ASSUME RelayInv, NEW o \in Orders, NEW k \in Kinds, Write(o, k)
  PROVE  Kept
  <1>1. next \in Ids /\ row[next] = "none"
    BY RelayAssumption DEF Write, RelayInv, RelayShape, Rows, Ids
  <1>2. UNCHANGED log
    BY Zenon DEF Write
  <1>3. \A j \in Ids \ {next} : order'[j] = order[j] /\ kind'[j] = kind[j]
    BY Zenon, <1>1 DEF Write, RelayInv, RelayShape
  <1>4. ASSUME NEW l \in Logs
        PROVE  /\ Len(log[l]) \in Nat /\ Len(log[l]) <= Len(log[l]) /\ DOMAIN log[l] = 1..Len(log[l])
               /\ \A p \in 1..Len(log[l]) : log[l][p] \in Ids
    BY DEF RelayInv, RelayShape
  <1>5. ASSUME NEW l \in Logs, NEW p \in 1..Len(log[l]) PROVE log[l][p] \in Ids \ {next}
    <2>1. log[l][p] \in Range(log[l]) /\ log[l][p] \in Ids
      BY Zenon, <1>4, <1>5 DEF Range
    <2> QED
      BY Zenon, <1>1, <2>1 DEF RelayInv, LoggedCommitted, Committed
  <1> QED
    BY Zenon, <1>2, <1>3, <1>4, <1>5 DEF Kept

LEMMA KeptProduce ==
  ASSUME RelayInv, NEW r \in Relays, NEW i \in Ids, Produce(r, i)
  PROVE  Kept
  <1>1. UNCHANGED <<kind, order>>
    BY Zenon DEF Produce
  <1>2. LogOf(i) \in Logs /\ log'[LogOf(i)] = Append(log[LogOf(i)], i)
    BY Zenon, ProduceEffect
  <1>3. \A l \in Logs : l # LogOf(i) => log'[l] = log[l]
    BY Zenon DEF Produce, RelayInv, RelayShape
  <1>4. ASSUME NEW l \in Logs
        PROVE  /\ Len(log[l]) \in Nat /\ Len(log'[l]) \in Nat /\ Len(log[l]) <= Len(log'[l])
               /\ \A p \in 1..Len(log[l]) : log'[l][p] = log[l][p]
    <2>1. log[l] \in Seq(Ids)
      BY Zenon DEF RelayInv, RelayShape
    <2>2. CASE l = LogOf(i)
      <3>1. log'[l] = Append(log[l], i)
        BY Zenon, <1>2, <2>2
      <3> QED
        BY <2>1, <3>1
    <2>3. CASE l # LogOf(i)
      <3>1. log'[l] = log[l]
        BY Zenon, <1>3, <2>3
      <3> QED
        BY <2>1, <3>1
    <2> QED
      BY Zenon, <2>2, <2>3
  <1> QED
    BY Zenon, <1>1, <1>4 DEF Kept

LEMMA KeptStep ==
  ASSUME RelayInv, [RelayNext]_vars
  PROVE  Kept
  <1>1. ASSUME UNCHANGED <<log, kind, order>> PROVE Kept
    BY Zenon, <1>1, KeptSame
  <1>2. ASSUME NEW r \in Relays, Start(r) \/ Work(r) \/ BatchFails(r) \/ Crash(r) \/ SessionEnds(r)
        PROVE  Kept
    BY Zenon, <1>1, <1>2, KeptProduce
    DEF Start, Work, BatchFails, Crash, SessionEnds, LockUnpublished, MarkPublished
  <1>3. ASSUME NEW o \in Orders, EndTx(o) \/ \E k \in Kinds : Write(o, k) PROVE Kept
    BY Zenon, <1>1, <1>3, KeptWrite DEF EndTx
  <1>4. ASSUME NEW i \in Ids, Cleanup(i) PROVE Kept
    BY Zenon, <1>1, <1>4 DEF Cleanup
  <1> QED
    BY Zenon, <1>1, <1>2, <1>3, <1>4 DEF RelayNext, vars

(* A record of a log has its dedupe key, and the key tells the log. *)
LEMMA RecordKey ==
  ASSUME RelayInv, NEW l \in Logs, NEW p \in 1..Len(log[l])
  PROVE  DedupeKey(log[l][p]) \in Keys /\ KeyLog(DedupeKey(log[l][p])) = l
  <1>1. log[l][p] \in Range(log[l]) /\ log[l][p] \in Ids
    <2>1. DOMAIN log[l] = 1..Len(log[l]) /\ log[l][p] \in Ids
      BY DEF RelayInv, RelayShape
    <2> QED
      BY Zenon, <2>1 DEF Range
  <1>2. row[log[l][p]] # "none" /\ LogOf(log[l][p]) = l
    BY Zenon, <1>1 DEF RelayInv, LoggedCommitted, Committed
  <1>3. kind[log[l][p]] \in Kinds /\ order[log[l][p]] \in Orders
    BY Zenon, <1>1, <1>2 DEF RelayInv, Rows
  <1>4. DedupeKey(log[l][p]) = <<kind[log[l][p]], order[log[l][p]]>>
    BY Zenon DEF DedupeKey
  <1> QED
    BY <1>2, <1>3, <1>4 DEF Keys, KeyLog, LogOf

LEMMA ReachedStays ==
  ASSUME RelayInv, Kept, \A k \in Keys : sent[k] > 0 => sent'[k] > 0, NEW l \in Logs, NEW n, Reached(l, n)
  PROVE  Reached(l, n)'
  <1>0. n \in Nat /\ n <= Len(log[l]) /\ n <= Len(log'[l])
    BY DEF Kept, Reached
  <1> SUFFICES ASSUME NEW p \in 1..n, kind'[log'[l][p]] \in Notified
               PROVE  sent'[DedupeKey(log[l][p])'] > 0
    BY Zenon, <1>0 DEF Reached, DedupeKey
  <1>1. p \in 1..Len(log[l])
    BY <1>0 DEF Kept
  <1>2. log'[l][p] = log[l][p] /\ kind'[log[l][p]] = kind[log[l][p]] /\ order'[log[l][p]] = order[log[l][p]]
    BY Zenon, <1>1 DEF Kept
  <1>3. sent[DedupeKey(log[l][p])] > 0
    BY Zenon, <1>2 DEF Reached
  <1>4. DedupeKey(log[l][p])' = DedupeKey(log[l][p])
    BY Zenon, <1>2 DEF DedupeKey
  <1>5. DedupeKey(log[l][p]) \in Keys
    BY Zenon, <1>1, RecordKey
  <1> QED
    BY Zenon, <1>3, <1>4, <1>5

(* A step that leaves a member as it is. *)
Same(m) == member'[m] = member[m] /\ at'[m] = at[m] /\ pos'[m] = pos[m] /\ end'[m] = end[m]

LEMMA Places ==
  ASSUME GroupShape
  PROVE  \A m \in Members, l \in Logs : pos[m][l] \in Nat /\ end[m][l] \in Nat
  BY DEF GroupShape

(* The record at a member's position is in the log. *)
LEMMA RestRecord ==
  ASSUME RelayInv, GroupShape, NEW m \in Members, Place(m), NEW l \in Rest(m)
  PROVE  /\ l \in Logs /\ pos[m][l] \in Nat /\ pos[m][l] + 1 \in 1..Len(log[l])
         /\ pos[m][l] + 1 <= end[m][l]
         /\ DedupeKey(Record(m, l)) \in Keys /\ KeyLog(DedupeKey(Record(m, l))) = l
  <1>1. l \in Logs /\ pos[m][l] < end[m][l] /\ end[m][l] <= Len(log[l])
    BY Zenon DEF Rest, Place
  <1>2. pos[m][l] \in Nat /\ end[m][l] \in Nat /\ Len(log[l]) \in Nat
    <2>1. pos[m][l] \in Nat /\ end[m][l] \in Nat /\ log[l] \in Seq(Ids)
      BY Zenon, <1>1, Places DEF RelayInv, RelayShape
    <2> QED
      BY <2>1
  <1>3. pos[m][l] + 1 \in 1..Len(log[l]) /\ pos[m][l] + 1 <= end[m][l]
    BY <1>1, <1>2
  <1> QED
    BY Zenon, <1>1, <1>2, <1>3, RecordKey DEF Record

LEMMA MemberStays ==
  ASSUME RelayInv, GroupShape, Kept, NEW m \in Members, Place(m), Same(m)
  PROVE  Place(m)' /\ Rest(m)' = Rest(m) /\ (Busy(m)' <=> Busy(m)) /\ (Busy(m) => Key(m)' = Key(m))
  <1>1. Rest(m)' = Rest(m)
    BY Zenon DEF Same, Rest
  <1>2. ASSUME NEW l \in Logs PROVE pos'[m][l] <= end'[m][l] /\ end'[m][l] <= Len(log'[l])
    <2>1. pos[m][l] <= end[m][l] /\ end[m][l] <= Len(log[l]) /\ Len(log[l]) <= Len(log'[l])
      BY Zenon DEF Place, Kept
    <2>2. end[m][l] \in Nat /\ Len(log[l]) \in Nat /\ Len(log'[l]) \in Nat
      BY Zenon, Places DEF Kept
    <2>3. end[m][l] <= Len(log'[l])
      BY <2>1, <2>2
    <2> QED
      BY Zenon, <2>1, <2>3 DEF Same
  <1>3. Busy(m)' <=> Busy(m)
    BY Zenon DEF Same, Busy
  <1>4. Place(m)'
    BY Zenon, <1>1, <1>2, <1>3 DEF Place, Same
  <1>5. ASSUME Busy(m) PROVE Key(m)' = Key(m)
    <2>1. at[m] \in Rest(m)
      BY Zenon, <1>5 DEF Place
    <2>2. at[m] \in Logs /\ pos[m][at[m]] + 1 \in 1..Len(log[at[m]])
      BY Zenon, <2>1, RestRecord
    <2>3. Record(m, at[m]) = log[at[m]][pos[m][at[m]] + 1]
          /\ Record(m, at[m])' = log'[at[m]][pos[m][at[m]] + 1]
      BY Zenon DEF Record, Same
    <2>4. /\ Record(m, at[m])' = Record(m, at[m])
          /\ kind'[Record(m, at[m])] = kind[Record(m, at[m])]
          /\ order'[Record(m, at[m])] = order[Record(m, at[m])]
      BY Zenon, <2>2, <2>3 DEF Kept
    <2> QED
      BY Zenon, <2>4 DEF Key, DedupeKey
  <1> QED
    BY Zenon, <1>1, <1>3, <1>4, <1>5

(* What is left to show of a step that changes the members of A only. *)
LEMMA NotifyFrame ==
  ASSUME RelayInv, NotifyInv, Kept, GroupShape', NEW A \in SUBSET Members,
         \A m \in Members \ A : Same(m),
         \A k \in Keys : sent[k] > 0 => sent'[k] > 0,
         \A k \in seen' : sent'[k] > 0,
         \A l \in Logs : Reached(l, offset'[l]),
         \A m \in A : /\ Place(m)'
                      /\ \A l \in Logs : Reached(l, pos'[m][l])
                      /\ member'[m] = "marking" => sent'[Key(m)'] > 0
  PROVE  NotifyInv'
  <1>1. ASSUME NEW l \in Logs, NEW n, Reached(l, n) PROVE Reached(l, n)'
    BY Zenon, <1>1, ReachedStays
  <1>2. ASSUME NEW m \in Members \ A
        PROVE  /\ Place(m)' /\ \A l \in Logs : Reached(l, pos'[m][l])
               /\ member'[m] = "marking" => sent'[Key(m)'] > 0
    <2>1. Same(m) /\ Place(m)
      BY Zenon DEF NotifyInv
    <2>2. Place(m)' /\ (Busy(m) => Key(m)' = Key(m))
      BY Zenon, <2>1, MemberStays DEF NotifyInv
    <2>3. \A l \in Logs : Reached(l, pos'[m][l])
      BY Zenon, <2>1 DEF Same, NotifyInv, Telling
    <2>4. ASSUME member'[m] = "marking" PROVE sent'[Key(m)'] > 0
      <3>1. Busy(m) /\ sent[Key(m)] > 0
        BY Zenon, <2>1, <2>4 DEF Same, Busy, NotifyInv, Telling
      <3>2. Key(m) \in Keys
        BY Zenon, <2>1, <3>1, RestRecord DEF Place, Key, NotifyInv
      <3> QED
        BY Zenon, <2>2, <3>1, <3>2
    <2> QED
      BY Zenon, <2>2, <2>3, <2>4
  <1>3. ASSUME NEW l \in Logs, NEW m \in Members PROVE Reached(l, pos[m][l])'
    <2>1. PICK n : n = pos'[m][l]
      BY Zenon
    <2>2. Reached(l, n)'
      BY Zenon, <1>1, <1>2, <2>1
    <2> QED
      BY Zenon, <2>1, <2>2
  <1>4. ASSUME NEW l \in Logs PROVE Reached(l, offset[l])'
    <2>1. PICK n : n = offset'[l]
      BY Zenon
    <2>2. Reached(l, n)'
      BY Zenon, <1>1, <2>1
    <2> QED
      BY Zenon, <2>1, <2>2
  <1>5. Telling'
    BY Zenon, <1>2, <1>3, <1>4 DEF Telling
  <1> QED
    BY Zenon, <1>2, <1>5 DEF NotifyInv

LEMMA ReachedNone ==
  ASSUME RelayInv, NEW l \in Logs
  PROVE  Reached(l, 0)
  <1>1. Len(log[l]) \in Nat
    BY DEF RelayInv, RelayShape
  <1> QED
    BY <1>1 DEF Reached

LEMMA ReachedNext ==
  ASSUME NEW l \in Logs, NEW n, Reached(l, n), n + 1 <= Len(log[l]),
         kind[log[l][n + 1]] \in Notified => sent[DedupeKey(log[l][n + 1])] > 0
  PROVE  Reached(l, n + 1)
  <1>1. n \in Nat /\ \A p \in 1..(n + 1) : p \in 1..n \/ p = n + 1
    BY DEF Reached
  <1>2. n + 1 \in Nat
    BY <1>1
  <1> QED
    BY Zenon, <1>1, <1>2 DEF Reached

(* Steps that send, remember and commit nothing. *)
LEMMA QuietFrame ==
  ASSUME RelayInv, NotifyInv, UNCHANGED <<vars, offset, seen, sent>>, GroupShape',
         NEW m \in Members, \A x \in Members \ {m} : Same(x),
         \/ Same(m)
         \/ Place(m)' /\ member'[m] # "marking" /\ \A l \in Logs : Reached(l, pos'[m][l])
  PROVE  NotifyInv'
  <1>1. Kept
    BY Zenon, KeptSame DEF vars
  <1>2. /\ \A k \in Keys : sent[k] > 0 => sent'[k] > 0
        /\ \A k \in seen' : sent'[k] > 0
        /\ \A l \in Logs : Reached(l, offset'[l])
    BY Zenon DEF NotifyInv, Telling
  <1>3. CASE Same(m)
    <2>1. {} \in SUBSET Members /\ \A x \in Members \ {} : Same(x)
      BY Zenon, <1>3
    <2>2. \A x \in {} : /\ Place(x)' /\ (\A l \in Logs : Reached(l, pos'[x][l]))
                        /\ member'[x] = "marking" => sent'[Key(x)'] > 0
      BY Zenon
    <2> QED
      BY Zenon, <1>1, <1>2, <2>1, <2>2, NotifyFrame
  <1>4. CASE ~Same(m)
    <2>0. PICK A : A = {m}
      BY Zenon
    <2>1. A \in SUBSET Members /\ \A x \in Members \ A : Same(x)
      BY Zenon, <2>0
    <2>2. \A x \in A : /\ Place(x)' /\ (\A l \in Logs : Reached(l, pos'[x][l]))
                       /\ member'[x] = "marking" => sent'[Key(x)'] > 0
      BY Zenon, <1>4, <2>0
    <2> QED
      BY Zenon, <1>1, <1>2, <2>1, <2>2, NotifyFrame
  <1> QED
    BY Zenon, <1>3, <1>4

LEMMA JoinStep ==
  ASSUME RelayInv, NotifyInv, NEW m \in Members, Join(m)
  PROVE  NotifyInv'
  <1>1. /\ member[m] = "down" /\ member' = [member EXCEPT ![m] = "polling"]
        /\ UNCHANGED <<vars, owner, offset, at, pos, end, seen, sent, blemishes>>
    BY Zenon DEF Join
  <1>2. member'[m] = "polling" /\ \A x \in Members \ {m} : member'[x] = member[x]
    BY Zenon, <1>1 DEF NotifyInv, GroupShape
  <1>3. GroupShape'
    BY Zenon, <1>1 DEF NotifyInv, GroupShape
  <1>4. \A x \in Members \ {m} : Same(x)
    BY Zenon, <1>1, <1>2 DEF Same
  <1>5. Rest(m) = {} /\ Rest(m)' = Rest(m) /\ log' = log
    BY Zenon, <1>1 DEF NotifyInv, Place, Rest, vars
  <1>6. Place(m)' /\ \A l \in Logs : Reached(l, pos'[m][l])
    BY Zenon, <1>1, <1>2, <1>5 DEF NotifyInv, Place, Busy, Telling
  <1> QED
    BY Zenon, <1>1, <1>2, <1>3, <1>4, <1>6, QuietFrame

(* A member's places after it gives up or takes over some partitions. *)
LEMMA ForgetEffect ==
  ASSUME NotifyInv, NEW m \in Members, NEW ls, Forget(m, ls)
  PROVE  /\ pos' \in [Members -> [Logs -> Nat]] /\ end' \in [Members -> [Logs -> Nat]]
         /\ \A x \in Members \ {m} : pos'[x] = pos[x] /\ end'[x] = end[x]
         /\ \A l \in Logs : l \in ls => pos'[m][l] = 0 /\ end'[m][l] = 0
         /\ \A l \in Logs : l \notin ls => pos'[m][l] = pos[m][l] /\ end'[m][l] = end[m][l]
  <1> DEFINE p == [l \in Logs |-> IF l \in ls THEN 0 ELSE pos[m][l]]
             e == [l \in Logs |-> IF l \in ls THEN 0 ELSE end[m][l]]
  <1>1. pos' = [pos EXCEPT ![m] = p] /\ end' = [end EXCEPT ![m] = e]
    BY Zenon DEF Forget
  <1>2. \A l \in Logs : pos[m][l] \in Nat /\ end[m][l] \in Nat
    BY Zenon, Places DEF NotifyInv
  <1>3. p \in [Logs -> Nat] /\ e \in [Logs -> Nat]
    BY <1>2
  <1>4. /\ \A l \in Logs : l \in ls => p[l] = 0 /\ e[l] = 0
        /\ \A l \in Logs : l \notin ls => p[l] = pos[m][l] /\ e[l] = end[m][l]
    BY Zenon
  <1> HIDE DEF p, e
  <1>5. /\ pos' \in [Members -> [Logs -> Nat]] /\ end' \in [Members -> [Logs -> Nat]]
        /\ \A x \in Members \ {m} : pos'[x] = pos[x] /\ end'[x] = end[x]
        /\ pos'[m] = p /\ end'[m] = e
    BY Zenon, <1>1, <1>3 DEF NotifyInv, GroupShape
  <1> QED
    BY Zenon, <1>4, <1>5

(* A member that forgets partitions and has nothing in the others left to  *)
(* do is in its place, and has reached what it had.                        *)
LEMMA ForgetPlace ==
  ASSUME RelayInv, NotifyInv, UNCHANGED log, NEW m \in Members, NEW ls, Forget(m, ls),
         member'[m] \in {"down", "polling"}, \A l \in Logs : l \in Rest(m) => l \in ls
  PROVE  Place(m)' /\ \A l \in Logs : Reached(l, pos'[m][l])
  <1>1. ASSUME NEW l \in Logs
        PROVE  /\ pos'[m][l] <= end'[m][l] /\ end'[m][l] <= Len(log'[l]) /\ ~(pos'[m][l] < end'[m][l])
               /\ Reached(l, pos'[m][l])
    <2>1. /\ l \in ls => pos'[m][l] = 0 /\ end'[m][l] = 0
          /\ l \notin ls => pos'[m][l] = pos[m][l] /\ end'[m][l] = end[m][l]
      BY Zenon, ForgetEffect
    <2>2. CASE l \in ls
      <3>1. Len(log[l]) \in Nat
        BY DEF RelayInv, RelayShape
      <3>2. 0 <= 0 /\ 0 <= Len(log[l]) /\ ~(0 < 0)
        BY <3>1
      <3> QED
        BY Zenon, <2>1, <2>2, <3>2, ReachedNone
    <2>3. CASE l \notin ls
      BY Zenon, <2>1, <2>3 DEF NotifyInv, Place, Rest, Telling
    <2> QED
      BY Zenon, <2>2, <2>3
  <1>2. Rest(m)' = {} /\ ~Busy(m)'
    BY Zenon, <1>1 DEF Rest, Busy
  <1> QED
    BY Zenon, <1>1, <1>2 DEF Place

LEMMA RevokeStep ==
  ASSUME RelayInv, NotifyInv, NEW l \in Logs, Revoke(l)
  PROVE  NotifyInv'
  <1>m. PICK m : m = owner[l]
    BY Zenon
  <1>1. /\ m # NoMember /\ member[m] = "polling" /\ Forget(m, {l})
        /\ owner' = [owner EXCEPT ![l] = NoMember]
        /\ UNCHANGED <<vars, offset, member, at, seen, sent, blemishes>>
    BY Zenon, <1>m DEF Revoke
  <1>2. m \in Members
    BY Zenon, <1>m, <1>1 DEF NotifyInv, GroupShape
  <1>3. /\ pos' \in [Members -> [Logs -> Nat]] /\ end' \in [Members -> [Logs -> Nat]]
        /\ \A x \in Members \ {m} : pos'[x] = pos[x] /\ end'[x] = end[x]
    BY Zenon, <1>1, <1>2, ForgetEffect
  <1>4. GroupShape'
    BY Zenon, <1>1, <1>3 DEF NotifyInv, GroupShape
  <1>5. \A x \in Members \ {m} : Same(x)
    BY Zenon, <1>1, <1>3 DEF Same
  <1>6. Rest(m) = {} /\ log' = log
    BY Zenon, <1>1, <1>2 DEF NotifyInv, Place, vars
  <1>7. Place(m)' /\ \A k \in Logs : Reached(k, pos'[m][k])
    BY Zenon, <1>1, <1>2, <1>6, ForgetPlace
  <1> QED
    BY Zenon, <1>1, <1>2, <1>4, <1>5, <1>7, QuietFrame

LEMMA AbandonedType ==
  ASSUME GroupShape, NEW m \in Members
  PROVE  Abandoned(m) \in [Logs -> Members \cup {NoMember}]
  BY Zenon DEF GroupShape, Abandoned

LEMMA EvictStep ==
  ASSUME RelayInv, NotifyInv, NEW m \in Members, Evict(m)
  PROVE  NotifyInv'
  <1>1. blemishes' = blemishes + 1 /\ owner' = Abandoned(m)
        /\ UNCHANGED <<vars, offset, member, at, pos, end, seen, sent>>
    BY Zenon DEF Evict
  <1>2. blemishes' \in Nat
    BY <1>1 DEF NotifyInv, GroupShape
  <1>3. GroupShape'
    BY Zenon, <1>1, <1>2, AbandonedType DEF NotifyInv, GroupShape
  <1>4. \A x \in Members : Same(x)
    BY Zenon, <1>1 DEF Same
  <1> QED
    BY Zenon, <1>1, <1>3, <1>4, QuietFrame

LEMMA LeaveStep ==
  ASSUME RelayInv, NotifyInv, NEW m \in Members, Leave(m)
  PROVE  NotifyInv'
  <1>1. /\ owner' = Abandoned(m) /\ member' = [member EXCEPT ![m] = "down"] /\ Forget(m, Logs)
        /\ UNCHANGED <<vars, offset, at, seen, sent>>
    BY Zenon DEF Leave
  <1>2. blemishes' \in Nat
    BY DEF Leave, NotifyInv, GroupShape
  <1>3. /\ pos' \in [Members -> [Logs -> Nat]] /\ end' \in [Members -> [Logs -> Nat]]
        /\ \A x \in Members \ {m} : pos'[x] = pos[x] /\ end'[x] = end[x]
    BY Zenon, <1>1, ForgetEffect
  <1>4. member'[m] = "down" /\ \A x \in Members \ {m} : member'[x] = member[x]
    BY Zenon, <1>1 DEF NotifyInv, GroupShape
  <1>5. GroupShape'
    BY Zenon, <1>1, <1>2, <1>3, AbandonedType DEF NotifyInv, GroupShape
  <1>6. \A x \in Members \ {m} : Same(x)
    BY Zenon, <1>1, <1>3, <1>4 DEF Same
  <1>7. log' = log
    BY Zenon, <1>1 DEF vars
  <1>8. Place(m)' /\ \A l \in Logs : Reached(l, pos'[m][l])
    BY Zenon, <1>1, <1>4, <1>7, ForgetPlace
  <1> QED
    BY Zenon, <1>1, <1>4, <1>5, <1>6, <1>8, QuietFrame

LEMMA AssignStep ==
  ASSUME RelayInv, NotifyInv, NEW m \in Members, NEW l \in Logs, Assign(m, l)
  PROVE  NotifyInv'
  <1>1. /\ member[m] = "polling" /\ owner[l] = NoMember /\ owner' = [owner EXCEPT ![l] = m]
        /\ pos' = [pos EXCEPT ![m][l] = offset[l]] /\ end' = [end EXCEPT ![m][l] = offset[l]]
        /\ UNCHANGED <<vars, offset, member, at, seen, sent, blemishes>>
    BY Zenon DEF Assign, StartAt
  <1>2. /\ pos \in [Members -> [Logs -> Nat]] /\ end \in [Members -> [Logs -> Nat]]
        /\ offset[l] \in Nat
    BY Zenon DEF NotifyInv, GroupShape
  <1>3. /\ pos' \in [Members -> [Logs -> Nat]] /\ \A x \in Members \ {m} : pos'[x] = pos[x]
        /\ pos'[m][l] = offset[l] /\ \A k \in Logs \ {l} : pos'[m][k] = pos[m][k]
    BY <1>1, <1>2
  <1>4. /\ end' \in [Members -> [Logs -> Nat]] /\ \A x \in Members \ {m} : end'[x] = end[x]
        /\ end'[m][l] = offset[l] /\ \A k \in Logs \ {l} : end'[m][k] = end[m][k]
    BY <1>1, <1>2
  <1>5. GroupShape'
    BY Zenon, <1>1, <1>3, <1>4 DEF NotifyInv, GroupShape
  <1>6. \A x \in Members \ {m} : Same(x)
    BY Zenon, <1>1, <1>3, <1>4 DEF Same
  <1>7. Place(m) /\ Rest(m) = {} /\ log' = log
    BY Zenon, <1>1 DEF NotifyInv, Place, vars
  <1>8. ASSUME NEW k \in Logs
        PROVE  /\ pos'[m][k] <= end'[m][k] /\ end'[m][k] <= Len(log'[k]) /\ ~(pos'[m][k] < end'[m][k])
               /\ Reached(k, pos'[m][k])
    <2>1. CASE k = l
      <3>1. Reached(l, offset[l])
        BY Zenon DEF NotifyInv, Telling
      <3>2. offset[l] <= offset[l] /\ ~(offset[l] < offset[l])
        BY <1>2
      <3> QED
        BY Zenon, <1>3, <1>4, <1>7, <2>1, <3>1, <3>2 DEF Reached
    <2>2. CASE k # l
      <3>1. pos'[m][k] = pos[m][k] /\ end'[m][k] = end[m][k]
        BY Zenon, <1>3, <1>4, <2>2
      <3> QED
        BY Zenon, <1>7, <3>1 DEF Place, Rest, NotifyInv, Telling
    <2> QED
      BY Zenon, <2>1, <2>2
  <1>9. Rest(m)' = {} /\ ~Busy(m)' /\ member'[m] # "marking"
    BY Zenon, <1>1, <1>8 DEF Rest, Busy
  <1>10. Place(m)'
    BY Zenon, <1>8, <1>9 DEF Place
  <1> QED
    BY Zenon, <1>1, <1>5, <1>6, <1>8, <1>9, <1>10, QuietFrame

LEMMA PollEffect ==
  ASSUME RelayInv, NotifyInv, NEW m \in Members, Poll(m)
  PROVE  /\ UNCHANGED <<vars, owner, offset, at, pos, seen, sent, blemishes>>
         /\ member[m] = "polling" /\ member'[m] = "working"
         /\ member' = [member EXCEPT ![m] = "working"]
         /\ \A x \in Members \ {m} : member'[x] = member[x] /\ end'[x] = end[x]
         /\ end' \in [Members -> [Logs -> Nat]]
         /\ \A l \in Logs : pos[m][l] <= end'[m][l] /\ end'[m][l] <= Len(log[l])
         /\ \A l \in Logs : owner[l] # m => end'[m][l] = pos[m][l]
  <1>1. /\ UNCHANGED <<vars, owner, offset, at, pos, seen, sent, blemishes>>
        /\ member[m] = "polling" /\ member' = [member EXCEPT ![m] = "working"]
    BY Zenon DEF Poll
  <1>2. PICK upto \in [Logs -> UNION {0..Len(log[l]) : l \in Logs}] :
          /\ \A l \in Logs : upto[l] \in IF owner[l] = m THEN pos[m][l]..Len(log[l]) ELSE {pos[m][l]}
          /\ end' = [end EXCEPT ![m] = upto]
    BY Zenon DEF Poll
  <1>3. ASSUME NEW l \in Logs
        PROVE  /\ upto[l] \in Nat /\ pos[m][l] <= upto[l] /\ upto[l] <= Len(log[l])
               /\ owner[l] # m => upto[l] = pos[m][l]
    <2>1. pos[m][l] \in Nat /\ end[m][l] \in Nat /\ pos[m][l] <= end[m][l] /\ end[m][l] <= Len(log[l])
      BY Zenon, Places DEF NotifyInv, Place
    <2>2. Len(log[l]) \in Nat
      BY DEF RelayInv, RelayShape
    <2>3. CASE owner[l] = m
      <3>1. upto[l] \in pos[m][l]..Len(log[l])
        BY Zenon, <1>2, <2>3
      <3> QED
        BY <2>1, <2>2, <2>3, <3>1
    <2>4. CASE owner[l] # m
      <3>1. upto[l] = pos[m][l]
        BY Zenon, <1>2, <2>4
      <3> QED
        BY <2>1, <2>2, <3>1
    <2> QED
      BY Zenon, <2>3, <2>4
  <1>4. upto \in [Logs -> Nat]
    BY Zenon, <1>3
  <1>5. /\ end' \in [Members -> [Logs -> Nat]] /\ end'[m] = upto
        /\ \A x \in Members \ {m} : end'[x] = end[x]
    BY Zenon, <1>2, <1>4 DEF NotifyInv, GroupShape
  <1>6. member'[m] = "working" /\ \A x \in Members \ {m} : member'[x] = member[x]
    BY Zenon, <1>1 DEF NotifyInv, GroupShape
  <1> QED
    BY Zenon, <1>1, <1>3, <1>5, <1>6

LEMMA PollStep ==
  ASSUME RelayInv, NotifyInv, NEW m \in Members, Poll(m)
  PROVE  NotifyInv'
  <1>1. /\ UNCHANGED <<vars, owner, offset, at, pos, seen, sent, blemishes>>
        /\ member' = [member EXCEPT ![m] = "working"] /\ end' \in [Members -> [Logs -> Nat]]
    BY Zenon, PollEffect
  <1>2. member'[m] = "working" /\ \A x \in Members \ {m} : member'[x] = member[x] /\ end'[x] = end[x]
    BY Zenon, PollEffect
  <1>3. \A l \in Logs : pos[m][l] <= end'[m][l] /\ end'[m][l] <= Len(log[l])
    BY Zenon, PollEffect
  <1>4. GroupShape'
    BY Zenon, <1>1 DEF NotifyInv, GroupShape
  <1>5. \A x \in Members \ {m} : Same(x)
    BY Zenon, <1>1, <1>2 DEF Same
  <1>6. log' = log
    BY Zenon, <1>1 DEF vars
  <1>7. Place(m)' /\ member'[m] # "marking"
    BY Zenon, <1>1, <1>2, <1>3, <1>6 DEF Place, Busy
  <1>8. \A l \in Logs : Reached(l, pos'[m][l])
    BY Zenon, <1>1 DEF NotifyInv, Telling
  <1> QED
    BY Zenon, <1>1, <1>4, <1>5, <1>7, <1>8, QuietFrame

LEMMA AdvanceEffect ==
  ASSUME NotifyInv, NEW m \in Members, NEW l \in Logs, Advance(m, l)
  PROVE  /\ pos' \in [Members -> [Logs -> Nat]] /\ \A x \in Members \ {m} : pos'[x] = pos[x]
         /\ pos'[m][l] = pos[m][l] + 1 /\ \A k \in Logs \ {l} : pos'[m][k] = pos[m][k]
  <1>1. pos \in [Members -> [Logs -> Nat]] /\ pos[m][l] \in Nat
    BY Zenon, Places DEF NotifyInv, GroupShape
  <1>2. pos' = [pos EXCEPT ![m][l] = pos[m][l] + 1]
    BY Zenon DEF Advance
  <1> QED
    BY <1>1, <1>2

(* A member goes past a record that was told or that nobody waits for. *)
LEMMA AdvancePlace ==
  ASSUME RelayInv, NotifyInv, UNCHANGED <<log, end>>, NEW m \in Members, member'[m] = "working",
         NEW l \in Rest(m), Advance(m, l),
         kind[Record(m, l)] \in Notified => sent[DedupeKey(Record(m, l))] > 0
  PROVE  Place(m)' /\ (\A k \in Logs : Reached(k, pos'[m][k])) /\ Rest(m)' \subseteq Rest(m)
  <1>0. l \in Logs /\ pos[m][l] \in Nat /\ pos[m][l] + 1 \in 1..Len(log[l]) /\ pos[m][l] + 1 <= end[m][l]
    BY Zenon, RestRecord DEF NotifyInv
  <1>1. pos'[m][l] = pos[m][l] + 1 /\ \A k \in Logs \ {l} : pos'[m][k] = pos[m][k]
    BY Zenon, <1>0, AdvanceEffect
  <1>2. Reached(l, pos[m][l] + 1)
    <2>1. pos[m][l] + 1 <= Len(log[l])
      BY <1>0
    <2>2. Reached(l, pos[m][l]) /\ Record(m, l) = log[l][pos[m][l] + 1]
      BY Zenon, <1>0 DEF NotifyInv, Telling, Record
    <2> QED
      BY Zenon, <1>0, <2>1, <2>2, ReachedNext
  <1>3. ASSUME NEW k \in Logs
        PROVE  pos'[m][k] <= end'[m][k] /\ end'[m][k] <= Len(log'[k]) /\ Reached(k, pos'[m][k])
    BY Zenon, <1>0, <1>1, <1>2 DEF NotifyInv, Place, Telling
  <1>4. ~Busy(m)'
    BY Zenon DEF Busy
  <1>5. Place(m)'
    BY Zenon, <1>3, <1>4 DEF Place
  <1>6. Rest(m)' \subseteq Rest(m)
    BY Zenon, <1>1 DEF Rest
  <1> QED
    BY Zenon, <1>3, <1>5, <1>6

LEMMA HandleStep ==
  ASSUME RelayInv, NotifyInv, NEW m \in Members, NEW l \in Logs, Handle(m, l)
  PROVE  NotifyInv'
  <1>1. /\ member[m] = "working" /\ l \in Rest(m)
        /\ UNCHANGED <<vars, owner, offset, end, seen, sent, blemishes>>
    BY Zenon DEF Handle
  <1>2. UNCHANGED <<log, end>>
    BY Zenon, <1>1 DEF vars
  <1>3. CASE kind[Record(m, l)] \notin Notified \/ DedupeKey(Record(m, l)) \in seen
    <2>1. Advance(m, l) /\ UNCHANGED <<member, at>>
      BY Zenon, <1>3 DEF Handle
    <2>2. kind[Record(m, l)] \in Notified => sent[DedupeKey(Record(m, l))] > 0
      BY Zenon, <1>3 DEF NotifyInv, Telling
    <2>3. Place(m)' /\ (\A k \in Logs : Reached(k, pos'[m][k])) /\ member'[m] # "marking"
      BY Zenon, <1>1, <1>2, <2>1, <2>2, AdvancePlace
    <2>4. pos' \in [Members -> [Logs -> Nat]] /\ \A x \in Members \ {m} : pos'[x] = pos[x]
      BY Zenon, <2>1, AdvanceEffect
    <2>5. GroupShape'
      BY Zenon, <1>1, <2>1, <2>4 DEF NotifyInv, GroupShape
    <2>6. \A x \in Members \ {m} : Same(x)
      BY Zenon, <1>1, <2>1, <2>4 DEF Same
    <2> QED
      BY Zenon, <1>1, <2>3, <2>5, <2>6, QuietFrame
  <1>4. CASE ~(kind[Record(m, l)] \notin Notified \/ DedupeKey(Record(m, l)) \in seen)
    <2>1. /\ member' = [member EXCEPT ![m] = "sending"] /\ at' = [at EXCEPT ![m] = l]
          /\ UNCHANGED pos
      BY Zenon, <1>4 DEF Handle
    <2>2. /\ member'[m] = "sending" /\ at'[m] = l
          /\ \A x \in Members \ {m} : member'[x] = member[x] /\ at'[x] = at[x]
      <3>1. member \in [Members -> {"down", "polling", "working", "sending", "marking"}]
            /\ at = [x \in Members |-> at[x]]
        BY Zenon DEF NotifyInv, GroupShape
      <3> QED
        BY Zenon, <2>1, <3>1
    <2>3. at' = [x \in Members |-> at'[x]]
      <3>1. at = [x \in Members |-> at[x]]
        BY Zenon DEF NotifyInv, GroupShape
      <3> QED
        BY <2>1, <3>1
    <2>4. GroupShape'
      BY Zenon, <1>1, <2>1, <2>3 DEF NotifyInv, GroupShape
    <2>5. \A x \in Members \ {m} : Same(x)
      BY Zenon, <1>1, <2>1, <2>2 DEF Same
    <2>6. Rest(m)' = Rest(m)
      BY Zenon, <1>1, <2>1 DEF Rest
    <2>7. Place(m)' /\ member'[m] # "marking"
      BY Zenon, <1>1, <1>2, <2>1, <2>2, <2>6 DEF NotifyInv, Place
    <2>8. \A k \in Logs : Reached(k, pos'[m][k])
      BY Zenon, <2>1 DEF NotifyInv, Telling
    <2> QED
      BY Zenon, <1>1, <2>4, <2>5, <2>7, <2>8, QuietFrame
  <1> QED
    BY Zenon, <1>3, <1>4

(* What a member that sends does: the key counts one more or not. *)
LEMMA SendEffect ==
  ASSUME RelayInv, NotifyInv, NEW m \in Members, Send(m)
  PROVE  /\ member[m] = "sending" /\ at[m] \in Rest(m) /\ Key(m) \in Keys /\ KeyLog(Key(m)) = at[m]
         /\ UNCHANGED <<vars, owner, offset, at, pos, end, seen>>
         /\ member'[m] \in {"working", "marking"} /\ \A x \in Members \ {m} : member'[x] = member[x]
         /\ member' \in [Members -> {"down", "polling", "working", "sending", "marking"}]
         /\ sent' \in [Keys -> Nat] /\ blemishes' \in Nat
         /\ \A k \in Keys \ {Key(m)} : sent'[k] = sent[k]
         /\ \/ sent'[Key(m)] = sent[Key(m)] + 1 /\ member'[m] = "marking" /\ blemishes' = blemishes
            \/ sent'[Key(m)] = sent[Key(m)] /\ member'[m] = "working" /\ blemishes' = blemishes
            \/ /\ sent'[Key(m)] = sent[Key(m)] + 1 /\ member'[m] = "working"
               /\ blemishes' = blemishes + 1
  <1>1. /\ member[m] = "sending" /\ UNCHANGED <<vars, owner, offset, at, pos, end, seen>>
        /\ \/ /\ sent' = [sent EXCEPT ![Key(m)] = sent[Key(m)] + 1]
              /\ member' = [member EXCEPT ![m] = "marking"] /\ blemishes' = blemishes
           \/ /\ sent' = sent
              /\ member' = [member EXCEPT ![m] = "working"] /\ blemishes' = blemishes
           \/ /\ sent' = [sent EXCEPT ![Key(m)] = sent[Key(m)] + 1]
              /\ member' = [member EXCEPT ![m] = "working"] /\ blemishes' = blemishes + 1
    BY Zenon DEF Send, Key
  <1>2. at[m] \in Rest(m)
    BY Zenon, <1>1 DEF NotifyInv, Place, Busy
  <1>3. Key(m) \in Keys /\ KeyLog(Key(m)) = at[m]
    BY Zenon, <1>2, RestRecord DEF NotifyInv, Key
  <1>4. /\ sent \in [Keys -> Nat] /\ blemishes \in Nat /\ sent[Key(m)] \in Nat
        /\ member \in [Members -> {"down", "polling", "working", "sending", "marking"}]
    BY Zenon, <1>3 DEF NotifyInv, GroupShape
  <1>5. sent[Key(m)] + 1 \in Nat /\ blemishes + 1 \in Nat
    BY <1>4
  <1>6. /\ member'[m] \in {"working", "marking"} /\ \A x \in Members \ {m} : member'[x] = member[x]
        /\ member' \in [Members -> {"down", "polling", "working", "sending", "marking"}]
    BY Zenon, <1>1, <1>4
  <1>7. sent' \in [Keys -> Nat] /\ blemishes' \in Nat /\ \A k \in Keys \ {Key(m)} : sent'[k] = sent[k]
    BY Zenon, <1>1, <1>3, <1>4, <1>5
  <1>8. \/ sent'[Key(m)] = sent[Key(m)] + 1 /\ member'[m] = "marking" /\ blemishes' = blemishes
        \/ sent'[Key(m)] = sent[Key(m)] /\ member'[m] = "working" /\ blemishes' = blemishes
        \/ sent'[Key(m)] = sent[Key(m)] + 1 /\ member'[m] = "working" /\ blemishes' = blemishes + 1
    BY Zenon, <1>1, <1>3, <1>4
  <1> QED
    BY Zenon, <1>1, <1>2, <1>3, <1>6, <1>7, <1>8

LEMMA SendStep ==
  ASSUME RelayInv, NotifyInv, NEW m \in Members, Send(m)
  PROVE  NotifyInv'
  <1>1. /\ at[m] \in Rest(m) /\ Key(m) \in Keys
        /\ UNCHANGED <<vars, owner, offset, at, pos, end, seen>>
    BY Zenon, SendEffect
  <1>2. /\ member'[m] \in {"working", "marking"} /\ \A x \in Members \ {m} : member'[x] = member[x]
        /\ member' \in [Members -> {"down", "polling", "working", "sending", "marking"}]
        /\ sent' \in [Keys -> Nat] /\ blemishes' \in Nat
    BY Zenon, SendEffect
  <1>3. /\ \A k \in Keys \ {Key(m)} : sent'[k] = sent[k]
        /\ sent'[Key(m)] = sent[Key(m)] \/ sent'[Key(m)] = sent[Key(m)] + 1
        /\ member'[m] = "marking" => sent'[Key(m)] = sent[Key(m)] + 1
    BY Zenon, SendEffect
  <1>4. Kept /\ log' = log
    BY Zenon, <1>1, KeptSame DEF vars
  <1>5. sent[Key(m)] \in Nat /\ sent[Key(m)] + 1 > 0
    <2>1. sent[Key(m)] \in Nat
      BY Zenon, <1>1 DEF NotifyInv, GroupShape
    <2> QED
      BY <2>1
  <1>6. \A k \in Keys : sent[k] > 0 => sent'[k] > 0
    BY Zenon, <1>3, <1>5
  <1>7. GroupShape'
    BY Zenon, <1>1, <1>2 DEF NotifyInv, GroupShape
  <1>8. \A k \in seen' : sent'[k] > 0
    BY Zenon, <1>1, <1>6 DEF NotifyInv, Telling, GroupShape
  <1>9. /\ \A l \in Logs : Reached(l, offset'[l]) /\ Reached(l, pos'[m][l])
        /\ \A x \in Members \ {m} : Same(x)
    BY Zenon, <1>1, <1>2 DEF NotifyInv, Telling, Same
  <1>10. Key(m)' = Key(m) /\ Rest(m)' = Rest(m)
    BY Zenon, <1>1 DEF Key, DedupeKey, Record, Rest, vars
  <1>11. Place(m)'
    BY Zenon, <1>1, <1>2, <1>4, <1>10 DEF NotifyInv, Place
  <1>12. member'[m] = "marking" => sent'[Key(m)'] > 0
    BY Zenon, <1>3, <1>5, <1>10
  <1>13. PICK A : A = {m}
    BY Zenon
  <1>14. A \in SUBSET Members /\ \A x \in Members \ A : Same(x)
    BY Zenon, <1>9, <1>13
  <1>15. \A x \in A : /\ Place(x)' /\ \A l \in Logs : Reached(l, pos'[x][l])
                      /\ member'[x] = "marking" => sent'[Key(x)'] > 0
    BY Zenon, <1>9, <1>11, <1>12, <1>13
  <1> QED
    BY Zenon, <1>4, <1>6, <1>7, <1>8, <1>9, <1>14, <1>15, NotifyFrame

(* A message is marked, or marking it fails. *)
LEMMA MarkEffect ==
  ASSUME RelayInv, NotifyInv, NEW m \in Members, Mark(m)
  PROVE  /\ member[m] = "marking" /\ at[m] \in Rest(m) /\ Key(m) \in Keys /\ KeyLog(Key(m)) = at[m]
         /\ UNCHANGED <<vars, owner, offset, at, end, sent>>
         /\ Advance(m, at[m]) /\ member'[m] = "working"
         /\ \A x \in Members \ {m} : member'[x] = member[x]
         /\ member' \in [Members -> {"down", "polling", "working", "sending", "marking"}]
         /\ blemishes' \in Nat /\ seen' \subseteq Keys
         /\ \/ seen' = seen \cup {Key(m)} /\ blemishes' = blemishes
            \/ seen' = seen /\ blemishes' = blemishes + 1
  <1>1. /\ member[m] = "marking" /\ Advance(m, at[m]) /\ member' = [member EXCEPT ![m] = "working"]
        /\ UNCHANGED <<vars, owner, offset, at, end, sent>>
        /\ \/ seen' = seen \cup {Key(m)} /\ blemishes' = blemishes
           \/ seen' = seen /\ blemishes' = blemishes + 1
    BY Zenon DEF Mark, Remembered, Key
  <1>2. at[m] \in Rest(m)
    BY Zenon, <1>1 DEF NotifyInv, Place, Busy
  <1>3. Key(m) \in Keys /\ KeyLog(Key(m)) = at[m]
    BY Zenon, <1>2, RestRecord DEF NotifyInv, Key
  <1>4. blemishes \in Nat /\ blemishes + 1 \in Nat
    BY DEF NotifyInv, GroupShape
  <1>5. /\ member'[m] = "working" /\ \A x \in Members \ {m} : member'[x] = member[x]
        /\ member' \in [Members -> {"down", "polling", "working", "sending", "marking"}]
    BY Zenon, <1>1 DEF NotifyInv, GroupShape
  <1>6. blemishes' \in Nat /\ seen' \subseteq Keys
    BY Zenon, <1>1, <1>3, <1>4 DEF NotifyInv, GroupShape
  <1> QED
    BY Zenon, <1>1, <1>2, <1>3, <1>5, <1>6

LEMMA MarkMessageStep ==
  ASSUME RelayInv, NotifyInv, NEW m \in Members, Mark(m)
  PROVE  NotifyInv'
  <1>1. /\ member[m] = "marking" /\ at[m] \in Rest(m) /\ Key(m) \in Keys
        /\ UNCHANGED <<vars, owner, offset, at, end, sent>> /\ Advance(m, at[m])
    BY Zenon, MarkEffect
  <1>2. /\ member'[m] = "working" /\ \A x \in Members \ {m} : member'[x] = member[x]
        /\ member' \in [Members -> {"down", "polling", "working", "sending", "marking"}]
        /\ blemishes' \in Nat /\ seen' \subseteq Keys /\ seen' \subseteq seen \cup {Key(m)}
    BY Zenon, MarkEffect
  <1>3. Kept /\ UNCHANGED <<log, end>> /\ at[m] \in Logs
    BY Zenon, <1>1, KeptSame DEF vars, Rest
  <1>4. sent[Key(m)] > 0
    BY Zenon, <1>1 DEF NotifyInv, Telling
  <1>5. pos' \in [Members -> [Logs -> Nat]] /\ \A x \in Members \ {m} : pos'[x] = pos[x]
    BY Zenon, <1>1, <1>3, AdvanceEffect
  <1>6. Place(m)' /\ \A l \in Logs : Reached(l, pos'[m][l])
    <2>1. PICK l : l = at[m]
      BY Zenon
    <2>2. l \in Rest(m) /\ Advance(m, l) /\ sent[DedupeKey(Record(m, l))] > 0
      BY Zenon, <1>1, <1>4, <2>1 DEF Key
    <2> QED
      BY Zenon, <1>2, <1>3, <2>2, AdvancePlace
  <1>7. GroupShape'
    BY Zenon, <1>1, <1>2, <1>5 DEF NotifyInv, GroupShape
  <1>8. /\ \A k \in Keys : sent[k] > 0 => sent'[k] > 0
        /\ \A k \in seen' : sent'[k] > 0
        /\ \A l \in Logs : Reached(l, offset'[l])
    BY Zenon, <1>1, <1>2, <1>4 DEF NotifyInv, Telling
  <1>9. PICK A : A = {m}
    BY Zenon
  <1>10. A \in SUBSET Members /\ \A x \in Members \ A : Same(x)
    BY Zenon, <1>1, <1>2, <1>5, <1>9 DEF Same
  <1>11. \A x \in A : /\ Place(x)' /\ \A l \in Logs : Reached(l, pos'[x][l])
                      /\ member'[x] = "marking" => sent'[Key(x)'] > 0
    BY Zenon, <1>2, <1>6, <1>9
  <1> QED
    BY Zenon, <1>3, <1>7, <1>8, <1>10, <1>11, NotifyFrame

(* The whole batch is through when its offsets are committed. *)
LEMMA CommitStep ==
  ASSUME RelayInv, NotifyInv, NEW m \in Members, CommitUncommittedOffsets(m)
  PROVE  NotifyInv'
  <1>1. /\ Rest(m) = {} /\ member' = [member EXCEPT ![m] = "polling"]
        /\ Forget(m, {l \in Logs : owner[l] # m})
        /\ UNCHANGED <<vars, owner, at, seen, sent, blemishes>>
    BY Zenon DEF CommitUncommittedOffsets, BatchDone
  <1>2. \/ offset' = [l \in Logs |-> IF l \in Committable(m) THEN end[m][l] ELSE offset[l]]
        \/ offset' = offset
    BY Zenon DEF CommitUncommittedOffsets
  <1>3. Kept /\ log' = log
    BY Zenon, <1>1, KeptSame DEF vars
  <1>4. ASSUME NEW l \in Logs PROVE Reached(l, offset'[l]) /\ offset'[l] \in Nat
    <2>1. Reached(l, pos[m][l]) /\ Reached(l, offset[l])
      BY Zenon DEF NotifyInv, Telling
    <2>2. end[m][l] = pos[m][l]
      <3>1. pos[m][l] <= end[m][l] /\ ~(pos[m][l] < end[m][l])
        BY Zenon, <1>1 DEF NotifyInv, Place, Rest
      <3>2. pos[m][l] \in Nat /\ end[m][l] \in Nat
        BY Zenon, Places DEF NotifyInv
      <3> QED
        BY <3>1, <3>2
    <2>3. offset'[l] = pos[m][l] \/ offset'[l] = offset[l]
      BY Zenon, <1>2, <2>2
    <2> QED
      BY Zenon, <2>1, <2>3 DEF Reached
  <1>5. offset' \in [Logs -> Nat]
    <2>1. CASE offset' = offset
      BY Zenon, <2>1 DEF NotifyInv, GroupShape
    <2>2. CASE offset' = [l \in Logs |-> IF l \in Committable(m) THEN end[m][l] ELSE offset[l]]
      BY Zenon, <1>4, <2>2
    <2> QED
      BY Zenon, <1>2, <2>1, <2>2
  <1>6. /\ pos' \in [Members -> [Logs -> Nat]] /\ end' \in [Members -> [Logs -> Nat]]
        /\ \A x \in Members \ {m} : pos'[x] = pos[x] /\ end'[x] = end[x]
    BY Zenon, <1>1, ForgetEffect
  <1>7. member'[m] = "polling" /\ \A x \in Members \ {m} : member'[x] = member[x]
    BY Zenon, <1>1 DEF NotifyInv, GroupShape
  <1>8. GroupShape'
    BY Zenon, <1>1, <1>5, <1>6 DEF NotifyInv, GroupShape
  <1>9. Place(m)' /\ \A l \in Logs : Reached(l, pos'[m][l])
    <2>1. PICK ls : ls = {l \in Logs : owner[l] # m}
      BY Zenon
    <2> QED
      BY Zenon, <1>1, <1>3, <1>7, <2>1, ForgetPlace
  <1>10. (\A k \in Keys : sent[k] > 0 => sent'[k] > 0) /\ \A k \in seen' : sent'[k] > 0
    BY Zenon, <1>1 DEF NotifyInv, Telling
  <1>11. PICK A : A = {m}
    BY Zenon
  <1>12. A \in SUBSET Members /\ \A x \in Members \ A : Same(x)
    BY Zenon, <1>1, <1>6, <1>7, <1>11 DEF Same
  <1>13. \A x \in A : /\ Place(x)' /\ \A l \in Logs : Reached(l, pos'[x][l])
                      /\ member'[x] = "marking" => sent'[Key(x)'] > 0
    BY Zenon, <1>7, <1>9, <1>11
  <1> QED
    BY Zenon, <1>3, <1>4, <1>8, <1>10, <1>12, <1>13, NotifyFrame

(* The relay and the writers change nothing of the group. *)
LEMMA OutboxStep ==
  ASSUME RelayInv, NotifyInv, [RelayNext]_vars, UNCHANGED group
  PROVE  NotifyInv'
  <1>1. UNCHANGED <<owner, offset, member, at, pos, end, seen, sent, blemishes>>
    BY Zenon DEF group
  <1>2. Kept
    BY Zenon, KeptStep
  <1>3. GroupShape'
    BY Zenon, <1>1 DEF NotifyInv, GroupShape
  <1>4. {} \in SUBSET Members /\ \A x \in Members \ {} : Same(x)
    BY Zenon, <1>1 DEF Same
  <1>5. /\ \A k \in Keys : sent[k] > 0 => sent'[k] > 0
        /\ \A k \in seen' : sent'[k] > 0
        /\ \A l \in Logs : Reached(l, offset'[l])
    BY Zenon, <1>1 DEF NotifyInv, Telling
  <1>6. \A x \in {} : /\ Place(x)' /\ \A l \in Logs : Reached(l, pos'[x][l])
                      /\ member'[x] = "marking" => sent'[Key(x)'] > 0
    BY Zenon
  <1> QED
    BY Zenon, <1>2, <1>3, <1>4, <1>5, <1>6, NotifyFrame

LEMMA NotifyInvInit == NotifyInit => NotifyInv
  <1> SUFFICES ASSUME NotifyInit PROVE NotifyInv
    OBVIOUS
  <1>0. RelayInv
    BY Zenon, RelayInvInit DEF NotifyInit
  <1>1. GroupShape
    <2>1. 0 \in Nat
      OBVIOUS
    <2>2. at = [m \in Members |-> at[m]]
      BY DEF NotifyInit
    <2>3. pos \in [Members -> [Logs -> Nat]] /\ end \in [Members -> [Logs -> Nat]]
      BY DEF NotifyInit
    <2> QED
      BY Zenon, <2>1, <2>2, <2>3 DEF NotifyInit, GroupShape
  <1>2. ASSUME NEW m \in Members PROVE Place(m)
    <2>1. \A l \in Logs : pos[m][l] = 0 /\ end[m][l] = 0
      BY Zenon DEF NotifyInit
    <2>2. \A l \in Logs : 0 <= 0 /\ 0 <= Len(log[l]) /\ ~(0 < 0)
      BY <1>0 DEF RelayInv, RelayShape
    <2> QED
      BY Zenon, <2>1, <2>2 DEF NotifyInit, Place, Rest, Busy
  <1>3. Telling
    <2>1. \A l \in Logs : offset[l] = 0 /\ \A m \in Members : pos[m][l] = 0
      BY Zenon DEF NotifyInit
    <2>2. \A l \in Logs : Reached(l, 0)
      BY Zenon, <1>0, ReachedNone
    <2> QED
      BY Zenon, <2>1, <2>2 DEF NotifyInit, Telling
  <1> QED
    BY Zenon, <1>1, <1>2, <1>3 DEF NotifyInv

(* The steps of the group, one of the outbox, or none. *)
LEMMA NotifySteps ==
  ASSUME [NotifyNext]_allVars
  PROVE  \/ \E m \in Members : Join(m) \/ Evict(m) \/ Leave(m) \/ Poll(m) \/ Send(m) \/ Mark(m)
         \/ \E m \in Members : CommitUncommittedOffsets(m) \/ \E l \in Logs : Handle(m, l)
         \/ \E l \in Logs : Revoke(l) \/ \E m \in Members : Assign(m, l)
         \/ [RelayNext]_vars /\ UNCHANGED group
  BY Zenon DEF NotifyNext, GroupNext, Process, allVars

LEMMA OutboxUnderGroup ==
  ASSUME [NotifyNext]_allVars
  PROVE  [RelayNext]_vars
  <1>1. ASSUME NEW m \in Members, Join(m) \/ Evict(m) \/ Leave(m) \/ Poll(m) \/ Send(m) \/ Mark(m)
        PROVE  UNCHANGED vars
    BY Zenon, <1>1 DEF Join, Evict, Leave, Poll, Send, Mark
  <1>2. ASSUME NEW m \in Members, CommitUncommittedOffsets(m) \/ \E l \in Logs : Handle(m, l)
        PROVE  UNCHANGED vars
    BY Zenon, <1>2 DEF CommitUncommittedOffsets, Handle
  <1>3. ASSUME NEW l \in Logs, Revoke(l) \/ \E m \in Members : Assign(m, l)
        PROVE  UNCHANGED vars
    BY Zenon, <1>3 DEF Revoke, Assign
  <1> QED
    BY Zenon, <1>1, <1>2, <1>3, NotifySteps

LEMMA NotifyInvStep == RelayInv /\ NotifyInv /\ [NotifyNext]_allVars => NotifyInv'
  <1> SUFFICES ASSUME RelayInv, NotifyInv, [NotifyNext]_allVars PROVE NotifyInv'
    OBVIOUS
  <1>1. ASSUME NEW m \in Members, Join(m) \/ Evict(m) \/ Leave(m) \/ Poll(m) \/ Send(m) \/ Mark(m)
        PROVE  NotifyInv'
    BY Zenon, <1>1, JoinStep, EvictStep, LeaveStep, PollStep, SendStep, MarkMessageStep
  <1>2. ASSUME NEW m \in Members, CommitUncommittedOffsets(m) \/ \E l \in Logs : Handle(m, l)
        PROVE  NotifyInv'
    BY Zenon, <1>2, CommitStep, HandleStep
  <1>3. ASSUME NEW l \in Logs, Revoke(l) \/ \E m \in Members : Assign(m, l)
        PROVE  NotifyInv'
    BY Zenon, <1>3, RevokeStep, AssignStep
  <1>4. ASSUME [RelayNext]_vars /\ UNCHANGED group PROVE NotifyInv'
    BY Zenon, <1>4, OutboxStep
  <1> QED
    BY Zenon, <1>1, <1>2, <1>3, <1>4, NotifySteps

LEMMA NotifyInvariant == NotifySpec => [](RelayInv /\ NotifyInv)
  <1>1. NotifyInit => RelayInv /\ NotifyInv
    BY Zenon, RelayInvInit, NotifyInvInit DEF NotifyInit
  <1>2. RelayInv /\ NotifyInv /\ [NotifyNext]_allVars => (RelayInv /\ NotifyInv)'
    BY Zenon, NotifyInvStep, OutboxUnderGroup, RelayInvStep
  <1> QED
    BY <1>1, <1>2, PTL DEF NotifySpec

(* Whatever the group has committed was told to the buyer: Consume commits *)
(* the offsets of a polled batch once every record of it was handled, and  *)
(* neither the overlap of two members nor a retry moves an offset past a   *)
(* message that was not sent (consume.go, notifier.go).                    *)
THEOREM NotifyCommittedTold == NotifySpec => []CommittedMeansTold
  <1>1. NotifyInv => CommittedMeansTold
    BY Zenon DEF NotifyInv, Telling, Reached, CommittedMeansTold, Told
  <1> QED
    BY <1>1, NotifyInvariant, PTL
=============================================================================
