--------------------------- MODULE DeliveryProofs ---------------------------
(***************************************************************************)
(* Proofs about the order and the number of what RelayProofs shows to      *)
(* arrive: the events of an order keep their order while no two batches    *)
(* overlap (OrderKept), and a customer is told of one event once, and once *)
(* more for each failure at most (RepeatsCounted).                         *)
(***************************************************************************)
EXTENDS RelayProofs, FiniteSetTheorems

-----------------------------------------------------------------------------
(* The order of events.  An order has one transaction open at a time, so   *)
(* its rows commit in the order of their ids.                              *)
Serial ==
  /\ \A i \in Ids : row[i] = "open" => tx[order[i]] = i
  /\ \A i, j \in Ids : i < j /\ order[i] = order[j] /\ row[j] # "none" => row[i] # "open"

(* A batch leaves out no unpublished row of an order that is older than    *)
(* one it holds.                                                           *)
OldestFirst ==
  \A r \in Relays : \A j \in batch[r] : \A i \in Ids :
    i < j /\ order[i] = order[j] /\ row[i] = "unpublished" => i \in batch[r]

(* Every copy of j comes after a copy of i. *)
Precedes(s, i, j) == \A n \in DOMAIN s : s[n] = j => \E m \in 1..(n - 1) : s[m] = i

InOrder ==
  \A i, j \in Ids :
    i < j /\ Committed(i) /\ order[i] = order[j] /\ LogOf(i) = LogOf(j) => Precedes(log[LogOf(j)], i, j)

SequenceInv == Serial /\ (~overlap => OldestFirst /\ InOrder)

LEMMA PrecedesAppend ==
  ASSUME NEW S, NEW s \in Seq(S), NEW e \in S, NEW i, NEW j, Precedes(s, i, j), e = j => i \in Range(s)
  PROVE  Precedes(Append(s, e), i, j)
  <1>1. /\ Len(s) \in Nat /\ DOMAIN s = 1..Len(s) /\ DOMAIN Append(s, e) = 1..(Len(s) + 1)
        /\ Append(s, e)[Len(s) + 1] = e
        /\ \A n \in 1..Len(s) : Append(s, e)[n] = s[n]
    OBVIOUS
  <1> DEFINE a == Append(s, e)
  <1> SUFFICES ASSUME NEW n \in 1..(Len(s) + 1), a[n] = j
               PROVE  \E m \in 1..(n - 1) : a[m] = i
    BY Zenon, <1>1 DEF Precedes
  <1> HIDE DEF a
  <1>2. CASE n = Len(s) + 1
    <2>1. PICK m \in 1..Len(s) : s[m] = i
      BY Zenon, <1>1, <1>2 DEF Range, a
    <2>2. m \in 1..(n - 1) /\ a[m] = i
      BY <1>1, <1>2, <2>1 DEF a
    <2> QED
      BY Zenon, <2>2
  <1>3. CASE n # Len(s) + 1
    <2>1. n \in 1..Len(s)
      BY <1>1, <1>3
    <2>2. PICK m \in 1..(n - 1) : s[m] = i
      BY Zenon, <1>1, <2>1 DEF Precedes, a
    <2>3. m \in 1..Len(s)
      BY <1>1, <2>1, <2>2
    <2> QED
      BY Zenon, <1>1, <2>2, <2>3 DEF a
  <1> QED
    BY Zenon, <1>2, <1>3

(* ORDER BY id LIMIT BatchSize takes every free row older than one it      *)
(* takes.                                                                  *)
LEMMA OldestClosed ==
  ASSUME NEW S \in SUBSET Ids, NEW j \in Oldest(S), NEW i \in S, i < j
  PROVE  i \in Oldest(S)
  <1> DEFINE Below(k) == {x \in S : x < k}
  <1>1. IsFiniteSet(Ids)
    <2>1. 1 \in Int /\ MaxEvents \in Int
      BY RelayAssumption
    <2> QED
      BY Zenon, <2>1, FS_Interval DEF Ids
  <1>2. S \subseteq Nat /\ i \in Nat /\ j \in Nat
    BY DEF Ids, Oldest
  <1>3. Below(i) \subseteq Below(j) /\ Below(j) \subseteq Ids
    <2>1. \A x \in S : x < i => x < j
      BY <1>2
    <2> QED
      BY Zenon, <2>1
  <1>4. Cardinality(Below(j)) < BatchSize
    BY Zenon DEF Oldest
  <1> HIDE DEF Below
  <1>5. IsFiniteSet(Below(j))
    BY Zenon, <1>1, <1>3, FS_Subset
  <1>6. /\ IsFiniteSet(Below(i)) /\ Cardinality(Below(i)) <= Cardinality(Below(j))
        /\ Cardinality(Below(i)) \in Nat /\ Cardinality(Below(j)) \in Nat
    BY Zenon, <1>3, <1>5, FS_Subset, FS_CardinalityType
  <1>7. Cardinality(Below(i)) < BatchSize
    BY <1>4, <1>6, RelayAssumption
  <1> QED
    BY Zenon, <1>7 DEF Below, Oldest

LEMMA SequenceInit == Init => SequenceInv
  <1> SUFFICES ASSUME Init PROVE SequenceInv
    OBVIOUS
  <1>1. Serial /\ OldestFirst
    BY Zenon DEF Init, Serial, OldestFirst
  <1>2. InOrder
    BY Zenon DEF Init, InOrder, Committed
  <1> QED
    BY Zenon, <1>1, <1>2 DEF SequenceInv

(* Steps that write no row and send no record: they commit nothing, and    *)
(* the locks they take are the oldest rows.                                *)
LEMMA SequenceQuiet ==
  ASSUME RelayInv, SequenceInv, UNCHANGED <<tx, order, kind, log>>, ~overlap' => ~overlap,
         \A i \in Ids : /\ Committed(i)' <=> Committed(i)
                        /\ row'[i] = "open" <=> row[i] = "open"
                        /\ row'[i] = "none" <=> row[i] = "none",
         ~overlap' /\ OldestFirst => OldestFirst'
  PROVE  SequenceInv'
  <1>1. Serial'
    BY Zenon DEF SequenceInv, Serial
  <1>2. \A i : LogOf(i)' = LogOf(i)
    BY Zenon DEF LogOf
  <1>3. ASSUME InOrder PROVE InOrder'
    <2> SUFFICES ASSUME NEW i \in Ids, NEW j \in Ids, i < j, Committed(i)', order'[i] = order'[j],
                        LogOf(i)' = LogOf(j)'
                 PROVE  Precedes(log'[LogOf(j)'], i, j)
      BY Zenon DEF InOrder, Precedes
    <2>1. Committed(i) /\ order[i] = order[j] /\ LogOf(i) = LogOf(j)
      BY Zenon, <1>2
    <2>2. Precedes(log[LogOf(j)], i, j)
      BY Zenon, <1>3, <2>1 DEF InOrder
    <2> QED
      BY Zenon, <1>2, <2>2
  <1> QED
    BY Zenon, <1>1, <1>3 DEF SequenceInv

LEMMA SequenceWrite ==
  ASSUME RelayInv, SequenceInv, NEW o \in Orders, NEW k \in Kinds, Write(o, k)
  PROVE  SequenceInv'
  <1>1. next \in Ids /\ row[next] = "none" /\ next \in Nat /\ next # 0
    BY RelayAssumption DEF Write, RelayInv, RelayShape, Rows, Ids
  <1>2. tx[o] = 0 /\ UNCHANGED <<batch, log, overlap>>
    BY Zenon DEF Write
  <1>3. /\ row'[next] = "open" /\ order'[next] = o /\ tx'[o] = next
        /\ \A j \in Ids \ {next} : row'[j] = row[j] /\ order'[j] = order[j] /\ kind'[j] = kind[j]
        /\ \A p \in Orders \ {o} : tx'[p] = tx[p]
    BY Zenon, <1>1 DEF Write, RelayInv, RelayShape
  <1>4. \A j \in Ids \ {next} : LogOf(j)' = LogOf(j) /\ (Committed(j)' <=> Committed(j))
    BY Zenon, <1>3 DEF LogOf, Committed
  <1>5. \A j \in Ids : row[j] = "open" => order[j] # o /\ order[j] \in Orders /\ j # next
    <2>1. 0 \notin Ids
      BY DEF Ids
    <2>2. \A j \in Ids : row[j] = "open" => tx[order[j]] = j /\ order[j] \in Orders
      BY Zenon DEF SequenceInv, Serial, RelayInv, Rows
    <2> QED
      BY Zenon, <1>1, <1>2, <2>1, <2>2
  <1>6. \A j \in Ids : next < j => row[j] = "none" /\ j # next
    <2>1. \A j \in Ids : j \in Nat
      BY DEF Ids
    <2> QED
      BY <1>1, <2>1 DEF RelayInv, Rows
  <1>7. Serial'
    <2>1. ASSUME NEW j \in Ids, row'[j] = "open" PROVE tx'[order'[j]] = j
      <3>1. CASE j = next
        BY Zenon, <1>3, <3>1
      <3>2. CASE j # next
        <4>1. row[j] = "open" /\ order'[j] = order[j]
          BY Zenon, <1>3, <2>1, <3>2
        <4>2. tx[order[j]] = j /\ order[j] # o /\ order[j] \in Orders
          BY Zenon, <1>5, <4>1 DEF SequenceInv, Serial
        <4> QED
          BY Zenon, <1>3, <4>1, <4>2
      <3> QED
        BY Zenon, <3>1, <3>2
    <2>2. ASSUME NEW i \in Ids, NEW j \in Ids, i < j, order'[i] = order'[j], row'[j] # "none"
          PROVE  row'[i] # "open"
      <3>1. CASE i = next
        BY Zenon, <1>3, <1>6, <2>2, <3>1
      <3>2. CASE i # next /\ j = next
        BY Zenon, <1>3, <1>5, <2>2, <3>2
      <3>3. CASE i # next /\ j # next
        BY Zenon, <1>3, <2>2, <3>3 DEF SequenceInv, Serial
      <3> QED
        BY Zenon, <3>1, <3>2, <3>3
    <2> QED
      BY Zenon, <2>1, <2>2 DEF Serial
  <1>8. ASSUME OldestFirst PROVE OldestFirst'
    <2> SUFFICES ASSUME NEW r \in Relays, NEW j \in batch[r], NEW i \in Ids, i < j,
                        order'[i] = order'[j], row'[i] = "unpublished"
                 PROVE  i \in batch[r]
      BY Zenon, <1>2 DEF OldestFirst
    <2>1. j \in Ids /\ j # next /\ i # next
      BY Zenon, <1>1, <1>3 DEF RelayInv, RelayShape, Batches, BatchInv
    <2>2. order[i] = order[j] /\ row[i] = "unpublished"
      BY Zenon, <1>3, <2>1
    <2> QED
      BY Zenon, <1>8, <2>2 DEF OldestFirst
  <1>9. ASSUME InOrder PROVE InOrder'
    <2> SUFFICES ASSUME NEW i \in Ids, NEW j \in Ids, i < j, Committed(i)', order'[i] = order'[j],
                        LogOf(i)' = LogOf(j)'
                 PROVE  Precedes(log'[LogOf(j)'], i, j)
      BY Zenon DEF InOrder, Precedes
    <2>1. i # next
      BY Zenon, <1>3 DEF Committed
    <2>2. CASE j = next
      <3>1. LogOf(i) \in Logs /\ LogOf(j)' = LogOf(i)
        BY Zenon, <1>4, <2>1, LogOfType DEF Committed
      <3>2. next \notin Range(log[LogOf(i)])
        BY Zenon, <1>1, <3>1 DEF RelayInv, LoggedCommitted, Committed
      <3> QED
        BY Zenon, <1>2, <2>2, <3>1, <3>2 DEF Precedes, Range
    <2>3. CASE j # next
      <3>1. Committed(i) /\ order[i] = order[j] /\ LogOf(i) = LogOf(j) /\ LogOf(j)' = LogOf(j)
        BY Zenon, <1>3, <1>4, <2>1, <2>3
      <3>2. Precedes(log[LogOf(j)], i, j)
        BY Zenon, <1>9, <3>1 DEF InOrder
      <3> QED
        BY Zenon, <1>2, <3>1, <3>2
    <2> QED
      BY Zenon, <2>2, <2>3
  <1> QED
    BY Zenon, <1>2, <1>7, <1>8, <1>9 DEF SequenceInv

(* The row that commits is older than no row of its order that is locked   *)
(* or on Kafka.                                                            *)
LEMMA SequenceEndTx ==
  ASSUME RelayInv, SequenceInv, NEW o \in Orders, EndTx(o)
  PROVE  SequenceInv'
  <1> DEFINE t == tx[o]
  <1>1. /\ t \in Ids /\ row[t] = "open" /\ order[t] = o /\ tx' = [tx EXCEPT ![o] = 0]
        /\ UNCHANGED <<order, kind, batch, log, overlap>>
    BY Zenon DEF EndTx, RelayInv, Rows
  <1>2. row'[t] \in {"unpublished", "rolled_back"} /\ \A j \in Ids \ {t} : row'[j] = row[j]
    BY Zenon, <1>1 DEF EndTx, RelayInv, RelayShape
  <1>3. \A p \in Orders \ {o} : tx'[p] = tx[p]
    BY Zenon, <1>1 DEF RelayInv, RelayShape
  <1> HIDE DEF t
  <1>4. \A j \in Ids : LogOf(j)' = LogOf(j) /\ (j # t => (Committed(j)' <=> Committed(j)))
    BY Zenon, <1>1, <1>2 DEF LogOf, Committed
  <1>5. \A j \in Ids : t < j /\ order[j] = o => row[j] = "none"
    BY Zenon, <1>1 DEF SequenceInv, Serial
  <1>6. Serial'
    <2>1. ASSUME NEW j \in Ids, row'[j] = "open" PROVE tx'[order[j]] = j
      <3>1. row[j] = "open" /\ j # t
        BY Zenon, <1>2, <2>1
      <3>2. tx[order[j]] = j /\ order[j] \in Orders
        BY Zenon, <3>1 DEF SequenceInv, Serial, RelayInv, Rows
      <3> QED
        BY Zenon, <1>3, <3>1, <3>2 DEF t
    <2>2. ASSUME NEW i \in Ids, NEW j \in Ids, i < j, order[i] = order[j], row'[j] # "none"
          PROVE  row'[i] # "open"
      <3>1. row[j] # "none" /\ row[i] # "open"
        BY Zenon, <1>1, <1>2, <2>2 DEF SequenceInv, Serial
      <3> QED
        BY Zenon, <1>2, <3>1
    <2> QED
      BY Zenon, <1>1, <2>1, <2>2 DEF Serial
  <1>7. ASSUME OldestFirst PROVE OldestFirst'
    <2> SUFFICES ASSUME NEW r \in Relays, NEW j \in batch[r], NEW i \in Ids, i < j,
                        order[i] = order[j], row'[i] = "unpublished"
                 PROVE  i \in batch[r]
      BY Zenon, <1>1 DEF OldestFirst
    <2>1. j \in Ids /\ row[j] = "unpublished"
      BY Zenon DEF RelayInv, RelayShape, Batches, BatchInv
    <2>2. i # t
      BY Zenon, <1>1, <1>5, <2>1
    <2>3. row[i] = "unpublished"
      BY Zenon, <1>2, <2>2
    <2> QED
      BY Zenon, <1>7, <2>3 DEF OldestFirst
  <1>8. ASSUME InOrder PROVE InOrder'
    <2> SUFFICES ASSUME NEW i \in Ids, NEW j \in Ids, i < j, Committed(i)', order'[i] = order'[j],
                        LogOf(i)' = LogOf(j)'
                 PROVE  Precedes(log'[LogOf(j)'], i, j)
      BY Zenon DEF InOrder, Precedes
    <2>1. order[i] = order[j] /\ LogOf(i) = LogOf(j) /\ log'[LogOf(j)'] = log[LogOf(j)]
      BY Zenon, <1>1, <1>4
    <2>2. CASE i = t
      <3>1. row[j] = "none" /\ LogOf(j) \in Logs
        BY Zenon, <1>1, <1>5, <2>1, <2>2, LogOfType
      <3>2. j \notin Range(log[LogOf(j)])
        BY Zenon, <3>1 DEF RelayInv, LoggedCommitted, Committed
      <3> QED
        BY Zenon, <2>1, <3>2 DEF Precedes, Range
    <2>3. CASE i # t
      <3>1. Committed(i)
        BY Zenon, <1>4, <2>3
      <3> QED
        BY Zenon, <1>8, <2>1, <3>1 DEF InOrder
    <2> QED
      BY Zenon, <2>2, <2>3
  <1> QED
    BY Zenon, <1>1, <1>6, <1>7, <1>8 DEF SequenceInv

(* While no two batches overlap, a batch is taken when no row is locked:   *)
(* the rows it may take are all the unpublished ones.                      *)
LEMMA SequenceLock ==
  ASSUME RelayInv, SequenceInv, NEW r \in Relays, LockUnpublished(r)
  PROVE  SequenceInv'
  <1>1. /\ UNCHANGED <<tx, row, order, kind, log>>
        /\ batch' = [batch EXCEPT ![r] = Oldest(FreeRows)]
        /\ overlap' = (overlap \/ \E q \in Relays : batch[q] # {})
    BY Zenon DEF LockUnpublished
  <1>2. ASSUME ~overlap' PROVE OldestFirst'
    <2>1. \A q \in Relays : batch[q] = {}
      BY Zenon, <1>1, <1>2
    <2>2. batch'[r] = Oldest(FreeRows) /\ \A q \in Relays \ {r} : batch'[q] = {}
      BY Zenon, <1>1, <2>1 DEF RelayInv, RelayShape
    <2>3. FreeRows \in SUBSET Ids /\ \A i \in Ids : row[i] = "unpublished" => i \in FreeRows
      BY Zenon, <2>1 DEF FreeRows
    <2>4. \A j \in Oldest(FreeRows), i \in FreeRows : i < j => i \in Oldest(FreeRows)
      BY Zenon, <2>3, OldestClosed
    <2> SUFFICES ASSUME NEW q \in Relays, NEW j \in batch'[q], NEW i \in Ids, i < j,
                        row[i] = "unpublished"
                 PROVE  i \in batch'[q]
      BY Zenon, <1>1 DEF OldestFirst
    <2>5. q = r
      BY Zenon, <2>2
    <2> QED
      BY Zenon, <2>2, <2>3, <2>4, <2>5
  <1>3. ~overlap' => ~overlap
    BY Zenon, <1>1
  <1>4. \A i : Committed(i)' <=> Committed(i)
    BY Zenon, <1>1 DEF Committed
  <1> QED
    BY Zenon, <1>1, <1>2, <1>3, <1>4, SequenceQuiet

(* A relay sends a record once the older records of its batch for that log *)
(* are sent; those of the same order that are not in the batch were        *)
(* published before.                                                       *)
LEMMA SequenceProduce ==
  ASSUME RelayInv, SequenceInv, NEW r \in Relays, NEW e \in Ids, Produce(r, e)
  PROVE  SequenceInv'
  <1>1. UNCHANGED <<tx, row, order, kind, batch>>
    BY Zenon DEF Produce
  <1>2. e \in batch[r] /\ LogOf(e) \in Logs /\ log'[LogOf(e)] = Append(log[LogOf(e)], e)
    BY Zenon, ProduceEffect
  <1>3. \A l \in Logs : l # LogOf(e) => log'[l] = log[l]
    BY Zenon DEF Produce, RelayInv, RelayShape
  <1>4. \A j : LogOf(j)' = LogOf(j) /\ (Committed(j)' <=> Committed(j))
    BY Zenon, <1>1 DEF LogOf, Committed
  <1>5. UNCHANGED overlap /\ \A j \in todo[r] : LogOf(j) = LogOf(e) => e <= j
    BY Zenon DEF Produce
  <1>6. Serial' /\ (OldestFirst => OldestFirst')
    BY Zenon, <1>1 DEF SequenceInv, Serial, OldestFirst
  <1>7. ASSUME OldestFirst, NEW i \in Ids, i < e, Committed(i), order[i] = order[e], LogOf(i) = LogOf(e)
        PROVE  i \in Range(log[LogOf(e)])
    <2>1. CASE row[i] = "unpublished"
      <3>1. i \in batch[r]
        BY Zenon, <1>2, <1>7, <2>1 DEF OldestFirst
      <3>2. ~(e <= i)
        BY <1>7 DEF Ids
      <3>3. Logged(i)
        BY Zenon, <1>5, <1>7, <3>1, <3>2 DEF RelayInv, Batches, BatchInv
      <3> QED
        BY Zenon, <1>7, <3>3 DEF Logged
    <2>2. CASE row[i] \in {"published", "deleted"}
      BY Zenon, <1>7, <2>2 DEF RelayInv, MarkedLogged, Logged
    <2> QED
      BY Zenon, <1>7, <2>1, <2>2 DEF Committed
  <1>8. ASSUME OldestFirst, InOrder PROVE InOrder'
    <2> SUFFICES ASSUME NEW i \in Ids, NEW j \in Ids, i < j, Committed(i)', order'[i] = order'[j],
                        LogOf(i)' = LogOf(j)'
                 PROVE  Precedes(log'[LogOf(j)'], i, j)
      BY Zenon DEF InOrder, Precedes
    <2>1. /\ Committed(i) /\ order[i] = order[j] /\ LogOf(i) = LogOf(j) /\ LogOf(j)' = LogOf(j)
          /\ LogOf(j) \in Logs
      BY Zenon, <1>1, <1>4, LogOfType DEF Committed
    <2>2. Precedes(log[LogOf(j)], i, j)
      BY Zenon, <1>8, <2>1 DEF InOrder
    <2>3. CASE LogOf(j) = LogOf(e)
      <3>1. e = j => i \in Range(log[LogOf(e)])
        BY Zenon, <1>7, <1>8, <2>1
      <3>2. log[LogOf(e)] \in Seq(Ids)
        BY Zenon, <1>2 DEF RelayInv, RelayShape
      <3> QED
        BY Zenon, <1>2, <2>1, <2>2, <2>3, <3>1, <3>2, PrecedesAppend
    <2>4. CASE LogOf(j) # LogOf(e)
      BY Zenon, <1>3, <2>1, <2>2, <2>4
    <2> QED
      BY Zenon, <2>3, <2>4
  <1> QED
    BY Zenon, <1>5, <1>6, <1>8 DEF SequenceInv

(* Rows are marked, deleted or unlocked. *)
LEMMA SequenceUnlock ==
  ASSUME RelayInv, SequenceInv, NEW r \in Relays,
         Start(r) \/ MarkPublished(r) \/ BatchFails(r) \/ Crash(r) \/ SessionEnds(r)
  PROVE  SequenceInv'
  <1>1. UNCHANGED <<tx, order, kind, log, overlap>>
    BY Zenon DEF Start, MarkPublished, BatchFails, Crash, SessionEnds
  <1>2. \A q \in Relays : batch'[q] = {} \/ batch'[q] = batch[q]
    BY Zenon DEF Start, MarkPublished, BatchFails, Crash, SessionEnds, Unlock, RelayInv, RelayShape
  <1>3. \A i \in Ids : row'[i] = row[i] \/ (row[i] = "unpublished" /\ row'[i] = "published")
    <2>1. CASE MarkPublished(r)
      BY Zenon, <2>1 DEF MarkPublished, Marked, RelayInv, Batches, BatchInv
    <2>2. CASE ~MarkPublished(r)
      BY Zenon, <2>2 DEF Start, BatchFails, Crash, SessionEnds
    <2> QED
      BY Zenon, <2>1, <2>2
  <1>4. \A i \in Ids : /\ Committed(i)' <=> Committed(i)
                       /\ row'[i] = "open" <=> row[i] = "open"
                       /\ row'[i] = "none" <=> row[i] = "none"
    BY Zenon, <1>3 DEF Committed
  <1>5. ASSUME OldestFirst PROVE OldestFirst'
    <2> SUFFICES ASSUME NEW q \in Relays, NEW j \in batch'[q], NEW i \in Ids, i < j,
                        order[i] = order[j], row'[i] = "unpublished"
                 PROVE  i \in batch'[q]
      BY Zenon, <1>1 DEF OldestFirst
    <2>1. batch'[q] = batch[q] /\ row[i] = "unpublished"
      BY Zenon, <1>2, <1>3
    <2> QED
      BY Zenon, <1>5, <2>1 DEF OldestFirst
  <1> QED
    BY Zenon, <1>1, <1>4, <1>5, SequenceQuiet

LEMMA SequenceCleanup ==
  ASSUME RelayInv, SequenceInv, NEW e \in Ids, Cleanup(e)
  PROVE  SequenceInv'
  <1>1. UNCHANGED <<tx, order, kind, batch, log, overlap>>
    BY Zenon DEF Cleanup
  <1>2. \A i \in Ids : row'[i] = row[i] \/ (row[i] = "published" /\ row'[i] = "deleted")
    BY Zenon DEF Cleanup, ExpiredRows, RelayInv, RelayShape
  <1>3. \A i \in Ids : /\ Committed(i)' <=> Committed(i)
                       /\ row'[i] = "open" <=> row[i] = "open"
                       /\ row'[i] = "none" <=> row[i] = "none"
    BY Zenon, <1>2 DEF Committed
  <1>4. OldestFirst => OldestFirst'
    <2>1. \A i \in Ids : row'[i] = "unpublished" => row[i] = "unpublished"
      BY Zenon, <1>2
    <2> QED
      BY Zenon, <1>1, <2>1 DEF OldestFirst
  <1> QED
    BY Zenon, <1>1, <1>3, <1>4, SequenceQuiet

LEMMA SequenceInvStep == RelayInv /\ SequenceInv /\ [RelayNext]_vars => SequenceInv'
  <1> SUFFICES ASSUME RelayInv, SequenceInv, [RelayNext]_vars PROVE SequenceInv'
    OBVIOUS
  <1>1. ASSUME NEW o \in Orders, EndTx(o) \/ \E k \in Kinds : Write(o, k) PROVE SequenceInv'
    BY Zenon, <1>1, SequenceEndTx, SequenceWrite
  <1>2. ASSUME NEW r \in Relays, Start(r) \/ BatchFails(r) \/ Crash(r) \/ SessionEnds(r) PROVE SequenceInv'
    BY Zenon, <1>2, SequenceUnlock
  <1>3. ASSUME NEW r \in Relays, Work(r) PROVE SequenceInv'
    BY Zenon, <1>3, SequenceLock, SequenceProduce, SequenceUnlock DEF Work
  <1>4. ASSUME NEW i \in Ids, Cleanup(i) PROVE SequenceInv'
    BY Zenon, <1>4, SequenceCleanup
  <1>5. CASE UNCHANGED vars
    <2>1. UNCHANGED <<tx, row, order, kind, batch, log, overlap>>
      BY Zenon, <1>5 DEF vars
    <2>2. \A i : Committed(i)' <=> Committed(i)
      BY Zenon, <2>1 DEF Committed
    <2>3. OldestFirst => OldestFirst'
      BY Zenon, <2>1 DEF OldestFirst
    <2> QED
      BY Zenon, <2>1, <2>2, <2>3, SequenceQuiet
  <1> QED
    BY Zenon, <1>1, <1>2, <1>3, <1>4, <1>5 DEF RelayNext

(* A set of positions that is not empty has a least one. *)
LEMMA LeastPosition ==
  ASSUME NEW T \in SUBSET Nat, T # {}
  PROVE  \E n \in T : \A m \in T : ~(m < n)
  <1> DEFINE R == OpToRel(<, Nat)
  <1>1. \A m, n \in Nat : m < n => <<m, n>> \in R
    BY DEF OpToRel
  <1>2. IsWellFoundedOn(R, Nat)
    BY Zenon, NatLessThanWellFounded
  <1> HIDE DEF R
  <1>3. PICK n \in T : \A m \in T : ~(<<m, n>> \in R)
    BY Zenon, <1>2, WFMin
  <1> QED
    BY Zenon, <1>1, <1>3

(* First names the position of the first copy of an id that is in the log. *)
LEMMA FirstPosition ==
  ASSUME NEW l, NEW i, log[l] \in Seq(Ids), i \in Range(log[l])
  PROVE  /\ First(l, i) \in DOMAIN log[l] /\ log[l][First(l, i)] = i
         /\ \A m \in 1..(First(l, i) - 1) : log[l][m] # i
  <1> DEFINE T == {n \in DOMAIN log[l] : log[l][n] = i}
  <1>1. DOMAIN log[l] = 1..Len(log[l]) /\ Len(log[l]) \in Nat
    OBVIOUS
  <1>2. T \in SUBSET Nat
    BY <1>1
  <1>3. T # {}
    BY Zenon DEF Range
  <1>4. PICK n \in T : \A m \in T : ~(m < n)
    BY Zenon, <1>2, <1>3, LeastPosition
  <1>5. \A m \in 1..(n - 1) : m \in DOMAIN log[l] /\ m < n
    BY <1>1, <1>4
  <1>6. \A m \in 1..(n - 1) : log[l][m] # i
    BY Zenon, <1>4, <1>5
  <1> QED
    BY Zenon, <1>4, <1>6 DEF First

(* As long as no two batches are locked at once, the events of an order    *)
(* reach each topic in the order they were committed, whatever is sent     *)
(* again after a failed batch or a dead relay (ORDER BY id in              *)
(* LockUnpublished, relayBatch in relay.go, the order's row lock around    *)
(* outbox.Write).                                                          *)
THEOREM RelayOrderKept == Spec => []OrderKept
  <1>1. RelayInv /\ SequenceInv => OrderKept
    <2> SUFFICES ASSUME RelayInv, SequenceInv, ~overlap, NEW i \in Ids, NEW j \in Ids, i < j,
                        Committed(i), Logged(j), order[i] = order[j], LogOf(i) = LogOf(j)
                 PROVE  Logged(i) /\ First(LogOf(i), i) < First(LogOf(j), j)
      BY Zenon DEF OrderKept
    <2> DEFINE l == LogOf(j)
    <2>1. l \in Logs /\ order[i] # NoOrder /\ LogOf(i) = l
      BY Zenon, LogOfType DEF Committed
    <2>2. Precedes(log[l], i, j) /\ j \in Range(log[l])
      BY Zenon DEF SequenceInv, InOrder, Logged
    <2> HIDE DEF l
    <2>3. log[l] \in Seq(Ids)
      BY Zenon, <2>1 DEF RelayInv, RelayShape
    <2>4. First(l, j) \in DOMAIN log[l] /\ log[l][First(l, j)] = j
      BY Zenon, <2>2, <2>3, FirstPosition
    <2>5. PICK m \in 1..(First(l, j) - 1) : log[l][m] = i
      BY Zenon, <2>2, <2>4 DEF Precedes
    <2>6. m \in DOMAIN log[l] /\ First(l, j) \in Nat /\ m \in Nat /\ 1 <= m /\ m < First(l, j)
      BY <2>3, <2>4, <2>5
    <2>7. i \in Range(log[l])
      BY Zenon, <2>5, <2>6 DEF Range
    <2>8. First(l, i) \in DOMAIN log[l] /\ \A n \in 1..(First(l, i) - 1) : log[l][n] # i
      BY Zenon, <2>3, <2>7, FirstPosition
    <2>9. First(l, i) \in Nat /\ ~(m \in 1..(First(l, i) - 1))
      BY <2>3, <2>5, <2>8
    <2>10. First(l, i) < First(l, j)
      BY <2>6, <2>9
    <2> QED
      BY Zenon, <2>1, <2>7, <2>10 DEF Logged, l
  <1> QED
    BY <1>1, SequenceInit, SequenceInvStep, RelayInvariant, PTL DEF Spec

-----------------------------------------------------------------------------
(* Repeats: the messages sent about a key and the members that may still   *)
(* send one without another failure are no more than one and the failures. *)

(* May m send key k without another failure?  It has not sent it yet, and  *)
(* has looked it up or will not find it.                                   *)
May(m, k) ==
  IF m \in Members /\ Busy(m) /\ Key(m) = k THEN member[m] = "sending" ELSE k \notin seen

(* Those who may send it: the owner of its partition, now or to come, and  *)
(* the members that lost the partition and go on with their batch.         *)
Senders(k) ==
  {m \in Members \cup {NoMember} :
     /\ m = owner[KeyLog(k)] \/ (m \in Members /\ KeyLog(k) \in Rest(m))
     /\ May(m, k)}

Budget(k) == sent[k] + Cardinality(Senders(k)) <= 1 + blemishes

BudgetInv == \A k \in Keys : Budget(k)

LEMMA SendersCount ==
  ASSUME NEW S, NEW T, IsFiniteSet(S), NEW x, T \subseteq S \cup {x}
  PROVE  /\ Cardinality(S) \in Nat /\ Cardinality(T) \in Nat
         /\ Cardinality(T) <= Cardinality(S) + 1
         /\ T \subseteq S => Cardinality(T) <= Cardinality(S)
         /\ \A y \in S : y \notin T => Cardinality(T) <= Cardinality(S)
         /\ \A y \in S : y \notin T /\ T \subseteq S => Cardinality(T) + 1 <= Cardinality(S)
  <1>1. ASSUME NEW R, IsFiniteSet(R)
        PROVE  /\ IsFiniteSet(R \cup {x}) /\ Cardinality(R) \in Nat /\ Cardinality(R \cup {x}) \in Nat
               /\ Cardinality(R \cup {x}) <= Cardinality(R) + 1
    <2>1. IsFiniteSet(R \cup {x})
          /\ Cardinality(R \cup {x}) = IF x \in R THEN Cardinality(R) ELSE Cardinality(R) + 1
      BY Zenon, <1>1, FS_AddElement
    <2>2. Cardinality(R) \in Nat
      BY Zenon, <1>1, FS_CardinalityType
    <2>3. Cardinality(R \cup {x}) \in Nat /\ Cardinality(R \cup {x}) <= Cardinality(R) + 1
      BY <2>1, <2>2
    <2> QED
      BY Zenon, <2>1, <2>2, <2>3
  <1>2. ASSUME NEW R, IsFiniteSet(R), T \subseteq R
        PROVE  Cardinality(T) \in Nat /\ Cardinality(R) \in Nat /\ Cardinality(T) <= Cardinality(R)
    BY Zenon, <1>2, FS_Subset, FS_CardinalityType
  <1>3. Cardinality(S) \in Nat /\ Cardinality(T) \in Nat /\ Cardinality(T) <= Cardinality(S) + 1
    <2>1. /\ Cardinality(T) \in Nat /\ Cardinality(T) <= Cardinality(S \cup {x})
          /\ Cardinality(S \cup {x}) \in Nat
          /\ Cardinality(S) \in Nat /\ Cardinality(S \cup {x}) <= Cardinality(S) + 1
      BY Zenon, <1>1, <1>2
    <2> QED
      BY <2>1
  <1>4. ASSUME NEW y \in S, y \notin T
        PROVE  /\ Cardinality(T) <= Cardinality(S)
               /\ T \subseteq S => Cardinality(T) + 1 <= Cardinality(S)
    <2> DEFINE R == S \ {y}
    <2>1. IsFiniteSet(R) /\ Cardinality(R) = Cardinality(S) - 1
      BY Zenon, FS_RemoveElement
    <2>2. T \subseteq R \cup {x} /\ (T \subseteq S => T \subseteq R)
      BY Zenon, <1>4
    <2> HIDE DEF R
    <2>3. /\ Cardinality(R) \in Nat /\ Cardinality(R \cup {x}) \in Nat
          /\ Cardinality(R \cup {x}) <= Cardinality(R) + 1
          /\ Cardinality(T) <= Cardinality(R \cup {x})
          /\ T \subseteq R => Cardinality(T) <= Cardinality(R)
      BY Zenon, <1>1, <1>2, <2>1, <2>2
    <2> QED
      BY <1>3, <2>1, <2>2, <2>3
  <1>5. T \subseteq S => Cardinality(T) <= Cardinality(S)
    BY Zenon, <1>2
  <1> QED
    BY Zenon, <1>3, <1>4, <1>5

LEMMA KeyLogType ==
  ASSUME NEW k \in Keys
  PROVE  KeyLog(k) \in Logs
  BY RelayAssumption DEF Keys, KeyLog, Logs

(* How a step may change who may send k. *)
LEMMA BudgetFrame ==
  ASSUME NEW k \in Keys, GroupShape, GroupShape', Budget(k),
         NEW x, Senders(k)' \subseteq Senders(k) \cup {x},
         \/ /\ Senders(k)' \subseteq Senders(k)
            /\ \/ sent'[k] = sent[k] /\ (blemishes' = blemishes \/ blemishes' = blemishes + 1)
               \/ sent'[k] = sent[k] + 1 /\ blemishes' = blemishes + 1
         \/ sent'[k] = sent[k] /\ blemishes' = blemishes + 1
         \/ \E y \in Senders(k) : y \notin Senders(k)' /\ sent'[k] = sent[k] /\ blemishes' = blemishes
         \/ /\ \E y \in Senders(k) : y \notin Senders(k)' /\ Senders(k)' \subseteq Senders(k)
            /\ sent'[k] = sent[k] + 1 /\ blemishes' = blemishes
  PROVE  Budget(k)'
  <1>1. PICK S : S = Senders(k)
    BY Zenon
  <1>2. PICK T : T = Senders(k)'
    BY Zenon
  <1>3. IsFiniteSet(S)
    <2>1. IsFiniteSet(Members \cup {NoMember}) /\ S \subseteq Members \cup {NoMember}
      BY Zenon, NotifyAssumption, FS_AddElement, <1>1 DEF Senders
    <2> QED
      BY Zenon, <2>1, FS_Subset
  <1>4. /\ Cardinality(S) \in Nat /\ Cardinality(T) \in Nat
        /\ Cardinality(T) <= Cardinality(S) + 1
        /\ T \subseteq S => Cardinality(T) <= Cardinality(S)
        /\ \A y \in S : y \notin T => Cardinality(T) <= Cardinality(S)
        /\ \A y \in S : y \notin T /\ T \subseteq S => Cardinality(T) + 1 <= Cardinality(S)
    BY Zenon, <1>1, <1>2, <1>3, SendersCount
  <1>5. sent[k] \in Nat /\ sent'[k] \in Nat /\ blemishes \in Nat /\ blemishes' \in Nat
    BY Zenon DEF GroupShape
  <1>6. sent[k] + Cardinality(S) <= 1 + blemishes
    BY Zenon, <1>1 DEF Budget
  <1>7. \/ sent'[k] = sent[k] /\ blemishes' = blemishes /\ Cardinality(T) <= Cardinality(S)
        \/ sent'[k] = sent[k] /\ blemishes' = blemishes + 1
        \/ sent'[k] = sent[k] + 1 /\ blemishes' = blemishes + 1 /\ Cardinality(T) <= Cardinality(S)
        \/ sent'[k] = sent[k] + 1 /\ blemishes' = blemishes /\ Cardinality(T) + 1 <= Cardinality(S)
    BY Zenon, <1>1, <1>2, <1>4
  <1>8. sent'[k] + Cardinality(T) <= 1 + blemishes'
    BY <1>4, <1>5, <1>6, <1>7
  <1> QED
    BY Zenon, <1>2, <1>8 DEF Budget

(* A member or an open place that the step leaves alone may send no more   *)
(* than before.                                                            *)
LEMMA SenderStays ==
  ASSUME RelayInv, NotifyInv, Kept, NEW k \in Keys, k \in seen => k \in seen',
         NEW x \in Members, Same(x), x \in Senders(k)',
         owner'[KeyLog(k)] = x => owner[KeyLog(k)] = x
  PROVE  x \in Senders(k)
  <1>1. Rest(x)' = Rest(x) /\ (Busy(x)' <=> Busy(x)) /\ (Busy(x) => Key(x)' = Key(x))
    BY Zenon, MemberStays DEF NotifyInv
  <1>2. May(x, k)' /\ (x = owner'[KeyLog(k)] \/ KeyLog(k) \in Rest(x)')
    BY Zenon DEF Senders, KeyLog
  <1>3. May(x, k)
    <2>1. CASE Busy(x) /\ Key(x) = k
      BY Zenon, <1>1, <1>2, <2>1 DEF May, Same
    <2>2. CASE ~(Busy(x) /\ Key(x) = k)
      BY Zenon, <1>1, <1>2, <2>2 DEF May
    <2> QED
      BY Zenon, <2>1, <2>2
  <1> QED
    BY Zenon, <1>1, <1>2, <1>3 DEF Senders

LEMMA OpenPlace ==
  ASSUME NEW k \in Keys
  PROVE  /\ NoMember \in Senders(k) <=> owner[KeyLog(k)] = NoMember /\ k \notin seen
         /\ NoMember \in Senders(k)' <=> owner'[KeyLog(k)] = NoMember /\ k \notin seen'
  BY Zenon, NotifyAssumption DEF Senders, May, KeyLog

LEMMA SendersShrink ==
  ASSUME RelayInv, NotifyInv, Kept, NEW k \in Keys, k \in seen => k \in seen', UNCHANGED owner,
         NEW m \in Members, \A x \in Members \ {m} : Same(x),
         m \in Senders(k)' => m \in Senders(k)
  PROVE  Senders(k)' \subseteq Senders(k)
  <1>1. \A x \in Members \ {m} : x \in Senders(k)' => x \in Senders(k)
    BY Zenon, SenderStays
  <1>2. NoMember \in Senders(k)' => NoMember \in Senders(k)
    BY Zenon, OpenPlace
  <1>3. Senders(k)' \subseteq Members \cup {NoMember}
    BY Zenon DEF Senders
  <1> QED
    BY Zenon, <1>1, <1>2, <1>3

(* Who sends nothing now may send what is not remembered. *)
LEMMA IdleSender ==
  ASSUME NEW m \in Members, NEW k \in Keys
  PROVE  /\ ~Busy(m) => (m \in Senders(k) <=> /\ k \notin seen
                                              /\ m = owner[KeyLog(k)] \/ KeyLog(k) \in Rest(m))
         /\ ~Busy(m)' => (m \in Senders(k)' <=> /\ k \notin seen'
                                                /\ m = owner'[KeyLog(k)] \/ KeyLog(k) \in Rest(m)')
  BY Zenon DEF Senders, May, KeyLog

(* Steps that neither send nor fail and leave the owners alone. *)
LEMMA BudgetKept ==
  ASSUME NotifyInv, NotifyInv', NEW k \in Keys, Budget(k), Senders(k)' \subseteq Senders(k),
         UNCHANGED <<sent, blemishes>>
  PROVE  Budget(k)'
  BY Zenon, BudgetFrame DEF NotifyInv

LEMMA JoinBudget ==
  ASSUME RelayInv, NotifyInv, NotifyInv', NEW k \in Keys, Budget(k), NEW m \in Members, Join(m) \/ Poll(m)
  PROVE  Budget(k)'
  <1>1. UNCHANGED <<vars, owner, at, pos, seen, sent, blemishes>> /\ ~Busy(m)
    BY Zenon DEF Join, Poll, Busy
  <1>2. ~Busy(m)' /\ \A x \in Members \ {m} : member'[x] = member[x] /\ end'[x] = end[x]
    BY Zenon DEF Join, Poll, Busy, NotifyInv, GroupShape
  <1>3. \A x \in Members \ {m} : Same(x)
    BY Zenon, <1>1, <1>2 DEF Same
  <1>4. \A l \in Rest(m)' : owner[l] = m
    <2>1. CASE Join(m)
      <3>1. Rest(m)' = Rest(m) /\ Rest(m) = {}
        BY Zenon, <2>1 DEF Join, Rest, NotifyInv, Place
      <3> QED
        BY Zenon, <3>1
    <2>2. CASE Poll(m)
      <3>1. \A l \in Logs : owner[l] # m => end'[m][l] = pos[m][l] /\ pos'[m][l] = pos[m][l]
        BY Zenon, <1>1, <2>2, PollEffect
      <3>2. \A l \in Logs : ~(pos[m][l] < pos[m][l])
        <4>1. \A l \in Logs : pos[m][l] \in Nat
          BY Zenon, Places DEF NotifyInv
        <4> QED
          BY <4>1
      <3> QED
        BY Zenon, <3>1, <3>2 DEF Rest
    <2> QED
      BY Zenon, <2>1, <2>2
  <1>5. m \in Senders(k)' => m \in Senders(k)
    BY Zenon, <1>1, <1>2, <1>4, IdleSender
  <1>6. Kept
    BY Zenon, <1>1, KeptSame DEF vars
  <1>7. Senders(k)' \subseteq Senders(k)
    BY Zenon, <1>1, <1>3, <1>5, <1>6, SendersShrink
  <1> QED
    BY Zenon, <1>1, <1>7, BudgetKept

LEMMA HandleBudget ==
  ASSUME RelayInv, NotifyInv, NotifyInv', NEW k \in Keys, Budget(k), NEW m \in Members,
         NEW l \in Logs, Handle(m, l)
  PROVE  Budget(k)'
  <1>1. /\ member[m] = "working" /\ l \in Rest(m) /\ ~Busy(m)
        /\ UNCHANGED <<vars, owner, end, seen, sent, blemishes>>
    BY Zenon DEF Handle, Busy
  <1>2. Kept /\ UNCHANGED <<log, kind, order, end>>
    BY Zenon, <1>1, KeptSame DEF vars
  <1>3. CASE kind[Record(m, l)] \notin Notified \/ DedupeKey(Record(m, l)) \in seen
    <2>1. Advance(m, l) /\ UNCHANGED <<member, at>>
      BY Zenon, <1>3 DEF Handle
    <2>2. kind[Record(m, l)] \in Notified => sent[DedupeKey(Record(m, l))] > 0
      BY Zenon, <1>3 DEF NotifyInv, Telling
    <2>3. Rest(m)' \subseteq Rest(m) /\ ~Busy(m)'
      BY Zenon, <1>1, <1>2, <2>1, <2>2, AdvancePlace DEF Busy
    <2>4. \A x \in Members \ {m} : Same(x)
      BY Zenon, <1>2, <2>1, AdvanceEffect DEF Same
    <2>5. m \in Senders(k)' => m \in Senders(k)
      BY Zenon, <1>1, <2>3, IdleSender
    <2>6. Senders(k)' \subseteq Senders(k)
      BY Zenon, <1>1, <1>2, <2>4, <2>5, SendersShrink
    <2> QED
      BY Zenon, <1>1, <2>6, BudgetKept
  <1>4. CASE ~(kind[Record(m, l)] \notin Notified \/ DedupeKey(Record(m, l)) \in seen)
    <2>1. member' = [member EXCEPT ![m] = "sending"] /\ at' = [at EXCEPT ![m] = l] /\ UNCHANGED pos
      BY Zenon, <1>4 DEF Handle
    <2>2. member'[m] = "sending" /\ at'[m] = l /\ \A x \in Members \ {m} : Same(x)
      <3>1. member \in [Members -> {"down", "polling", "working", "sending", "marking"}]
            /\ at = [x \in Members |-> at[x]]
        BY Zenon DEF NotifyInv, GroupShape
      <3>2. /\ member'[m] = "sending" /\ at'[m] = l
            /\ \A x \in Members \ {m} : member'[x] = member[x] /\ at'[x] = at[x]
        BY Zenon, <2>1, <3>1
      <3> QED
        BY Zenon, <1>1, <2>1, <3>2 DEF Same
    <2>3. Key(m)' = DedupeKey(Record(m, l)) /\ Rest(m)' = Rest(m)
      BY Zenon, <1>2, <2>1, <2>2 DEF Key, DedupeKey, Record, Rest
    <2>4. m \in Senders(k)' => m \in Senders(k)
      <3>1. May(m, k)' => k \notin seen
        BY Zenon, <1>1, <1>4, <2>3 DEF May
      <3>2. m \in Senders(k)' => May(m, k)' /\ (m = owner[KeyLog(k)] \/ KeyLog(k) \in Rest(m))
        BY Zenon, <1>1, <2>3 DEF Senders, KeyLog
      <3> QED
        BY Zenon, <1>1, <3>1, <3>2, IdleSender
    <2>5. Senders(k)' \subseteq Senders(k)
      BY Zenon, <1>1, <1>2, <2>2, <2>4, SendersShrink
    <2> QED
      BY Zenon, <1>1, <2>5, BudgetKept
  <1> QED
    BY Zenon, <1>3, <1>4

LEMMA CommitBudget ==
  ASSUME RelayInv, NotifyInv, NotifyInv', NEW k \in Keys, Budget(k), NEW m \in Members,
         CommitUncommittedOffsets(m)
  PROVE  Budget(k)'
  <1>1. /\ member' = [member EXCEPT ![m] = "polling"] /\ ~Busy(m)
        /\ Forget(m, {l \in Logs : owner[l] # m})
        /\ UNCHANGED <<vars, owner, at, seen, sent, blemishes>>
    BY Zenon DEF CommitUncommittedOffsets, BatchDone, Busy
  <1>2. member'[m] = "polling" /\ \A x \in Members \ {m} : member'[x] = member[x]
    BY Zenon, <1>1 DEF NotifyInv, GroupShape
  <1>3. \A x \in Members \ {m} : Same(x)
    BY Zenon, <1>1, <1>2, ForgetEffect DEF Same
  <1>4. ~Busy(m)' /\ Rest(m)' = {}
    BY Zenon, <1>2 DEF Busy, NotifyInv, Place
  <1>5. m \in Senders(k)' => m \in Senders(k)
    BY Zenon, <1>1, <1>4, IdleSender
  <1>6. Kept
    BY Zenon, <1>1, KeptSame DEF vars
  <1>7. Senders(k)' \subseteq Senders(k)
    BY Zenon, <1>1, <1>3, <1>5, <1>6, SendersShrink
  <1> QED
    BY Zenon, <1>1, <1>7, BudgetKept

(* A message goes out: its sender may not send it again, unless the answer *)
(* was lost.                                                               *)
LEMMA SendBudget ==
  ASSUME RelayInv, NotifyInv, NotifyInv', NEW k \in Keys, Budget(k), NEW m \in Members, Send(m)
  PROVE  Budget(k)'
  <1>1. /\ member[m] = "sending" /\ at[m] \in Rest(m) /\ KeyLog(Key(m)) = at[m]
        /\ UNCHANGED <<vars, owner, offset, at, pos, end, seen>>
    BY Zenon, SendEffect
  <1>2. member'[m] \in {"working", "marking"} /\ \A x \in Members \ {m} : Same(x)
    BY Zenon, <1>1, SendEffect DEF Same
  <1>3. k # Key(m) => sent'[k] = sent[k]
    BY Zenon, SendEffect
  <1>4. \/ sent'[Key(m)] = sent[Key(m)] + 1 /\ member'[m] = "marking" /\ blemishes' = blemishes
        \/ sent'[Key(m)] = sent[Key(m)] /\ member'[m] = "working" /\ blemishes' = blemishes
        \/ sent'[Key(m)] = sent[Key(m)] + 1 /\ member'[m] = "working" /\ blemishes' = blemishes + 1
    BY Zenon, SendEffect
  <1>5. Key(m)' = Key(m) /\ Rest(m)' = Rest(m) /\ Busy(m)
    BY Zenon, <1>1 DEF Key, DedupeKey, Record, Rest, Busy, vars
  <1>6. Kept
    BY Zenon, <1>1, KeptSame DEF vars
  <1>7. CASE k = Key(m)
    <2>1. m \in Senders(k)
      BY Zenon, <1>1, <1>5, <1>7 DEF Senders, May
    <2>2. Senders(k)' \subseteq Senders(k)
      BY Zenon, <1>1, <1>2, <1>6, <2>1, SendersShrink
    <2>3. member'[m] = "marking" => m \notin Senders(k)'
      BY Zenon, <1>5, <1>7 DEF Senders, May, Busy
    <2> QED
      BY Zenon, <1>4, <1>7, <2>1, <2>2, <2>3, BudgetFrame DEF NotifyInv
  <1>8. CASE k # Key(m)
    <2>1. m \in Senders(k)' => m \in Senders(k)
      <3>1. May(m, k)' => k \notin seen
        BY Zenon, <1>1, <1>5, <1>8 DEF May
      <3>2. May(m, k) <=> k \notin seen
        BY Zenon, <1>8 DEF May
      <3> QED
        BY Zenon, <1>1, <1>5, <3>1, <3>2 DEF Senders, KeyLog
    <2>2. Senders(k)' \subseteq Senders(k)
      BY Zenon, <1>1, <1>2, <1>6, <2>1, SendersShrink
    <2> QED
      BY Zenon, <1>3, <1>4, <1>8, <2>2, BudgetFrame DEF NotifyInv
  <1> QED
    BY Zenon, <1>7, <1>8

(* Marking closes the key; a mark that fails lets its sender send again. *)
LEMMA MarkBudget ==
  ASSUME RelayInv, NotifyInv, NotifyInv', NEW k \in Keys, Budget(k), NEW m \in Members, Mark(m)
  PROVE  Budget(k)'
  <1>1. /\ member[m] = "marking" /\ at[m] \in Rest(m) /\ Advance(m, at[m]) /\ member'[m] = "working"
        /\ UNCHANGED <<vars, owner, offset, at, end, sent>>
    BY Zenon, MarkEffect
  <1>2. \/ seen' = seen \cup {Key(m)} /\ blemishes' = blemishes
        \/ seen' = seen /\ blemishes' = blemishes + 1
    BY Zenon, MarkEffect
  <1>3. at[m] \in Logs /\ Kept
    BY Zenon, <1>1, KeptSame DEF vars, Rest
  <1>4. \A x \in Members \ {m} : Same(x)
    BY Zenon, <1>1, <1>3, MarkEffect, AdvanceEffect DEF Same
  <1>5. ~Busy(m)' /\ Busy(m)
    BY Zenon, <1>1 DEF Busy
  <1>6. Rest(m)' \subseteq Rest(m)
    <2>1. PICK l : l = at[m]
      BY Zenon
    <2>2. l \in Rest(m) /\ Advance(m, l) /\ sent[DedupeKey(Record(m, l))] > 0
      BY Zenon, <1>1, <2>1 DEF NotifyInv, Telling, Key
    <2>3. UNCHANGED <<log, end>>
      BY Zenon, <1>1 DEF vars
    <2> QED
      BY Zenon, <1>1, <2>2, <2>3, AdvancePlace
  <1>7. CASE seen' = seen \cup {Key(m)} /\ blemishes' = blemishes
    <2>1. m \in Senders(k)' => m \in Senders(k)
      <3>1. m \in Senders(k)' => k # Key(m) /\ k \notin seen
                                 /\ (m = owner[KeyLog(k)] \/ KeyLog(k) \in Rest(m))
        BY Zenon, <1>1, <1>5, <1>6, <1>7, IdleSender
      <3>2. k # Key(m) /\ k \notin seen => May(m, k)
        BY Zenon DEF May
      <3> QED
        BY Zenon, <3>1, <3>2 DEF Senders
    <2>2. Senders(k)' \subseteq Senders(k)
      BY Zenon, <1>1, <1>3, <1>4, <1>7, <2>1, SendersShrink
    <2> QED
      BY Zenon, <1>1, <1>7, <2>2, BudgetKept
  <1>8. CASE seen' = seen /\ blemishes' = blemishes + 1
    <2>1. \A x \in Members \ {m} : x \in Senders(k)' => x \in Senders(k)
      BY Zenon, <1>1, <1>3, <1>4, <1>8, SenderStays
    <2>2. NoMember \in Senders(k)' => NoMember \in Senders(k)
      BY Zenon, <1>1, <1>8, OpenPlace
    <2>3. Senders(k)' \subseteq Members \cup {NoMember}
      BY Zenon DEF Senders
    <2>4. Senders(k)' \subseteq Senders(k) \cup {m}
      BY Zenon, <2>1, <2>2, <2>3
    <2> QED
      BY Zenon, <1>1, <1>8, <2>4, BudgetFrame DEF NotifyInv
  <1> QED
    BY Zenon, <1>2, <1>7, <1>8

(* The place of a member that gives up a partition is open. *)
LEMMA GiveUpSenders ==
  ASSUME RelayInv, NotifyInv, Kept, NEW k \in Keys, UNCHANGED seen, NEW m \in Members,
         \A x \in Members \ {m} : Same(x), m \in Senders(k)' => m \in Senders(k),
         owner'[KeyLog(k)] # NoMember => owner'[KeyLog(k)] = owner[KeyLog(k)]
  PROVE  /\ Senders(k)' \subseteq Senders(k) \cup {NoMember}
         /\ owner'[KeyLog(k)] = owner[KeyLog(k)] \/ k \in seen => Senders(k)' \subseteq Senders(k)
  <1>1. \A x \in Members : x # NoMember
    BY Zenon, NotifyAssumption
  <1>2. \A x \in Members : x \in Senders(k)' => x \in Senders(k)
    BY Zenon, <1>1, SenderStays
  <1>3. Senders(k)' \subseteq Members \cup {NoMember}
    BY Zenon DEF Senders
  <1>4. owner'[KeyLog(k)] = owner[KeyLog(k)] \/ k \in seen
        => (NoMember \in Senders(k)' => NoMember \in Senders(k))
    BY Zenon, OpenPlace
  <1> QED
    BY Zenon, <1>2, <1>3, <1>4

LEMMA AbandonedOwner ==
  ASSUME NEW m \in Members, owner' = Abandoned(m), NEW l \in Logs
  PROVE  /\ owner[l] = m => owner'[l] = NoMember
         /\ owner[l] # m => owner'[l] = owner[l]
  BY Zenon DEF Abandoned

(* An evicted member goes on beside the next owner. *)
LEMMA EvictBudget ==
  ASSUME RelayInv, NotifyInv, NotifyInv', NEW k \in Keys, Budget(k), NEW m \in Members, Evict(m)
  PROVE  Budget(k)'
  <1>1. blemishes' = blemishes + 1 /\ owner' = Abandoned(m)
        /\ UNCHANGED <<vars, member, at, pos, end, seen, sent>>
    BY Zenon DEF Evict
  <1>2. \A x \in Members : Same(x)
    BY Zenon, <1>1 DEF Same
  <1>3. KeyLog(k) \in Logs /\ m # NoMember
    BY Zenon, KeyLogType, NotifyAssumption
  <1>4. Kept
    BY Zenon, <1>1, KeptSame DEF vars
  <1>5. owner'[KeyLog(k)] # NoMember => owner'[KeyLog(k)] = owner[KeyLog(k)]
    BY Zenon, <1>1, <1>3, AbandonedOwner
  <1>6. m \in Senders(k)' => m \in Senders(k)
    BY Zenon, <1>1, <1>2, <1>3, <1>4, <1>5, SenderStays
  <1>7. Senders(k)' \subseteq Senders(k) \cup {NoMember}
    BY Zenon, <1>1, <1>2, <1>4, <1>5, <1>6, GiveUpSenders
  <1> QED
    BY Zenon, <1>1, <1>7, BudgetFrame DEF NotifyInv

(* A member that stops or is revoked leaves its place to the next owner:   *)
(* it sends no more, and if it sent the message it has marked it.          *)
LEMMA LeaveBudget ==
  ASSUME RelayInv, NotifyInv, NotifyInv', NEW k \in Keys, Budget(k), NEW m \in Members, Leave(m)
  PROVE  Budget(k)'
  <1>1. /\ owner' = Abandoned(m) /\ member' = [member EXCEPT ![m] = "down"] /\ Forget(m, Logs)
        /\ UNCHANGED <<vars, at, seen, sent>>
    BY Zenon DEF Leave
  <1>2. member'[m] = "down" /\ \A x \in Members \ {m} : member'[x] = member[x]
    BY Zenon, <1>1 DEF NotifyInv, GroupShape
  <1>3. \A x \in Members \ {m} : Same(x)
    BY Zenon, <1>1, <1>2, ForgetEffect DEF Same
  <1>4. KeyLog(k) \in Logs /\ m # NoMember /\ Kept
    BY Zenon, <1>1, KeyLogType, NotifyAssumption, KeptSame DEF vars
  <1>5. /\ owner[KeyLog(k)] = m => owner'[KeyLog(k)] = NoMember
        /\ owner[KeyLog(k)] # m => owner'[KeyLog(k)] = owner[KeyLog(k)]
    BY Zenon, <1>1, <1>4, AbandonedOwner
  <1>6. ~Busy(m)' /\ Rest(m)' = {}
    BY Zenon, <1>2 DEF Busy, NotifyInv, Place
  <1>7. m \notin Senders(k)'
    BY Zenon, <1>4, <1>5, <1>6, IdleSender
  <1>8. /\ Senders(k)' \subseteq Senders(k) \cup {NoMember}
        /\ owner'[KeyLog(k)] = owner[KeyLog(k)] \/ k \in seen => Senders(k)' \subseteq Senders(k)
    BY Zenon, <1>1, <1>3, <1>4, <1>5, <1>7, GiveUpSenders
  <1>9. CASE member[m] = "marking"
    <2>1. blemishes' = blemishes + 1
      BY Zenon, <1>9 DEF Leave
    <2> QED
      BY Zenon, <1>1, <1>8, <2>1, BudgetFrame DEF NotifyInv
  <1>10. CASE member[m] # "marking"
    <2>1. blemishes' = blemishes
      BY Zenon, <1>10 DEF Leave
    <2>2. CASE owner[KeyLog(k)] = m /\ k \notin seen
      <3>1. m \in Senders(k)
        BY Zenon, <1>10, <2>2 DEF Senders, May, Busy
      <3> QED
        BY Zenon, <1>1, <1>7, <1>8, <2>1, <3>1, BudgetFrame DEF NotifyInv
    <2>3. CASE ~(owner[KeyLog(k)] = m /\ k \notin seen)
      BY Zenon, <1>1, <1>5, <1>8, <2>1, <2>3, BudgetKept
    <2> QED
      BY Zenon, <2>2, <2>3
  <1> QED
    BY Zenon, <1>9, <1>10

LEMMA RevokeBudget ==
  ASSUME RelayInv, NotifyInv, NotifyInv', NEW k \in Keys, Budget(k), NEW l \in Logs, Revoke(l)
  PROVE  Budget(k)'
  <1>m. PICK m : m = owner[l]
    BY Zenon
  <1>1. /\ m # NoMember /\ member[m] = "polling" /\ Forget(m, {l})
        /\ owner' = [owner EXCEPT ![l] = NoMember]
        /\ UNCHANGED <<vars, member, at, seen, sent, blemishes>>
    BY Zenon, <1>m DEF Revoke
  <1>2. m \in Members /\ \A g \in Logs : owner'[g] = IF g = l THEN NoMember ELSE owner[g]
    BY Zenon, <1>m, <1>1 DEF NotifyInv, GroupShape
  <1>3. \A x \in Members \ {m} : Same(x)
    BY Zenon, <1>1, <1>2, ForgetEffect DEF Same
  <1>4. KeyLog(k) \in Logs /\ Kept
    BY Zenon, <1>1, KeyLogType, KeptSame DEF vars
  <1>5. ~Busy(m) /\ ~Busy(m)' /\ Rest(m)' = {}
    BY Zenon, <1>1, <1>2 DEF Busy, NotifyInv, Place
  <1>6. ASSUME m \in Senders(k)' PROVE m \in Senders(k) /\ KeyLog(k) # l
    <2>1. k \notin seen /\ owner'[KeyLog(k)] = m
      BY Zenon, <1>1, <1>2, <1>5, <1>6, IdleSender
    <2>2. KeyLog(k) # l /\ owner[KeyLog(k)] = m
      BY Zenon, <1>1, <1>2, <1>4, <2>1
    <2> QED
      BY Zenon, <1>2, <1>5, <2>1, <2>2, IdleSender
  <1>7. /\ Senders(k)' \subseteq Senders(k) \cup {NoMember}
        /\ owner'[KeyLog(k)] = owner[KeyLog(k)] \/ k \in seen => Senders(k)' \subseteq Senders(k)
    BY Zenon, <1>1, <1>2, <1>3, <1>4, <1>6, GiveUpSenders
  <1>8. CASE KeyLog(k) = l /\ k \notin seen
    <2>1. m \in Senders(k) /\ m \notin Senders(k)'
      BY Zenon, <1>m, <1>2, <1>5, <1>6, <1>8, IdleSender
    <2> QED
      BY Zenon, <1>1, <1>7, <2>1, BudgetFrame DEF NotifyInv
  <1>9. CASE ~(KeyLog(k) = l /\ k \notin seen)
    BY Zenon, <1>1, <1>2, <1>4, <1>7, <1>9, BudgetKept
  <1> QED
    BY Zenon, <1>8, <1>9

LEMMA AssignBudget ==
  ASSUME RelayInv, NotifyInv, NotifyInv', NEW k \in Keys, Budget(k), NEW m \in Members,
         NEW l \in Logs, Assign(m, l)
  PROVE  Budget(k)'
  <1>1. /\ member[m] = "polling" /\ owner[l] = NoMember /\ owner' = [owner EXCEPT ![l] = m]
        /\ UNCHANGED <<vars, member, at, seen, sent, blemishes>>
    BY Zenon DEF Assign
  <1>2. \A g \in Logs : owner'[g] = IF g = l THEN m ELSE owner[g]
    BY Zenon, <1>1 DEF NotifyInv, GroupShape
  <1>3. \A x \in Members \ {m} : Same(x)
    BY Zenon, <1>1 DEF Assign, Same, NotifyInv, GroupShape
  <1>4. KeyLog(k) \in Logs /\ Kept /\ m # NoMember
    BY Zenon, <1>1, KeyLogType, KeptSame, NotifyAssumption DEF vars
  <1>5. ~Busy(m) /\ ~Busy(m)' /\ Rest(m)' = {}
    BY Zenon, <1>1 DEF Busy, NotifyInv, Place
  <1>6. \A x \in Members \ {m} : x \in Senders(k)' => x \in Senders(k)
    BY Zenon, <1>1, <1>2, <1>3, <1>4, SenderStays
  <1>7. /\ Senders(k)' \subseteq Members \cup {NoMember}
        /\ NoMember \in Senders(k)' => NoMember \in Senders(k) /\ KeyLog(k) # l
    <2>1. Senders(k)' \subseteq Members \cup {NoMember}
      BY Zenon DEF Senders
    <2>2. KeyLog(k) = l => owner'[KeyLog(k)] = m
      BY Zenon, <1>2, <1>4
    <2>3. KeyLog(k) # l => owner'[KeyLog(k)] = owner[KeyLog(k)]
      BY Zenon, <1>2, <1>4
    <2> QED
      BY Zenon, <1>1, <1>4, <2>1, <2>2, <2>3, OpenPlace
  <1>8. CASE KeyLog(k) = l /\ k \notin seen
    <2>1. NoMember \in Senders(k) /\ NoMember \notin Senders(k)'
      BY Zenon, <1>1, <1>7, <1>8, OpenPlace
    <2>2. Senders(k)' \subseteq Senders(k) \cup {m}
      BY Zenon, <1>6, <1>7
    <2> QED
      BY Zenon, <1>1, <2>1, <2>2, BudgetFrame DEF NotifyInv
  <1>9. CASE ~(KeyLog(k) = l /\ k \notin seen)
    <2>1. m \in Senders(k)' => m \in Senders(k)
      BY Zenon, <1>1, <1>2, <1>4, <1>5, <1>9, IdleSender
    <2>2. Senders(k)' \subseteq Senders(k)
      BY Zenon, <1>6, <1>7, <2>1
    <2> QED
      BY Zenon, <1>1, <2>2, BudgetKept
  <1> QED
    BY Zenon, <1>8, <1>9

LEMMA OutboxBudget ==
  ASSUME RelayInv, NotifyInv, NotifyInv', NEW k \in Keys, Budget(k), [RelayNext]_vars, UNCHANGED group
  PROVE  Budget(k)'
  <1>1. UNCHANGED <<owner, member, at, pos, end, seen, sent, blemishes>>
    BY Zenon DEF group
  <1>2. Kept /\ \A x \in Members : Same(x)
    BY Zenon, <1>1, KeptStep DEF Same
  <1>3. \A x \in Members : x \in Senders(k)' => x \in Senders(k)
    BY Zenon, <1>1, <1>2, SenderStays
  <1>4. NoMember \in Senders(k)' => NoMember \in Senders(k)
    BY Zenon, <1>1, OpenPlace
  <1>5. Senders(k)' \subseteq Members \cup {NoMember}
    BY Zenon DEF Senders
  <1>6. Senders(k)' \subseteq Senders(k)
    BY Zenon, <1>3, <1>4, <1>5
  <1> QED
    BY Zenon, <1>1, <1>6, BudgetKept

LEMMA BudgetInit == NotifyInit => BudgetInv
  <1> SUFFICES ASSUME NotifyInit, NEW k \in Keys PROVE Budget(k)
    BY Zenon DEF BudgetInv
  <1>1. KeyLog(k) \in Logs
    BY Zenon, KeyLogType
  <1>2. owner[KeyLog(k)] = NoMember /\ seen = {} /\ sent[k] = 0 /\ blemishes = 0
    BY Zenon, <1>1 DEF NotifyInit
  <1>3. \A m \in Members : Rest(m) = {}
    BY Zenon, NotifyInvInit DEF NotifyInit, NotifyInv, Place
  <1>4. Senders(k) = {NoMember}
    <2>1. NoMember \in Senders(k)
      BY Zenon, <1>2, OpenPlace
    <2>2. \A m \in Members : m \notin Senders(k)
      BY Zenon, <1>2, <1>3, NotifyAssumption DEF Senders
    <2>3. Senders(k) \subseteq Members \cup {NoMember}
      BY Zenon DEF Senders
    <2> QED
      BY Zenon, <2>1, <2>2, <2>3
  <1>5. Cardinality(Senders(k)) = 1
    BY Zenon, <1>4, FS_Singleton
  <1> QED
    BY <1>2, <1>5 DEF Budget

LEMMA BudgetStep ==
  RelayInv /\ NotifyInv /\ NotifyInv' /\ BudgetInv /\ [NotifyNext]_allVars => BudgetInv'
  <1> SUFFICES ASSUME RelayInv, NotifyInv, NotifyInv', BudgetInv, [NotifyNext]_allVars, NEW k \in Keys
               PROVE  Budget(k)'
    BY Zenon DEF BudgetInv, Keys
  <1>0. Budget(k)
    BY Zenon DEF BudgetInv
  <1>1. ASSUME NEW m \in Members, Join(m) \/ Evict(m) \/ Leave(m) \/ Poll(m) \/ Send(m) \/ Mark(m)
        PROVE  Budget(k)'
    BY Zenon, <1>0, <1>1, JoinBudget, EvictBudget, LeaveBudget, SendBudget, MarkBudget
  <1>2. ASSUME NEW m \in Members, CommitUncommittedOffsets(m) \/ \E l \in Logs : Handle(m, l)
        PROVE  Budget(k)'
    BY Zenon, <1>0, <1>2, CommitBudget, HandleBudget
  <1>3. ASSUME NEW l \in Logs, Revoke(l) \/ \E m \in Members : Assign(m, l)
        PROVE  Budget(k)'
    BY Zenon, <1>0, <1>3, RevokeBudget, AssignBudget
  <1>4. ASSUME [RelayNext]_vars /\ UNCHANGED group PROVE Budget(k)'
    BY Zenon, <1>0, <1>4, OutboxBudget
  <1> QED
    BY Zenon, <1>1, <1>2, <1>3, <1>4, NotifySteps

(* A message is sent at most once more than there were failures that may   *)
(* repeat one: a lost answer, a failed Mark, a member that dies between    *)
(* Send and Mark or is evicted in the middle of its batch (Notify in       *)
(* notifier.go).  Failed commits, stopped members and rebalances between   *)
(* batches repeat nothing, with any number of members.                     *)
THEOREM NotifyRepeatsCounted == NotifySpec => []RepeatsCounted
  <1>1. NotifyInv /\ BudgetInv => RepeatsCounted
    <2> SUFFICES ASSUME NotifyInv, BudgetInv, NEW k \in Keys PROVE sent[k] <= 1 + blemishes
      BY Zenon DEF RepeatsCounted
    <2>1. IsFiniteSet(Members \cup {NoMember}) /\ Senders(k) \subseteq Members \cup {NoMember}
      BY Zenon, NotifyAssumption, FS_AddElement DEF Senders
    <2>2. Cardinality(Senders(k)) \in Nat
      BY Zenon, <2>1, FS_Subset, FS_CardinalityType
    <2>3. sent[k] \in Nat /\ blemishes \in Nat
      BY Zenon DEF NotifyInv, GroupShape
    <2>4. sent[k] + Cardinality(Senders(k)) <= 1 + blemishes
      BY Zenon DEF BudgetInv, Budget
    <2> QED
      BY <2>2, <2>3, <2>4
  <1> QED
    BY <1>1, NotifyInvariant, BudgetInit, BudgetStep, PTL DEF NotifySpec
=============================================================================
