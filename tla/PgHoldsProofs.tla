---------------------------- MODULE PgHoldsProofs ----------------------------
(***************************************************************************)
(* Proofs that the PostgreSQL inventory never takes more connections than  *)
(* its pool has (TypeOK) and implements the contract of the seat inventory *)
(* (ImplementsInventory), for any seats, orders, pool size and timeouts.   *)
(*                                                                         *)
(* The invariant says what a transaction of Hold knows after its second    *)
(* statement and may rely on until it commits, because it has the seats    *)
(* rows locked: no seat of the order is sold or held by another.           *)
(***************************************************************************)
EXTENDS PgHolds, TLAPS, FiniteSetTheorems

PgShape ==
  /\ req \in [Orders -> {"idle", "due", "waiting", "locking", "locked", "written", "held", "taken"}]
  /\ lock \in [Seats -> Orders \cup {None}]
  /\ row \in [Seats -> Orders \cup {None}]
  /\ ticket \in [Seats -> Orders \cup {None}]

(* What another order may not have done to the seats of a transaction      *)
(* that has looked at them.                                                *)
Open(s, o) == ticket[s] = None /\ (row[s] \in {None, o} \/ s \in expired)

Checked(o) ==
  req[o] \in {"locked", "written"} => \A s \in SeatsOf[o] : lock[s] = o /\ Open(s, o)

(* A late payment that has its seats sells them. *)
PaidHold(o) ==
  o \in paying /\ req[o] = "held" =>
    \A s \in SeatsOf[o] : row[s] = o /\ s \notin expired /\ ticket[s] = None

(* A hold is for a seat of the order that nobody else has bought. *)
RowsOpen ==
  \A s \in Seats : row[s] # None =>
    s \in SeatsOf[row[s]] /\ (s \notin expired => ticket[s] \in {None, row[s]})

(* An order has all its tickets or none. *)
TicketsWhole ==
  \A s \in Seats : ticket[s] # None =>
    s \in SeatsOf[ticket[s]] /\ \A r \in SeatsOf[ticket[s]] : ticket[r] = ticket[s]

PgInv ==
  /\ PgShape /\ RowsOpen /\ TicketsWhole
  /\ \A o \in Orders : Checked(o) /\ PaidHold(o)

-----------------------------------------------------------------------------
LEMMA PgInvInit == Init => PgInv
  BY Zenon DEF Init, PgInv, PgShape, RowsOpen, TicketsWhole, Checked, PaidHold

LEMMA SeatsOfType == \A o \in Orders : SeatsOf[o] \subseteq Seats /\ SeatsOf[o] # {}
  BY Zenon, PgHoldsAssumption

(* Begin, BeginPayment, BeginHold, UpsertHolds: no table and no lock       *)
(* changes.                                                                *)
LEMMA ControlStep ==
  ASSUME PgInv, NEW o \in Orders, Begin(o) \/ BeginPayment(o) \/ BeginHold(o) \/ UpsertHolds(o)
  PROVE  PgInv' /\ UNCHANGED <<lock, row, expired, ticket>>
  <1>1. UNCHANGED <<lock, row, expired, ticket>>
    BY Zenon DEF Begin, BeginPayment, BeginHold, UpsertHolds
  <1>2. \E step \in {"waiting", "due", "locking", "written"} :
          /\ req' = [req EXCEPT ![o] = step]
          /\ step = "written" => req[o] = "locked"
    BY Zenon DEF Begin, BeginPayment, BeginHold, UpsertHolds, Goto
  <1>3. \A p \in Orders : p # o => req'[p] = req[p] /\ (p \in paying' <=> p \in paying)
    BY Zenon, <1>2 DEF Begin, BeginPayment, BeginHold, UpsertHolds, PgInv, PgShape
  <1>4. /\ req'[o] \in {"waiting", "due", "locking", "written"}
        /\ req'[o] = "written" => req[o] = "locked"
    BY Zenon, <1>2 DEF PgInv, PgShape
  <1>5. PgShape' /\ RowsOpen' /\ TicketsWhole'
    BY Zenon, <1>1, <1>2 DEF PgInv, PgShape, RowsOpen, TicketsWhole
  <1>6. ASSUME NEW p \in Orders PROVE Checked(p)' /\ PaidHold(p)'
    BY Zenon, <1>1, <1>3, <1>4 DEF PgInv, Checked, PaidHold, Open
  <1> QED
    BY Zenon, <1>1, <1>5, <1>6 DEF PgInv

(* LockSeat: only a free row is locked. *)
LEMMA LockSeatStep ==
  ASSUME PgInv, NEW o \in Orders, NEW s \in Seats, LockSeat(o, s)
  PROVE  PgInv' /\ UNCHANGED <<row, expired, ticket>>
  <1>1. lock[s] = None /\ lock' = [lock EXCEPT ![s] = o] /\ UNCHANGED <<req, row, expired, ticket, paying>>
    BY Zenon DEF LockSeat
  <1>2. \A r \in Seats : r # s => lock'[r] = lock[r]
    BY Zenon, <1>1 DEF PgInv, PgShape
  <1>3. PgShape' /\ RowsOpen' /\ TicketsWhole'
    BY Zenon, <1>1 DEF PgInv, PgShape, RowsOpen, TicketsWhole
  <1>4. ASSUME NEW p \in Orders PROVE Checked(p)' /\ PaidHold(p)'
    <2>1. req[p] \in {"locked", "written"} => s \notin SeatsOf[p]
      BY Zenon, <1>1, PgHoldsAssumption DEF PgInv, Checked
    <2> QED
      BY Zenon, <1>1, <1>2, <2>1, SeatsOfType DEF PgInv, Checked, PaidHold, Open
  <1> QED
    BY Zenon, <1>1, <1>3, <1>4 DEF PgInv

(* The locks of one order are freed, and its request moves on. *)
LEMMA UnlockStep ==
  ASSUME PgInv, NEW o \in Orders, NEW step \in {"idle", "taken"}, Goto(o, step), Unlock(o),
         UNCHANGED <<row, expired, ticket>>, paying' \in {paying, paying \ {o}}
  PROVE  PgInv'
  <1>1. /\ req'[o] = step
        /\ \A p \in Orders : p # o => req'[p] = req[p] /\ (p \in paying' <=> p \in paying)
        /\ req' \in [Orders -> {"idle", "due", "waiting", "locking", "locked", "written", "held", "taken"}]
    BY Zenon DEF Goto, PgInv, PgShape
  <1>2. \A s \in Seats : lock[s] # o => lock'[s] = lock[s]
    BY Zenon DEF Unlock
  <1>3. PgShape' /\ RowsOpen' /\ TicketsWhole'
    BY Zenon, <1>1 DEF Unlock, PgInv, PgShape, RowsOpen, TicketsWhole
  <1>4. ASSUME NEW p \in Orders PROVE Checked(p)' /\ PaidHold(p)'
    <2>1. CASE p = o
      BY Zenon, <1>1, <2>1 DEF Checked, PaidHold
    <2>2. CASE p # o
      BY <1>1, <1>2, <2>2, SeatsOfType DEF PgInv, Checked, PaidHold, Open
    <2> QED
      BY Zenon, <2>1, <2>2
  <1> QED
    BY Zenon, <1>3, <1>4 DEF PgInv

LEMMA TakenSeatsStep ==
  ASSUME PgInv, NEW o \in Orders, TakenSeats(o)
  PROVE  PgInv' /\ UNCHANGED <<row, expired, ticket>>
  <1>0. UNCHANGED <<row, expired, ticket, paying>> /\ Unlocked(o) = {}
    BY Zenon DEF TakenSeats, LocksTaken
  <1>1. CASE Goto(o, "taken") /\ Unlock(o)
    BY Zenon, <1>0, <1>1, UnlockStep
  <1>2. CASE ~(Goto(o, "taken") /\ Unlock(o))
    <2>1. PICK still \in SUBSET expired :
            LET taken == {s \in SeatsOf[o] : \/ row[s] \notin {None, o} /\ (s \notin expired \/ s \in still)
                                             \/ ticket[s] # None} IN
            taken = {} /\ Goto(o, "locked") /\ UNCHANGED lock
      BY Zenon, <1>2 DEF TakenSeats
    <2>2. \A s \in SeatsOf[o] : lock[s] = o /\ Open(s, o)
      BY Zenon, <1>0, <2>1 DEF Unlocked, Open
    <2>3. /\ req'[o] = "locked" /\ \A p \in Orders : p # o => req'[p] = req[p]
          /\ req' \in [Orders -> {"idle", "due", "waiting", "locking", "locked", "written", "held", "taken"}]
      BY Zenon, <2>1 DEF Goto, PgInv, PgShape
    <2>4. PgShape' /\ RowsOpen' /\ TicketsWhole'
      BY Zenon, <1>0, <2>1, <2>3 DEF PgInv, PgShape, RowsOpen, TicketsWhole
    <2>5. ASSUME NEW p \in Orders PROVE Checked(p)' /\ PaidHold(p)'
      BY <1>0, <2>1, <2>2, <2>3 DEF PgInv, Checked, PaidHold, Open
    <2> QED
      BY Zenon, <1>0, <2>4, <2>5 DEF PgInv
  <1> QED
    BY Zenon, <1>0, <1>1, <1>2

(* What Commit writes. *)
LEMMA CommitStep ==
  ASSUME PgInv, NEW o \in Orders, Commit(o)
  PROVE  PgInv' /\ \A s \in SeatsOf[o] : Open(s, o)
  <1>1. /\ req[o] = "written" /\ Goto(o, "held") /\ Unlock(o) /\ UNCHANGED <<ticket, paying>>
        /\ row' = [s \in Seats |-> IF s \in SeatsOf[o] THEN o ELSE row[s]]
        /\ expired' = expired \ SeatsOf[o]
    BY Zenon DEF Commit
  <1>2. \A s \in SeatsOf[o] : lock[s] = o /\ Open(s, o)
    BY Zenon, <1>1 DEF PgInv, Checked
  <1>3. /\ req'[o] = "held" /\ \A p \in Orders : p # o => req'[p] = req[p]
        /\ req' \in [Orders -> {"idle", "due", "waiting", "locking", "locked", "written", "held", "taken"}]
    BY Zenon, <1>1 DEF Goto, PgInv, PgShape
  <1>4. PgShape'
    BY Zenon, <1>1, <1>3 DEF Unlock, PgInv, PgShape
  <1>5. RowsOpen' /\ TicketsWhole'
    BY Zenon, <1>1, <1>2, PgHoldsAssumption DEF PgInv, PgShape, RowsOpen, TicketsWhole, Open
  <1>6. Checked(o)' /\ PaidHold(o)'
    BY Zenon, <1>1, <1>2, <1>3, SeatsOfType DEF Checked, PaidHold, Open
  <1>7. ASSUME NEW p \in Orders, p # o PROVE Checked(p)' /\ PaidHold(p)'
    <2>1. Checked(p)'
      <3> SUFFICES ASSUME req[p] \in {"locked", "written"}, NEW s \in SeatsOf[p]
                   PROVE  lock'[s] = p /\ Open(s, p)'
        BY Zenon, <1>3, <1>7 DEF Checked
      <3>1. lock[s] = p /\ Open(s, p) /\ s \in Seats
        BY Zenon, SeatsOfType DEF PgInv, Checked
      <3>2. s \notin SeatsOf[o]
        BY Zenon, <1>2, <1>7, <3>1
      <3> QED
        BY Zenon, <1>1, <1>7, <3>1, <3>2 DEF Unlock, Open
    <2>2. PaidHold(p)'
      <3> SUFFICES ASSUME p \in paying, req[p] = "held", NEW s \in SeatsOf[p]
                   PROVE  row'[s] = p /\ s \notin expired' /\ ticket'[s] = None
        BY Zenon, <1>1, <1>3, <1>7 DEF PaidHold
      <3>1. row[s] = p /\ s \notin expired /\ ticket[s] = None /\ s \in Seats
        BY Zenon, SeatsOfType DEF PgInv, PaidHold
      <3>2. s \notin SeatsOf[o]
        BY Zenon, <1>2, <1>7, <3>1, PgHoldsAssumption DEF Open
      <3> QED
        BY Zenon, <1>1, <3>1, <3>2
    <2> QED
      BY Zenon, <2>1, <2>2
  <1> QED
    BY Zenon, <1>2, <1>4, <1>5, <1>6, <1>7 DEF PgInv

(* The tickets of an order whose seats it holds. *)
LEMMA TicketStep ==
  ASSUME PgInv, NEW o \in Orders, PgShape', UNCHANGED <<lock, row, expired>>,
         \A s \in SeatsOf[o] : row[s] = o /\ s \notin expired /\ ticket[s] \in {None, o},
         \A s \in Seats : ticket'[s] = IF s \in SeatsOf[o] THEN o ELSE ticket[s],
         req'[o] = "idle", \A p \in Orders : p # o => req'[p] = req[p] /\ (p \in paying' <=> p \in paying)
  PROVE  PgInv'
  <1>1. RowsOpen'
    BY Zenon, SeatsOfType DEF PgInv, RowsOpen
  <1>2. TicketsWhole'
    <2> SUFFICES ASSUME NEW s \in Seats, ticket'[s] # None
                 PROVE  s \in SeatsOf[ticket'[s]] /\ \A r \in SeatsOf[ticket'[s]] : ticket'[r] = ticket'[s]
      BY Zenon DEF TicketsWhole
    <2>1. CASE s \in SeatsOf[o]
      BY Zenon, <2>1, SeatsOfType
    <2>2. CASE s \notin SeatsOf[o]
      <3>1. ticket'[s] = ticket[s] /\ ticket[s] \in Orders
        BY Zenon, <2>2 DEF PgInv, PgShape
      <3>2. s \in SeatsOf[ticket[s]] /\ \A r \in SeatsOf[ticket[s]] : ticket[r] = ticket[s]
        BY Zenon, <3>1 DEF PgInv, TicketsWhole
      <3>3. ticket[s] # o
        BY Zenon, <2>2, <3>2
      <3>4. \A r \in SeatsOf[ticket[s]] : r \in Seats /\ r \notin SeatsOf[o]
        BY Zenon, <3>1, <3>2, <3>3, SeatsOfType, PgHoldsAssumption
      <3> QED
        BY Zenon, <3>1, <3>2, <3>4
    <2> QED
      BY Zenon, <2>1, <2>2
  <1>3. Checked(o)' /\ PaidHold(o)'
    BY Zenon DEF Checked, PaidHold
  <1>4. ASSUME NEW p \in Orders, p # o PROVE Checked(p)' /\ PaidHold(p)'
    <2>1. Checked(p)'
      BY <1>4, SeatsOfType, PgHoldsAssumption DEF PgInv, Checked, Open
    <2>2. PaidHold(p)'
      BY <1>4, SeatsOfType DEF PgInv, PaidHold
    <2> QED
      BY Zenon, <2>1, <2>2
  <1> QED
    BY Zenon, <1>1, <1>2, <1>3, <1>4 DEF PgInv

(* What Answer and Pay do to the tickets: nothing, or the tickets of an    *)
(* order whose seats it holds.                                             *)
Sold(o) ==
  /\ UNCHANGED <<lock, row, expired>>
  /\ \A s \in SeatsOf[o] : row[s] = o /\ s \notin expired /\ ticket[s] \in {None, o}
  /\ \A s \in Seats : ticket'[s] = IF s \in SeatsOf[o] THEN o ELSE ticket[s]

LEMMA AnswerStep ==
  ASSUME PgInv, NEW o \in Orders, Answer(o)
  PROVE  PgInv' /\ (UNCHANGED <<row, expired, ticket>> \/ Sold(o))
  <1>1. /\ req[o] \in {"held", "taken"} /\ Goto(o, "idle") /\ paying' = paying \ {o}
        /\ UNCHANGED <<lock, row, expired>>
        /\ ticket' = [s \in Seats |-> IF o \in paying /\ req[o] = "held" /\ s \in SeatsOf[o]
                                      THEN o ELSE ticket[s]]
    BY Zenon DEF Answer
  <1>2. /\ req'[o] = "idle"
        /\ \A p \in Orders : p # o => req'[p] = req[p] /\ (p \in paying' <=> p \in paying)
        /\ PgShape'
    BY Zenon, <1>1 DEF Goto, PgInv, PgShape
  <1>3. CASE o \in paying /\ req[o] = "held"
    <2>1. Sold(o)
      BY Zenon, <1>1, <1>3 DEF Sold, PgInv, PaidHold
    <2> QED
      BY Zenon, <1>2, <2>1, TicketStep DEF Sold
  <1>4. CASE ~(o \in paying /\ req[o] = "held")
    <2>1. UNCHANGED ticket
      BY Zenon, <1>1, <1>4 DEF PgInv, PgShape
    <2>2. RowsOpen' /\ TicketsWhole'
      BY <1>1, <2>1 DEF PgInv, RowsOpen, TicketsWhole
    <2>3. ASSUME NEW p \in Orders PROVE Checked(p)' /\ PaidHold(p)'
      BY <1>1, <1>2, <2>1 DEF PgInv, Checked, PaidHold, Open
    <2> QED
      BY Zenon, <1>1, <1>2, <2>1, <2>2, <2>3 DEF PgInv
  <1> QED
    BY Zenon, <1>3, <1>4

LEMMA PayStep ==
  ASSUME PgInv, NEW o \in Orders, Pay(o)
  PROVE  PgInv' /\ Sold(o)
  <1>1. /\ req[o] = "idle" /\ UNCHANGED <<req, lock, row, expired, paying>>
        /\ ticket' = [s \in Seats |-> IF s \in SeatsOf[o] THEN o ELSE ticket[s]]
        /\ \A s \in SeatsOf[o] : s \in Seats /\ row[s] = o /\ s \notin expired
    BY Zenon DEF Pay, Unexpired, HasRows
  <1>2. \A s \in SeatsOf[o] : ticket[s] \in {None, o}
    BY Zenon, <1>1, PgHoldsAssumption DEF PgInv, RowsOpen
  <1>3. Sold(o)
    BY Zenon, <1>1, <1>2 DEF Sold
  <1>4. PgShape'
    BY Zenon, <1>1 DEF PgInv, PgShape
  <1> QED
    BY Zenon, <1>1, <1>3, <1>4, TicketStep DEF Sold

(* The holds of one order are deleted, or expire. *)
LEMMA RowsEnd ==
  ASSUME PgInv, NEW o \in Orders, Release(o) \/ Confirm(o) \/ HoldLapses(o)
  PROVE  /\ PgInv' /\ UNCHANGED ticket
         /\ \A s \in Seats : row[s] # o => row'[s] = row[s] /\ (s \in expired' <=> s \in expired)
         /\ \A s \in Seats : row[s] = o => row'[s] = None \/ (row'[s] = o /\ s \in expired')
  <1>1. UNCHANGED <<req, lock, ticket, paying>>
    BY Zenon DEF Release, Confirm, HoldLapses
  <1>2. \A s \in Seats : /\ row[s] # o => row'[s] = row[s] /\ (s \in expired' <=> s \in expired)
                         /\ row[s] = o => row'[s] = None \/ (row'[s] = o /\ s \in expired')
    BY Zenon DEF Release, Confirm, HoldLapses, HasRows
  <1>3. PgShape'
    BY Zenon, <1>1 DEF Release, Confirm, HoldLapses, PgInv, PgShape
  <1>4. RowsOpen' /\ TicketsWhole'
    BY <1>1, <1>2 DEF PgInv, RowsOpen, TicketsWhole
  <1>5. ASSUME NEW p \in Orders PROVE Checked(p)'
    <2> SUFFICES ASSUME req[p] \in {"locked", "written"}, NEW s \in SeatsOf[p] PROVE Open(s, p)'
      BY Zenon, <1>1 DEF PgInv, Checked
    <2>1. s \in Seats /\ Open(s, p)
      BY Zenon, SeatsOfType DEF PgInv, Checked
    <2> QED
      BY Zenon, <1>1, <1>2, <2>1 DEF Open
  <1>6. ASSUME NEW p \in Orders, p \in paying, req[p] = "held" PROVE p # o
    <2>1. PICK s \in SeatsOf[p] : ticket[s] = None
      BY <1>6, SeatsOfType DEF PgInv, PaidHold
    <2> QED
      BY Zenon, <1>6, <2>1, PgHoldsAssumption DEF Release, Confirm, HoldLapses
  <1>7. ASSUME NEW p \in Orders PROVE PaidHold(p)'
    BY <1>1, <1>2, <1>6, SeatsOfType DEF PgInv, PaidHold
  <1> QED
    BY Zenon, <1>1, <1>2, <1>3, <1>4, <1>5, <1>7 DEF PgInv

-----------------------------------------------------------------------------
(* What a step means for the contract.                                      *)

Keys == [s \in Seats |-> Status(s)]

LEMMA StatusCases ==
  ASSUME NEW s
  PROVE  /\ ticket[s] # None => Status(s) = SoldTo(ticket[s])
         /\ ticket[s] = None /\ row[s] # None /\ s \notin expired => Status(s) = Held(row[s], 0)
         /\ ticket[s] = None /\ (row[s] = None \/ s \in expired) => Status(s) = Absent
  BY Zenon DEF Status

LEMMA KeysSame ==
  ASSUME \A s \in Seats : Status(s)' = Status(s)
  PROVE  UNCHANGED Keys
  BY Zenon DEF Keys

LEMMA HoldMapped ==
  ASSUME PgInv, NEW o \in Orders, Commit(o), \A s \in SeatsOf[o] : Open(s, o)
  PROVE  I!Hold(o)
  <1>0. o # None /\ SeatsOf[o] \subseteq Seats
    BY Zenon, PgHoldsAssumption
  <1>1. \A s \in SeatsOf[o] : Status(s) = Absent \/ Status(s) = Held(o, 0)
    BY Zenon, StatusCases DEF Open
  <1>2. Taken(Keys, SeatsOf[o], o) = {}
    BY <1>0, <1>1 DEF Keys, Taken, Absent, Held, HeldBy
  <1>3. \A s \in SeatsOf[o] : ticket'[s] = None /\ row'[s] = o /\ s \notin expired'
    BY Zenon, <1>0 DEF Commit, Open
  <1>4. \A s \in SeatsOf[o] : Status(s)' = Held(o, 0)
    BY <1>0, <1>3 DEF Status
  <1>5. \A s \in Seats : s \notin SeatsOf[o] => Status(s)' = Status(s)
    BY Zenon DEF Commit, Status
  <1>6. Keys' = HoldSeats(Keys, SeatsOf[o], o, 0)
    BY Zenon, <1>4, <1>5 DEF Keys, HoldSeats
  <1> QED
    BY Zenon, <1>2, <1>6 DEF I!Hold, Keys, I!Taken, Taken, I!HoldSeats, HoldSeats, I!HeldBy, HeldBy, I!Held, Held

LEMMA FreeMapped ==
  ASSUME PgInv, NEW o \in Orders, Release(o) \/ HoldLapses(o)
  PROVE  I!Free(o)
  <1>0. o # None
    BY Zenon, PgHoldsAssumption
  <1>1. /\ UNCHANGED ticket
        /\ \A s \in Seats : row[s] # o => row'[s] = row[s] /\ (s \in expired' <=> s \in expired)
        /\ \A s \in Seats : row[s] = o => row'[s] = None \/ (row'[s] = o /\ s \in expired')
    BY Zenon, RowsEnd
  <1>2. ASSUME NEW s \in Seats, ticket[s] = None /\ row[s] = o /\ s \notin expired
        PROVE  s \in SeatsOf[o] /\ HeldBy(Status(s), o) /\ Status(s)' = Absent
    <2>1. Status(s) = Held(o, 0)
      BY Zenon, <1>0, <1>2, StatusCases
    <2>2. Status(s)' = Absent
      BY Zenon, <1>1, <1>2 DEF Status
    <2> QED
      BY <1>0, <1>2, <2>1, <2>2 DEF PgInv, RowsOpen, HeldBy, Held
  <1>3. ASSUME NEW s \in Seats, ~(ticket[s] = None /\ row[s] = o /\ s \notin expired)
        PROVE  ~HeldBy(Status(s), o) /\ Status(s)' = Status(s)
    <2>1. CASE ticket[s] # None
      BY Zenon, <1>1, <2>1 DEF Status, HeldBy, SoldTo
    <2>2. CASE ticket[s] = None /\ row[s] # o
      BY Zenon, <1>1, <2>2 DEF Status, HeldBy, Held, Absent
    <2>3. CASE ticket[s] = None /\ row[s] = o /\ s \in expired
      <3>1. Status(s) = Absent
        BY Zenon, <2>3, StatusCases
      <3>2. Status(s)' = Absent
        BY Zenon, <1>1, <2>3 DEF Status
      <3> QED
        BY <3>1, <3>2 DEF HeldBy, Absent
    <2> QED
      BY Zenon, <1>3, <2>1, <2>2, <2>3
  <1>4. Keys' = ReleaseSeats(Keys, SeatsOf[o], o)
    BY Zenon, <1>2, <1>3 DEF Keys, ReleaseSeats
  <1> QED
    BY Zenon, <1>4 DEF I!Free, Keys, I!ReleaseSeats, ReleaseSeats, I!HeldBy, HeldBy, I!Absent, Absent

(* Confirm drops holds nobody sees any more: the seats are sold. *)
LEMMA ConfirmMapped ==
  ASSUME PgInv, NEW o \in Orders, Confirm(o)
  PROVE  UNCHANGED Keys
  <1>1. /\ UNCHANGED ticket
        /\ \A s \in Seats : row[s] # o => row'[s] = row[s] /\ (s \in expired' <=> s \in expired)
    BY Zenon, RowsEnd
  <1>2. \A s \in Seats : row[s] = o => ticket[s] = o
    BY Zenon, PgHoldsAssumption DEF Confirm, PgInv, RowsOpen
  <1>3. \A s \in Seats : Status(s)' = Status(s)
    BY Zenon, <1>1, <1>2, PgHoldsAssumption DEF Status
  <1> QED
    BY Zenon, <1>3, KeysSame

LEMMA SellMapped ==
  ASSUME PgInv, NEW o \in Orders, Sold(o)
  PROVE  I!Sell(o) \/ UNCHANGED Keys
  <1>0. o # None /\ SeatsOf[o] \subseteq Seats
    BY Zenon, PgHoldsAssumption
  <1>1. \A s \in Seats : s \notin SeatsOf[o] => Status(s)' = Status(s)
    BY Zenon DEF Sold, Status
  <1>2. \A s \in SeatsOf[o] : Status(s)' = SoldTo(o)
    BY Zenon, <1>0 DEF Sold, Status
  <1>3. CASE \E s \in SeatsOf[o] : ticket[s] = o
    <2>1. \A s \in SeatsOf[o] : ticket[s] = o
      BY Zenon, <1>0, <1>3 DEF PgInv, TicketsWhole
    <2>2. \A s \in SeatsOf[o] : Status(s) = SoldTo(o)
      BY Zenon, <1>0, <2>1, StatusCases
    <2> QED
      BY Zenon, <1>1, <1>2, <2>2, KeysSame
  <1>4. CASE \A s \in SeatsOf[o] : ticket[s] = None
    <2>1. \A s \in SeatsOf[o] : Keys[s] = Held(o, 0)
      BY Zenon, <1>0, <1>4, StatusCases DEF Sold, Keys
    <2>2. \A s \in SeatsOf[o] : HeldBy(Keys[s], o) /\ Confirmable(Keys[s], o)
      BY <2>1 DEF HeldBy, Held, Confirmable
    <2>3. Keys' = ConfirmSeats(Keys, SeatsOf[o], o)
      BY Zenon, <1>0, <1>1, <1>2, <2>2 DEF Keys, ConfirmSeats
    <2> QED
      BY Zenon, <2>2, <2>3 DEF I!Sell, I!HeldAll, I!HeldBy, HeldBy, I!ConfirmSeats, ConfirmSeats, Keys,
                        I!Confirmable, Confirmable, I!SoldBy, SoldBy, I!SoldTo, SoldTo
  <1> QED
    BY Zenon, <1>3, <1>4 DEF Sold

LEMMA PgStep == PgInv /\ [Next]_vars => PgInv' /\ [I!Next]_Keys
  <1> SUFFICES ASSUME PgInv, [Next]_vars PROVE PgInv' /\ (I!Next \/ UNCHANGED Keys)
    OBVIOUS
  <1>0. ASSUME UNCHANGED <<row, expired, ticket>> PROVE UNCHANGED Keys
    BY Zenon, <1>0, KeysSame DEF Status
  <1>1. ASSUME NEW o \in Orders, Begin(o) \/ BeginPayment(o) \/ BeginHold(o) \/ UpsertHolds(o)
        PROVE  PgInv' /\ UNCHANGED Keys
    BY Zenon, <1>0, <1>1, ControlStep
  <1>2. ASSUME NEW o \in Orders, NEW s \in Seats, LockSeat(o, s) PROVE PgInv' /\ UNCHANGED Keys
    BY Zenon, <1>0, <1>2, LockSeatStep
  <1>3. ASSUME NEW o \in Orders, TakenSeats(o) PROVE PgInv' /\ UNCHANGED Keys
    BY Zenon, <1>0, <1>3, TakenSeatsStep
  <1>4. ASSUME NEW o \in Orders, Cancel(o) PROVE PgInv' /\ UNCHANGED Keys
    BY Zenon, <1>0, <1>4, UnlockStep DEF Cancel
  <1>5. ASSUME NEW o \in Orders, Commit(o) PROVE PgInv' /\ I!Next
    BY Zenon, <1>5, CommitStep, HoldMapped DEF I!Next
  <1>6. ASSUME NEW o \in Orders, Answer(o) \/ Pay(o) PROVE PgInv' /\ (I!Next \/ UNCHANGED Keys)
    BY Zenon, <1>0, <1>6, AnswerStep, PayStep, SellMapped DEF I!Next
  <1>7. ASSUME NEW o \in Orders, Release(o) \/ HoldLapses(o) PROVE PgInv' /\ I!Next
    BY Zenon, <1>7, RowsEnd, FreeMapped DEF I!Next
  <1>8. ASSUME NEW o \in Orders, Confirm(o) PROVE PgInv' /\ UNCHANGED Keys
    BY Zenon, <1>8, RowsEnd, ConfirmMapped
  <1>9. CASE UNCHANGED vars
    <2>1. PgInv'
      BY <1>9 DEF vars, PgInv, PgShape, RowsOpen, TicketsWhole, Checked, PaidHold, Open
    <2> QED
      BY Zenon, <1>0, <1>9, <2>1 DEF vars
  <1>10. ASSUME NEW o \in Orders, SecondBegins(o) \/ SecondEnds(o) PROVE PgInv' /\ UNCHANGED Keys
    <2>1. UNCHANGED <<req, lock, row, expired, ticket, paying>>
      BY Zenon, <1>10 DEF SecondBegins, SecondEnds
    <2>2. PgInv'
      BY <2>1 DEF PgInv, PgShape, RowsOpen, TicketsWhole, Checked, PaidHold, Open
    <2> QED
      BY Zenon, <1>0, <2>1, <2>2
  <1> QED
    BY Zenon, <1>1, <1>2, <1>3, <1>4, <1>5, <1>6, <1>7, <1>8, <1>9, <1>10 DEF Next, Call

(* Hold, Release and Confirm of internal/inventory/pg.go, with tickets,    *)
(* timeouts and late payments around them, do to the seats what the        *)
(* Inventory interface promises: a hold takes all its seats or none, and   *)
(* never a seat that another order holds or has bought.                    *)
THEOREM PgImplementsInventory == Spec => ImplementsInventory
  <1>1. Init => I!Init
    BY Zenon DEF Init, I!Init, Status, I!Absent, Absent
  <1> QED
    BY <1>1, PgInvInit, PgStep, PTL DEF Spec, ImplementsInventory, I!Spec, Keys

-----------------------------------------------------------------------------
(* Types, locks and the connection pool.                                   *)

Inside == {o \in Orders : req[o] \in InTx}

(* Every transaction has its connection, and there are enough. *)
Pool ==
  /\ IsFiniteSet(Inside) /\ IsFiniteSet(paying) /\ IsFiniteSet(queued)
  /\ InUse <= PoolSize

Counts == paying \subseteq Orders /\ queued \subseteq Orders /\ tries \in [Orders -> 0..MaxTries]

RowsExpire == expired \subseteq Seats /\ \A s \in expired : row[s] # None

(* Only a transaction of Hold has locks, and of its own seats. *)
LocksInside == \A s \in Seats : lock[s] # None => req[lock[s]] \in InTx /\ s \in SeatsOf[lock[s]]

PgTypes == PgShape /\ Pool /\ Counts /\ RowsExpire /\ LocksInside

LEMMA PoolNumbers ==
  ASSUME Pool
  PROVE  /\ Cardinality(Inside) \in Nat /\ Cardinality(paying) \in Nat /\ Cardinality(queued) \in Nat
         /\ InUse = Cardinality(Inside) + Cardinality(paying) + Cardinality(queued)
  BY Zenon, FS_CardinalityType DEF Pool, InUse, Inside

(* A set that gains nothing, or one element, or loses one. *)
LEMMA SetCounts ==
  ASSUME NEW S, NEW T, NEW o, IsFiniteSet(S), T \subseteq S \cup {o}
  PROVE  /\ IsFiniteSet(T) /\ Cardinality(S) \in Nat /\ Cardinality(T) \in Nat
         /\ Cardinality(T) <= Cardinality(S) + 1
         /\ T \subseteq S => Cardinality(T) <= Cardinality(S)
         /\ o \in S /\ T = S \ {o} => Cardinality(T) = Cardinality(S) - 1
  <1>1. /\ IsFiniteSet(S \cup {o})
        /\ Cardinality(S \cup {o}) = IF o \in S THEN Cardinality(S) ELSE Cardinality(S) + 1
    BY Zenon, FS_AddElement
  <1>2. IsFiniteSet(T) /\ Cardinality(T) <= Cardinality(S \cup {o})
    BY Zenon, <1>1, FS_Subset
  <1>3. Cardinality(S) \in Nat /\ Cardinality(T) \in Nat
    BY Zenon, <1>2, FS_CardinalityType
  <1>4. Cardinality(T) <= Cardinality(S) + 1
    BY <1>1, <1>2, <1>3
  <1>5. T \subseteq S => Cardinality(T) <= Cardinality(S)
    BY Zenon, FS_Subset
  <1>6. o \in S /\ T = S \ {o} => Cardinality(T) = Cardinality(S) - 1
    BY Zenon, FS_RemoveElement
  <1> QED
    BY Zenon, <1>2, <1>3, <1>4, <1>5, <1>6

(* Nobody begins a transaction, or one does and finds a connection, or the *)
(* one that waited for the order goes on as its payment.                   *)
LEMMA PoolHolds ==
  ASSUME Pool, NEW o,
         Inside' \subseteq Inside \cup {o}, paying' \subseteq paying \cup {o}, queued' \subseteq queued \cup {o},
         \/ Inside' \subseteq Inside /\ paying' \subseteq paying /\ queued' \subseteq queued
         \/ InUse < PoolSize /\ Inside' \subseteq Inside /\ paying' \subseteq paying
         \/ InUse < PoolSize /\ Inside' \subseteq Inside /\ queued' \subseteq queued
         \/ InUse < PoolSize /\ paying' \subseteq paying /\ queued' \subseteq queued
         \/ Inside' \subseteq Inside /\ o \in queued /\ queued' = queued \ {o}
  PROVE  Pool'
  <1>0. IsFiniteSet(Inside) /\ IsFiniteSet(paying) /\ IsFiniteSet(queued) /\ InUse <= PoolSize
    BY Zenon DEF Pool
  <1>1. /\ IsFiniteSet(Inside') /\ Cardinality(Inside') \in Nat
        /\ Cardinality(Inside') <= Cardinality(Inside) + 1
        /\ Inside' \subseteq Inside => Cardinality(Inside') <= Cardinality(Inside)
    BY Zenon, <1>0, SetCounts
  <1>2. /\ IsFiniteSet(paying') /\ Cardinality(paying') \in Nat
        /\ Cardinality(paying') <= Cardinality(paying) + 1
        /\ paying' \subseteq paying => Cardinality(paying') <= Cardinality(paying)
    BY Zenon, <1>0, SetCounts
  <1>3. /\ IsFiniteSet(queued') /\ Cardinality(queued') \in Nat
        /\ Cardinality(queued') <= Cardinality(queued) + 1
        /\ queued' \subseteq queued => Cardinality(queued') <= Cardinality(queued)
        /\ o \in queued /\ queued' = queued \ {o} => Cardinality(queued') = Cardinality(queued) - 1
    BY Zenon, <1>0, SetCounts
  <1>4. InUse' = Cardinality(Inside') + Cardinality(paying') + Cardinality(queued')
    BY Zenon DEF InUse, Inside
  <1>5. InUse' <= PoolSize
    BY <1>0, <1>1, <1>2, <1>3, <1>4, PoolNumbers, PgHoldsAssumption
  <1> QED
    BY Zenon, <1>1, <1>2, <1>3, <1>5 DEF Pool

LEMMA PgTypesInit == Init => PgTypes
  <1> SUFFICES ASSUME Init PROVE PgTypes
    OBVIOUS
  <1>1. Inside = {} /\ paying = {} /\ queued = {}
    BY Zenon DEF Init, Inside, InTx
  <1>2. Pool
    BY <1>1, FS_EmptySet, PgHoldsAssumption DEF Pool, InUse, Inside
  <1>3. Counts
    BY PgHoldsAssumption DEF Init, Counts
  <1>4. PgShape /\ RowsExpire /\ LocksInside
    BY Zenon DEF Init, PgShape, RowsExpire, LocksInside
  <1> QED
    BY Zenon, <1>2, <1>3, <1>4 DEF PgTypes

LEMMA GotoInside ==
  ASSUME PgShape, NEW o \in Orders, NEW step, Goto(o, step)
  PROVE  /\ req'[o] = step /\ \A p \in Orders \ {o} : req'[p] = req[p]
         /\ Inside' \subseteq Inside \cup {o}
         /\ step \notin InTx \/ req[o] \in InTx => Inside' \subseteq Inside
  <1>1. req'[o] = step /\ \A p \in Orders \ {o} : req'[p] = req[p]
    BY Zenon DEF PgShape, Goto
  <1>2. InTx' = InTx
    BY Zenon DEF InTx
  <1> QED
    BY Zenon, <1>1, <1>2 DEF Inside

(* A request moves on and keeps its locks inside its transaction, or gives *)
(* them back.                                                              *)
LEMMA LocksMove ==
  ASSUME PgShape, LocksInside, NEW o \in Orders, NEW step, Goto(o, step),
         Unlock(o) \/ (lock' = lock /\ (req[o] \notin InTx \/ step \in InTx))
  PROVE  LocksInside'
  <1>1. req'[o] = step /\ \A p \in Orders \ {o} : req'[p] = req[p]
    BY Zenon, GotoInside
  <1>2. InTx' = InTx
    BY Zenon DEF InTx
  <1> SUFFICES ASSUME NEW s \in Seats, lock'[s] # None PROVE req'[lock'[s]] \in InTx /\ s \in SeatsOf[lock'[s]]
    BY Zenon, <1>2 DEF LocksInside
  <1>3. lock'[s] = lock[s] /\ (lock[s] = o => step \in InTx)
    <2>1. CASE Unlock(o)
      BY Zenon, <2>1 DEF Unlock
    <2>2. CASE lock' = lock /\ (req[o] \notin InTx \/ step \in InTx)
      BY Zenon, <2>2 DEF LocksInside
    <2> QED
      BY Zenon, <2>1, <2>2
  <1>4. lock[s] \in Orders /\ req[lock[s]] \in InTx /\ s \in SeatsOf[lock[s]]
    BY Zenon, <1>3 DEF LocksInside, PgShape
  <1> QED
    BY Zenon, <1>1, <1>3, <1>4

LEMMA BeginsTypes ==
  ASSUME PgTypes, NEW o \in Orders, Begin(o) \/ BeginPayment(o) \/ BeginHold(o)
  PROVE  Pool' /\ Counts' /\ RowsExpire' /\ LocksInside'
  <1>0. PgShape /\ Pool /\ Counts /\ RowsExpire /\ LocksInside
    BY Zenon DEF PgTypes
  <1>1. UNCHANGED <<lock, row, expired, ticket>>
    BY Zenon DEF Begin, BeginPayment, BeginHold
  <1>2. RowsExpire'
    BY Zenon, <1>0, <1>1 DEF RowsExpire
  <1>3. CASE Begin(o)
    <2>1. PICK step \in {"waiting", "due"} : Goto(o, step)
      BY Zenon, <1>3 DEF Begin
    <2>2. step \notin InTx /\ req[o] \notin InTx
      BY Zenon, <1>3 DEF InTx, Begin
    <2>3. Pool'
      BY Zenon, <1>0, <1>3, <2>1, <2>2, GotoInside, PoolHolds DEF Begin
    <2>4. LocksInside'
      BY Zenon, <1>0, <1>1, <2>1, <2>2, LocksMove
    <2>5. Counts'
      BY <1>0, <1>3, PgHoldsAssumption DEF Counts, Begin
    <2> QED
      BY Zenon, <1>2, <2>3, <2>4, <2>5
  <1>4. CASE BeginPayment(o)
    <2>1. /\ Goto(o, "waiting") /\ (InUse < PoolSize \/ o \in queued)
          /\ paying' = paying \cup {o} /\ queued' = queued \ {o} /\ tries' = tries
      BY Zenon, <1>4 DEF BeginPayment
    <2>2. "waiting" \notin InTx /\ req[o] \notin InTx
      BY Zenon, <1>4 DEF InTx, BeginPayment
    <2>3. Inside' \subseteq Inside
      BY Zenon, <1>0, <2>1, <2>2, GotoInside
    <2>4. Pool'
      BY Zenon, <1>0, <2>1, <2>3, PoolHolds
    <2>5. LocksInside'
      BY Zenon, <1>0, <1>1, <2>1, <2>2, LocksMove
    <2>6. Counts'
      BY Zenon, <1>0, <2>1 DEF Counts
    <2> QED
      BY Zenon, <1>2, <2>4, <2>5, <2>6
  <1>5. CASE BeginHold(o)
    <2>1. Goto(o, "locking") /\ InUse < PoolSize /\ UNCHANGED <<paying, queued, tries>>
      BY Zenon, <1>5 DEF BeginHold
    <2>2. req[o] \notin InTx
      BY Zenon, <1>5 DEF InTx, BeginHold
    <2>3. Inside' \subseteq Inside \cup {o}
      BY Zenon, <1>0, <2>1, GotoInside
    <2>4. Pool'
      BY Zenon, <1>0, <2>1, <2>3, PoolHolds
    <2>5. LocksInside'
      BY Zenon, <1>0, <1>1, <2>1, <2>2, LocksMove
    <2>6. Counts'
      BY Zenon, <1>0, <2>1 DEF Counts
    <2> QED
      BY Zenon, <1>2, <2>4, <2>5, <2>6
  <1> QED
    BY Zenon, <1>3, <1>4, <1>5

(* The steps that end or continue a request, and begin no transaction. *)
LEMMA GoesOnTypes ==
  ASSUME PgTypes, NEW o \in Orders, TakenSeats(o) \/ UpsertHolds(o) \/ Commit(o) \/ Answer(o) \/ Cancel(o)
  PROVE  Pool' /\ Counts' /\ RowsExpire' /\ LocksInside'
  <1>0. PgShape /\ Pool /\ Counts /\ RowsExpire /\ LocksInside
    BY Zenon DEF PgTypes
  <1>1. PICK step : /\ Goto(o, step) /\ (step \notin InTx \/ req[o] \in InTx)
                    /\ Unlock(o) \/ (lock' = lock /\ (req[o] \notin InTx \/ step \in InTx))
    <2>1. CASE TakenSeats(o)
      <3>1. req[o] \in InTx
        BY Zenon, <2>1 DEF TakenSeats, LocksTaken, InTx
      <3>2. (Goto(o, "taken") /\ Unlock(o)) \/ (Goto(o, "locked") /\ lock' = lock)
        BY Zenon, <2>1 DEF TakenSeats
      <3>3. "locked" \in InTx
        BY Zenon DEF InTx
      <3> QED
        BY Zenon, <3>1, <3>2, <3>3
    <2>2. CASE UpsertHolds(o)
      <3>1. req[o] \in InTx /\ "written" \in InTx
        BY Zenon, <2>2 DEF UpsertHolds, InTx
      <3> QED
        BY Zenon, <2>2, <3>1 DEF UpsertHolds
    <2>3. CASE Commit(o)
      <3>1. req[o] \in InTx
        BY Zenon, <2>3 DEF Commit, InTx
      <3> QED
        BY Zenon, <2>3, <3>1 DEF Commit
    <2>4. CASE Answer(o)
      <3>1. req[o] \notin InTx /\ "idle" \notin InTx
        BY Zenon, <2>4 DEF Answer, InTx
      <3> QED
        BY Zenon, <2>4, <3>1 DEF Answer
    <2>5. CASE Cancel(o)
      <3>1. "idle" \notin InTx
        BY Zenon DEF InTx
      <3> QED
        BY Zenon, <2>5, <3>1 DEF Cancel
    <2> QED
      BY Zenon, <2>1, <2>2, <2>3, <2>4, <2>5
  <1>2. UNCHANGED <<queued, tries>> /\ paying' \subseteq paying
    BY Zenon DEF TakenSeats, UpsertHolds, Commit, Answer, Cancel
  <1>3. Pool'
    BY Zenon, <1>0, <1>1, <1>2, GotoInside, PoolHolds
  <1>4. LocksInside'
    BY Zenon, <1>0, <1>1, LocksMove
  <1>5. Counts'
    BY Zenon, <1>0, <1>2 DEF Counts
  <1>6. RowsExpire'
    <2>1. CASE Commit(o)
      BY Zenon, <1>0, <2>1, PgHoldsAssumption DEF RowsExpire, Commit
    <2>2. CASE UNCHANGED <<row, expired>>
      BY Zenon, <1>0, <2>2 DEF RowsExpire
    <2> QED
      BY Zenon, <2>1, <2>2 DEF TakenSeats, UpsertHolds, Answer, Cancel
  <1> QED
    BY Zenon, <1>3, <1>4, <1>5, <1>6

LEMMA LockTypes ==
  ASSUME PgTypes, NEW o \in Orders, NEW s \in Seats, LockSeat(o, s)
  PROVE  Pool' /\ Counts' /\ RowsExpire' /\ LocksInside'
  <1>0. PgShape /\ Pool /\ Counts /\ RowsExpire /\ LocksInside
    BY Zenon DEF PgTypes
  <1>1. UNCHANGED <<req, row, expired, ticket, paying, queued, tries>> /\ lock' = [lock EXCEPT ![s] = o]
    BY Zenon DEF LockSeat
  <1>2. req[o] \in InTx /\ s \in SeatsOf[o]
    BY Zenon DEF LockSeat, NextSeat, Unlocked, InTx
  <1>3. lock'[s] = o /\ \A r \in Seats \ {s} : lock'[r] = lock[r]
    BY Zenon, <1>0, <1>1 DEF PgShape
  <1>4. InTx' = InTx
    BY Zenon DEF InTx
  <1>5. LocksInside'
    BY Zenon, <1>0, <1>1, <1>2, <1>3, <1>4 DEF LocksInside
  <1>6. Inside' \subseteq Inside
    BY Zenon, <1>1, <1>4 DEF Inside
  <1>7. Pool'
    BY Zenon, <1>0, <1>1, <1>6, PoolHolds
  <1>8. Counts' /\ RowsExpire'
    BY Zenon, <1>0, <1>1 DEF Counts, RowsExpire
  <1> QED
    BY Zenon, <1>5, <1>7, <1>8

(* A second request for the order begins or ends its transaction. *)
LEMMA SecondTypes ==
  ASSUME PgTypes, NEW o \in Orders, SecondBegins(o) \/ SecondEnds(o)
  PROVE  Pool' /\ Counts' /\ RowsExpire' /\ LocksInside'
  <1>0. PgShape /\ Pool /\ Counts /\ RowsExpire /\ LocksInside
    BY Zenon DEF PgTypes
  <1>1. UNCHANGED <<req, lock, row, expired, paying, tries>>
    BY Zenon DEF SecondBegins, SecondEnds
  <1>2. InTx' = InTx
    BY Zenon DEF InTx
  <1>3. Inside' = Inside
    BY Zenon, <1>1, <1>2 DEF Inside
  <1>4. queued' \subseteq queued \/ (InUse < PoolSize /\ queued' \subseteq queued \cup {o})
    BY Zenon DEF SecondBegins, SecondEnds
  <1>5. Pool'
    BY Zenon, <1>0, <1>1, <1>3, <1>4, PoolHolds
  <1>6. Counts' /\ RowsExpire' /\ LocksInside'
    BY Zenon, <1>0, <1>1, <1>2, <1>4 DEF Counts, RowsExpire, LocksInside
  <1> QED
    BY Zenon, <1>5, <1>6

LEMMA TablesTypes ==
  ASSUME PgTypes, NEW o \in Orders,
         Release(o) \/ Pay(o) \/ Confirm(o) \/ HoldLapses(o)
  PROVE  Pool' /\ Counts' /\ RowsExpire' /\ LocksInside'
  <1>0. PgShape /\ Pool /\ Counts /\ RowsExpire /\ LocksInside
    BY Zenon DEF PgTypes
  <1>1. UNCHANGED <<req, lock, paying, queued, tries>>
    BY Zenon DEF Release, Pay, Confirm, HoldLapses
  <1>2. InTx' = InTx
    BY Zenon DEF InTx
  <1>3. Inside' \subseteq Inside
    BY Zenon, <1>1, <1>2 DEF Inside
  <1>4. Pool'
    BY Zenon, <1>0, <1>1, <1>3, PoolHolds
  <1>5. Counts' /\ LocksInside'
    BY Zenon, <1>0, <1>1, <1>2 DEF Counts, LocksInside
  <1>6. RowsExpire'
    <2>1. CASE Release(o) \/ Confirm(o)
      BY Zenon, <1>0, <2>1 DEF RowsExpire, Release, Confirm, HasRows
    <2>2. CASE HoldLapses(o)
      BY Zenon, <1>0, <2>2, PgHoldsAssumption DEF RowsExpire, HoldLapses, HasRows
    <2>3. CASE UNCHANGED <<row, expired>>
      BY Zenon, <1>0, <2>3 DEF RowsExpire
    <2> QED
      BY Zenon, <2>1, <2>2, <2>3 DEF Pay
  <1> QED
    BY Zenon, <1>4, <1>5, <1>6

(* Requests, locks and tables have their types, only a transaction of Hold *)
(* has locks, and however requests, late payments and cancellations        *)
(* interleave the pool is never overdrawn (pg.go, DB_MAX_CONNS).           *)
THEOREM PgTypeCorrect == Spec => []TypeOK
  <1>1. Init => PgInv /\ PgTypes
    BY Zenon, PgInvInit, PgTypesInit
  <1>2. PgInv /\ PgTypes /\ [Next]_vars => (PgInv /\ PgTypes)'
    <2> SUFFICES ASSUME PgInv, PgTypes, [Next]_vars PROVE PgInv' /\ PgTypes'
      BY Zenon
    <2>1. PgInv' /\ PgShape'
      BY Zenon, PgStep DEF PgInv
    <2>2. ASSUME Next PROVE Pool' /\ Counts' /\ RowsExpire' /\ LocksInside'
      BY Zenon, <2>2, BeginsTypes, GoesOnTypes, LockTypes, TablesTypes, SecondTypes DEF Next, Call
    <2>3. ASSUME UNCHANGED vars PROVE PgTypes'
      <3>1. UNCHANGED <<req, lock, row, expired, paying, queued, tries>>
        BY Zenon, <2>3 DEF vars
      <3>2. Pool'
        BY Zenon, <3>1 DEF PgTypes, Pool, Inside, InUse, InTx
      <3>3. Counts' /\ RowsExpire' /\ LocksInside'
        BY Zenon, <3>1 DEF PgTypes, Counts, RowsExpire, LocksInside, InTx
      <3> QED
        BY Zenon, <2>1, <3>2, <3>3 DEF PgTypes
    <2> QED
      BY Zenon, <2>1, <2>2, <2>3 DEF PgTypes
  <1>3. PgTypes => TypeOK
    BY Zenon DEF PgTypes, PgShape, Pool, Counts, RowsExpire, LocksInside, TypeOK
  <1> QED
    BY <1>1, <1>2, <1>3, PTL DEF Spec
=============================================================================
