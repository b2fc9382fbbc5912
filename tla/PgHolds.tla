------------------------------- MODULE PgHolds -------------------------------
(***************************************************************************)
(* The PostgreSQL inventory (internal/inventory/pg.go): Hold locks the     *)
(* seat rows one after the other, looks for holds and tickets in a second  *)
(* statement, writes the holds and commits.  A late payment calls Hold     *)
(* while its own transaction keeps a connection of the same pool.          *)
(*                                                                         *)
(* Every order makes one such request at a time; its seats are locked in   *)
(* seat_id order.  A hold row is unexpired or expired: the time to live    *)
(* is the same for all seats of a call, so they expire together.           *)
(***************************************************************************)
EXTENDS SeatKeys, FiniteSets

CONSTANTS
  Seats,      \* natural numbers, in seat_id order
  Orders,
  SeatsOf,    \* the seats of each order
  Late,       \* the orders that may be paid late
  Again,      \* those of them a second request may come for meanwhile
  PoolSize,   \* DB_MAX_CONNS
  MaxTries    \* bound: requests of an order

ASSUME PgHoldsAssumption ==
  /\ Seats \subseteq Nat
  /\ SeatsOf \in [Orders -> (SUBSET Seats) \ {{}}]
  /\ Late \subseteq Orders /\ Again \subseteq Late /\ None \notin Orders
  /\ PoolSize \in Nat \ {0} /\ MaxTries \in Nat

VARIABLES
  req,      \* where each order's request is
  lock,     \* the transaction that has each seats row locked
  row,      \* seat_holds: the order of each row, or None
  expired,  \* the seats whose row has expired
  ticket,   \* tickets: the order of each ticket, or None
  paying,   \* the orders whose late payment has its transaction open
  queued,   \* the orders whose row another transaction waits for
  tries     \* requests of each order so far

vars == <<req, lock, row, expired, ticket, paying, queued, tries>>

InTx == {"locking", "locked", "written"}

(* A connection for the transaction of Hold, one more for the payment's,   *)
(* and one for a transaction that waits for the order of the payment.      *)
InUse == Cardinality({o \in Orders : req[o] \in InTx}) + Cardinality(paying) + Cardinality(queued)

HasRows(o) == {s \in Seats : row[s] = o}

Init ==
  /\ req = [o \in Orders |-> "idle"]
  /\ lock = [s \in Seats |-> None]
  /\ row = [s \in Seats |-> None]
  /\ expired = {}
  /\ ticket = [s \in Seats |-> None]
  /\ paying = {} /\ queued = {}
  /\ tries = [o \in Orders |-> 0]

Goto(o, step) == req' = [req EXCEPT ![o] = step]

(* Mutant: only one of the locks is freed. *)
UnlockOne(o) ==
  LET mine == {s \in Seats : lock[s] = o} IN
  lock' = [s \in Seats |-> IF s \in mine /\ \A r \in mine : s <= r THEN None ELSE lock[s]]

(* The end of the transaction of Hold frees its locks. *)
Unlock(o) == lock' = [s \in Seats |-> IF lock[s] = o THEN None ELSE lock[s]]

-----------------------------------------------------------------------------
(* Requests.  A create waits for the one connection it needs; a late       *)
(* payment first begins its own transaction.                               *)

Begin(o) ==
  /\ req[o] = "idle" /\ tries[o] < MaxTries
  /\ \A s \in Seats : ticket[s] # o
  /\ tries' = [tries EXCEPT ![o] = @ + 1]
  /\ \/ Goto(o, "waiting")
     \/ o \in Late /\ Goto(o, "due")
  /\ UNCHANGED <<lock, row, expired, ticket, paying, queued>>

(* The transaction that waited for the row goes on as the payment when the *)
(* one before it was rolled back; any other takes a connection.            *)
BeginPayment(o) ==
  /\ req[o] = "due"
  /\ \/ o \notin queued /\ InUse < PoolSize
     \/ o \in queued
  /\ paying' = paying \cup {o}
  /\ queued' = queued \ {o}
  /\ Goto(o, "waiting")
  /\ UNCHANGED <<lock, row, expired, ticket, tries>>

BeginHold(o) ==
  /\ req[o] = "waiting"
  /\ InUse < PoolSize
  /\ Goto(o, "locking")
  /\ UNCHANGED <<lock, row, expired, ticket, paying, queued, tries>>

Unlocked(o) == {s \in SeatsOf[o] : lock[s] # o}

(* Mutant: FOR UPDATE without ORDER BY. *)
NextSeatAny(o) == Unlocked(o)

(* ORDER BY seat_id. *)
NextSeat(o) == {s \in Unlocked(o) : \A r \in Unlocked(o) : s <= r}

LockSeat(o, s) ==
  /\ req[o] = "locking"
  /\ s \in NextSeat(o) /\ lock[s] = None
  /\ lock' = [lock EXCEPT ![s] = o]
  /\ UNCHANGED <<req, row, expired, ticket, paying, queued, tries>>

(* Mutant: the seats rows are read without FOR UPDATE. *)
LocksTakenEarly(o) == req[o] = "locking"

LocksTaken(o) == req[o] = "locking" /\ Unlocked(o) = {}

(* TakenSeats: unexpired holds of other orders, and tickets.  now() is the *)
(* start of the transaction, so a hold that ended since then still counts. *)
TakenSeats(o) ==
  /\ LocksTaken(o)
  /\ \E still \in SUBSET expired :
       LET taken == {s \in SeatsOf[o] : \/ row[s] \notin {None, o} /\ (s \notin expired \/ s \in still)
                                        \/ ticket[s] # None} IN
       IF taken # {} THEN Goto(o, "taken") /\ Unlock(o)
                     ELSE Goto(o, "locked") /\ UNCHANGED lock
  /\ UNCHANGED <<row, expired, ticket, paying, queued, tries>>

(* UpsertHolds, visible to others once committed. *)
UpsertHolds(o) ==
  /\ req[o] = "locked"
  /\ Goto(o, "written")
  /\ UNCHANGED <<lock, row, expired, ticket, paying, queued, tries>>

Commit(o) ==
  /\ req[o] = "written"
  /\ row' = [s \in Seats |-> IF s \in SeatsOf[o] THEN o ELSE row[s]]
  /\ expired' = expired \ SeatsOf[o]
  /\ Unlock(o)
  /\ Goto(o, "held")
  /\ UNCHANGED <<ticket, paying, queued, tries>>

(* The caller of a create has its answer; the payment goes on with the     *)
(* tickets, or the refund, and commits.                                    *)
Answer(o) ==
  /\ req[o] \in {"held", "taken"}
  /\ Goto(o, "idle")
  /\ paying' = paying \ {o}
  /\ ticket' = [s \in Seats |-> IF o \in paying /\ req[o] = "held" /\ s \in SeatsOf[o]
                                THEN o ELSE ticket[s]]
  /\ UNCHANGED <<lock, row, expired, queued, tries>>

(* The request's context ends, or a statement fails: both transactions     *)
(* roll back.                                                              *)
Cancel(o) ==
  /\ req[o] # "idle"
  /\ Goto(o, "idle")
  /\ paying' = paying \ {o}
  /\ Unlock(o)
  /\ UNCHANGED <<row, expired, ticket, queued, tries>>

-----------------------------------------------------------------------------
(* The other calls, each a statement of its own.                            *)

Unexpired(o) == HasRows(o) \ expired

(* Release: DeleteHolds. *)
Release(o) ==
  /\ req[o] = "idle" /\ \A s \in Seats : ticket[s] # o
  /\ row' = [s \in Seats |-> IF row[s] = o THEN None ELSE row[s]]
  /\ expired' = expired \ HasRows(o)
  /\ UNCHANGED <<req, lock, ticket, paying, queued, tries>>

(* A payment in time commits the tickets of an order whose hold is still   *)
(* unexpired (HOLD_GRACE).                                                 *)
Pay(o) ==
  /\ req[o] = "idle" /\ Unexpired(o) = SeatsOf[o]
  /\ ticket' = [s \in Seats |-> IF s \in SeatsOf[o] THEN o ELSE ticket[s]]
  /\ UNCHANGED <<req, lock, row, expired, paying, queued, tries>>

(* Confirm: the tickets are there, the holds are dropped. *)
Confirm(o) ==
  /\ \A s \in SeatsOf[o] : ticket[s] = o
  /\ row' = [s \in Seats |-> IF row[s] = o THEN None ELSE row[s]]
  /\ expired' = expired \ HasRows(o)
  /\ UNCHANGED <<req, lock, ticket, paying, queued, tries>>

(* expires_at passes; latePaymentHoldTTL outlasts the rest of a payment. *)
HoldLapses(o) ==
  /\ Unexpired(o) # {}
  /\ ~(o \in paying /\ req[o] = "held")
  /\ expired' = expired \cup HasRows(o)
  /\ UNCHANGED <<req, lock, row, ticket, paying, queued, tries>>

(* The payment keeps its order locked while it holds: a copy of the        *)
(* webhook, or a cancel, begins its transaction and waits for the row.     *)
SecondBegins(o) ==
  /\ o \in Again \cap paying /\ o \notin queued
  /\ InUse < PoolSize
  /\ queued' = queued \cup {o}
  /\ UNCHANGED <<req, lock, row, expired, ticket, paying, tries>>

(* It gets the row and commits, or its request's context ends. *)
SecondEnds(o) ==
  /\ o \in queued
  /\ queued' = queued \ {o}
  /\ UNCHANGED <<req, lock, row, expired, ticket, paying, tries>>

Call(o) ==
  \/ BeginPayment(o) \/ BeginHold(o) \/ TakenSeats(o) \/ UpsertHolds(o) \/ Commit(o) \/ Answer(o)
  \/ \E s \in Seats : LockSeat(o, s)

Next ==
  \E o \in Orders :
    \/ Begin(o) \/ Call(o) \/ Cancel(o) \/ Release(o) \/ Pay(o) \/ Confirm(o) \/ HoldLapses(o)
    \/ SecondBegins(o) \/ SecondEnds(o)

Spec == Init /\ [][Next]_vars

(* Transactions go on.  Row locks and connections are given out in the     *)
(* order of arrival, so nobody is passed over for ever.  The second        *)
(* request for an order goes on once the first is done with its row.       *)
Fairness ==
  /\ \A o \in Orders : SF_vars(Call(o))
  /\ \A o \in Again : SF_vars(o \notin paying /\ SecondEnds(o))

FairSpec == Spec /\ Fairness

-----------------------------------------------------------------------------
(* Properties.                                                              *)

(* Requests, locks and tables have the types of the code.  Only a          *)
(* transaction of Hold has locks, a row is expired only if there is one,   *)
(* and the pool is never overdrawn.                                        *)
TypeOK ==
  /\ req \in [Orders -> {"idle", "due", "waiting", "locking", "locked", "written", "held", "taken"}]
  /\ lock \in [Seats -> Orders \cup {None}]
  /\ row \in [Seats -> Orders \cup {None}]
  /\ ticket \in [Seats -> Orders \cup {None}]
  /\ \A s \in expired : row[s] # None
  /\ paying \subseteq Orders /\ queued \subseteq Orders
  /\ tries \in [Orders -> 0..MaxTries]
  /\ \A s \in Seats : lock[s] # None => req[lock[s]] \in InTx /\ s \in SeatsOf[lock[s]]
  /\ InUse <= PoolSize

(* SeatStatuses: a ticket outranks a hold, and an expired hold is none. *)
Status(s) ==
  CASE ticket[s] # None -> SoldTo(ticket[s])
    [] ticket[s] = None /\ row[s] # None /\ s \notin expired -> Held(row[s], 0)
    [] OTHER -> Absent

I == INSTANCE Inventory WITH keys <- [s \in Seats |-> Status(s)]

(* What the seats rows, the holds and the tickets say together is what the *)
(* Inventory interface promises: holds of several seats appear at once or  *)
(* not at all, and nobody takes an unexpired hold or a sold seat.          *)
ImplementsInventory == I!Spec

(* Every request is answered although nobody need give up: overlapping     *)
(* holds do not deadlock on the seats rows, and late payments do not wait  *)
(* for each other's connections as long as the pool has more connections   *)
(* than there are late payments, and requests waiting for their orders, at *)
(* a time.                                                                 *)
RequestsEnd == \A o \in Orders : []<>(req[o] = "idle")
=============================================================================
