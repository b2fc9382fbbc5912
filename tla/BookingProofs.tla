---------------------------- MODULE BookingProofs ----------------------------
(***************************************************************************)
(* Proofs about Booking, for every set of orders, seats, transactions,     *)
(* requests and workers, and every value of the times: the types, no       *)
(* double sale, tickets and money accounted for, refunds that decide their *)
(* orders, legal and announced moves, the refinement of TicketSale, and,   *)
(* while nothing fails and no request is slow, an inventory that agrees    *)
(* with the orders.                                                        *)
(*                                                                         *)
(* HandlerInv says what a handler may rely on when it comes to its         *)
(* transaction.  It lets StepKinds sort the steps by what they do to the   *)
(* tables and the gateway, and the second half only looks at these kinds:  *)
(* TableInv is what holds of PostgreSQL and the gateway in every           *)
(* behaviour, with one lemma per conjunct, and what each kind of step does *)
(* to the tables is stated entry by entry in a lemma of its own.           *)
(*                                                                         *)
(* The last part follows the seats of one order against the clock.         *)
(* TimedInv says until when an order relies on its seats and that it has   *)
(* them for so long; a step either leaves the order what it has, releases  *)
(* what it no longer needs, or is one of the few that give it new seats.   *)
(***************************************************************************)
EXTENDS Booking, TLAPS

-----------------------------------------------------------------------------
(* Facts about the operators Booking is built from.                        *)

(* The Lua scripts map seat keys to seat keys. *)
LEMMA SeatKeysType ==
  ASSUME NEW k \in [Seats -> SeatKey], NEW o \in Orders, NEW until \in Nat
  PROVE  /\ HoldSeats(k, SeatsOf[o], o, until) \in [Seats -> SeatKey]
         /\ ReleaseSeats(k, SeatsOf[o], o) \in [Seats -> SeatKey]
         /\ ConfirmSeats(k, SeatsOf[o], o) \in [Seats -> SeatKey]
<1>1. Absent \in SeatKey /\ Held(o, until) \in SeatKey /\ SoldTo(o) \in SeatKey
  BY Zenon DEF SeatKey, Absent, Held, SoldTo
<1>2. HoldSeats(k, SeatsOf[o], o, until) \in [Seats -> SeatKey]
  BY Zenon, <1>1 DEF HoldSeats
<1>3. ReleaseSeats(k, SeatsOf[o], o) \in [Seats -> SeatKey]
  BY Zenon, <1>1 DEF ReleaseSeats
<1>4. ConfirmSeats(k, SeatsOf[o], o) \in [Seats -> SeatKey]
  BY Zenon, <1>1 DEF ConfirmSeats
<1>5. QED
  BY Zenon, <1>2, <1>3, <1>4

(* Expiring keys by their time to live leaves well-formed keys. *)
LEMMA LapseType ==
  ASSUME NEW k \in [Seats -> SeatKey], NEW now
  PROVE  Lapse(k, now) \in [Seats -> SeatKey]
<1>1. Absent \in SeatKey
  BY Zenon DEF Absent, SeatKey
<1>2. QED
  BY Zenon, <1>1 DEF Lapse

(* A transition joins two statuses and keeps the type of the column. *)
LEMMA TransitionType ==
  ASSUME TypeOK, NEW o \in Orders, NEW to, Transition(o, to)
  PROVE  /\ status[o] \in Status /\ to \in Status
         /\ status' \in [Orders -> Status \cup {NoRow}]
BY Zenon DEF TypeOK, Transition, CanTransition, transitions, Status

(* The row locks one process gives back go to nobody. *)
LEMMA UnlockedType ==
  ASSUME TypeOK, NEW by
  PROVE  Unlocked(by) \in [Orders -> Deliveries \cup Workers \cup {None}]
BY Zenon DEF TypeOK, Unlocked

(* A webhook request only ever moves between the points of its handler. *)
LEMMA WebhookGotoType ==
  ASSUME TypeOK, NEW d \in Deliveries, NEW pc \in {"idle", "confirm", "release", "reheld"},
         webhook[d].pc # "idle", WebhookGoto(d, pc)
  PROVE  /\ webhook' \in [Deliveries -> WebhookState]
         /\ \A e \in Deliveries : webhook'[e].pc # "idle" => webhook'[e].txn \in Txns
<1>1. IdleWebhook \in WebhookState /\ IdleWebhook.pc = "idle"
  BY Zenon DEF IdleWebhook, WebhookState
<1>2. [webhook[d] EXCEPT !.pc = pc] \in WebhookState /\ [webhook[d] EXCEPT !.pc = pc].txn = webhook[d].txn
  BY DEF TypeOK, WebhookState
<1>3. QED
  BY Zenon, <1>1, <1>2 DEF TypeOK, WebhookGoto

(* The events the handlers write are events. *)
LEMMA EventTypes ==
  /\ \A o \in Orders :
       \A type \in {"order.held", "order.cancelled", "order.expired", "order.paid", "ticket.issued"} :
         OrderEvent(type, o) \in Event
  /\ \A t \in Txns : \A type \in {"order.refund_requested", "order.refunded"} :
       RefundEvent(type, t) \in Event
BY Zenon, RequestAssumption DEF OrderEvent, RefundEvent, Event

-----------------------------------------------------------------------------
(* Type correctness.                                                       *)

(* The empty database, the empty Redis and the idle handlers are well typed. *)
LEMMA TypeInit == Init => TypeOK
BY NamesAssumption DEF Init, TypeOK, Absent, NoRow, NoRefund, IdleCreate, IdleWebhook, IdleSweep,
   SeatKey, Refund, CreateState, WebhookState, SweepState, Reasons

(* The two ends of a payment: tickets, or a refund of the order. *)
LEMMA PayType ==
  ASSUME TypeOK, NEW t \in Txns, Pay(t)
  PROVE  /\ status' \in [Orders -> Status \cup {NoRow}]
         /\ holdExpiresAt' \in [Orders -> Nat]
         /\ tickets' \subseteq Seats \X Orders
         /\ payments' \in [Txns -> {NoRow, "APPLIED", "REFUND_REQUIRED", "IGNORED_FAILED"}]
         /\ refunds' \in [Txns -> Refund]
         /\ outbox' \subseteq Event
<1>1. OrderOf[t] \in Orders /\ SeatsOf[OrderOf[t]] \subseteq Seats
  BY Zenon, RequestAssumption
<1>2. tickets' \subseteq Seats \X Orders
  BY <1>1 DEF Pay, TypeOK
<1>3. status' \in [Orders -> Status \cup {NoRow}]
  BY Zenon, <1>1, TransitionType DEF Pay
<1>4. payments' \in [Txns -> {NoRow, "APPLIED", "REFUND_REQUIRED", "IGNORED_FAILED"}]
  BY Zenon DEF Pay, SetOutcome, TypeOK
<1>5. outbox' \subseteq Event
  BY Zenon, <1>1, EventTypes DEF Pay, Emit, TypeOK
<1>6. QED
  BY Zenon, <1>2, <1>3, <1>4, <1>5 DEF Pay, TypeOK

(* paymentTx.refund writes well-typed payment, refund and event rows. *)
LEMMA RefundRequiredType ==
  ASSUME TypeOK, NEW t \in Txns, NEW reason \in Reasons, RefundRequired(t, reason)
  PROVE  /\ payments' \in [Txns -> {NoRow, "APPLIED", "REFUND_REQUIRED", "IGNORED_FAILED"}]
         /\ refunds' \in [Txns -> Refund]
         /\ outbox' \subseteq Event
<1>1. [status |-> "PENDING", reason |-> reason] \in Refund
  BY Zenon DEF Refund
<1>2. QED
  BY Zenon, <1>1, EventTypes DEF RefundRequired, TypeOK, SetOutcome, Emit

(* So does the refund of a whole order, which also moves it to REFUNDING. *)
LEMMA RefundOrderType ==
  ASSUME TypeOK, NEW t \in Txns, NEW reason \in Reasons, RefundOrder(t, reason)
  PROVE  /\ status' \in [Orders -> Status \cup {NoRow}]
         /\ holdExpiresAt' \in [Orders -> Nat]
         /\ tickets' \subseteq Seats \X Orders
         /\ payments' \in [Txns -> {NoRow, "APPLIED", "REFUND_REQUIRED", "IGNORED_FAILED"}]
         /\ refunds' \in [Txns -> Refund]
         /\ outbox' \subseteq Event
BY Zenon, RequestAssumption, TransitionType, RefundRequiredType DEF RefundOrder, TypeOK

(* One step of booking keeps the types. *)
LEMMA TypeStep == TypeOK /\ [Next]_vars => TypeOK'
<1> SUFFICES ASSUME TypeOK, [Next]_vars
             PROVE  TypeOK'
  OBVIOUS
<1> USE RequestAssumption, TimesAssumption, NamesAssumption
<1>1. ASSUME NEW o \in Orders, CreateHold(o) PROVE TypeOK'
  <2>1. clock + HoldTTL + HoldGrace \in Nat
    BY DEF TypeOK
  <2>2. keys' \in [Seats -> SeatKey]
    <3>1. keys \in [Seats -> SeatKey]
      BY Zenon DEF TypeOK
    <3>2. HoldSeats(keys, SeatsOf[o], o, clock + HoldTTL + HoldGrace) \in [Seats -> SeatKey]
      BY Zenon, <2>1, <3>1, SeatKeysType
    <3>3. QED
      BY Zenon, <1>1, <3>1, <3>2 DEF CreateHold
  <2>3. [pc |-> "held", at |-> clock] \in CreateState /\ [pc |-> "done", at |-> 0] \in CreateState
    BY Zenon DEF TypeOK, CreateState
  <2>4. create' \in [Orders -> CreateState]
    BY <1>1, <2>3 DEF CreateHold, TypeOK
  <2>5. QED
    BY Zenon, <1>1, <2>2, <2>4 DEF CreateHold, TypeOK, pgVars
<1>2. ASSUME NEW o \in Orders, CreateInsert(o) PROVE TypeOK'
  <2>1. [pc |-> "release", at |-> 0] \in CreateState /\ [pc |-> "done", at |-> 0] \in CreateState
    BY Zenon DEF CreateState
  <2>2. create' \in [Orders -> CreateState]
    BY <1>2, <2>1 DEF CreateInsert, TypeOK
  <2>3. create[o].at \in Nat
    BY Zenon DEF TypeOK, CreateState
  <2>4. CASE InsertHeld(o)
    <3>1. holdExpiresAt' \in [Orders -> Nat]
      BY <2>3, <2>4 DEF InsertHeld, TypeOK
    <3>2. status' \in [Orders -> Status \cup {NoRow}]
      BY Zenon, <2>4 DEF InsertHeld, TypeOK, Status
    <3>3. outbox' \subseteq Event
      BY <2>4, EventTypes DEF InsertHeld, Emit, TypeOK
    <3>4. QED
      BY Zenon, <1>2, <2>2, <2>4, <3>1, <3>2, <3>3 DEF CreateInsert, InsertHeld, TypeOK
  <2>5. CASE UNCHANGED pgVars
    BY Zenon, <1>2, <2>2, <2>5 DEF CreateInsert, TypeOK, pgVars
  <2>6. QED
    BY Zenon, <1>2, <2>4, <2>5 DEF CreateInsert
<1>3. ASSUME NEW o \in Orders, CreateRelease(o) \/ CreateFail(o) PROVE TypeOK'
  <2>1. [pc |-> "done", at |-> 0] \in CreateState
    BY Zenon DEF CreateState
  <2>2. keys' \in [Seats -> SeatKey]
    BY <1>3, SeatKeysType DEF CreateRelease, CreateFail, TypeOK
  <2>3. QED
    BY <1>3, <2>1, <2>2 DEF CreateRelease, CreateFail, TypeOK, pgVars
<1>4. ASSUME NEW o \in Orders, Cancel(o) PROVE TypeOK'
  <2>1. status' \in [Orders -> Status \cup {NoRow}]
    BY Zenon, <1>4, TransitionType DEF Cancel
  <2>2. outbox' \subseteq Event
    BY Zenon, <1>4, EventTypes DEF Cancel, Emit, TypeOK
  <2>3. QED
    BY Zenon, <1>4, <2>1, <2>2 DEF Cancel, TypeOK
<1>5. ASSUME NEW o \in Orders, CancelRelease(o) \/ CancelFail(o) PROVE TypeOK'
  <2>1. keys' \in [Seats -> SeatKey]
    BY <1>5, SeatKeysType DEF CancelRelease, CancelFail, TypeOK
  <2>2. QED
    BY Zenon, <1>5, <2>1 DEF CancelRelease, CancelFail, TypeOK, pgVars
<1>6. ASSUME NEW o \in Orders, Issue(o) PROVE TypeOK'
  <2>1. status' \in [Orders -> Status \cup {NoRow}]
    BY Zenon, <1>6, TransitionType DEF Issue
  <2>2. outbox' \subseteq Event
    BY Zenon, <1>6, EventTypes DEF Issue, Emit, TypeOK
  <2>3. QED
    BY Zenon, <1>6, <2>1, <2>2 DEF Issue, TypeOK
<1>7. ASSUME NEW t \in Txns, Charge(t) \/ RefundCall(t) PROVE TypeOK'
  BY <1>7 DEF Charge, RefundCall, TypeOK, pgVars
<1>8. ASSUME NEW t \in Txns, RefundComplete(t) PROVE TypeOK'
  <2>1. status' \in [Orders -> Status \cup {NoRow}]
    BY Zenon, <1>8, TransitionType DEF RefundComplete, TypeOK
  <2>2. outbox' \subseteq Event
    BY Zenon, <1>8, EventTypes DEF RefundComplete, Emit, TypeOK
  <2>3. [refunds[t] EXCEPT !.status = "SUCCEEDED"] \in Refund
    BY DEF TypeOK, Refund
  <2>4. refunds' \in [Txns -> Refund]
    BY Zenon, <1>8, <2>3 DEF RefundComplete, TypeOK
  <2>5. QED
    BY Zenon, <1>8, <2>1, <2>2, <2>4 DEF RefundComplete, TypeOK
<1>9. ASSUME NEW d \in Deliveries, NEW t \in Txns, WebhookBegin(d, t) PROVE TypeOK'
  <2>1. [pc |-> "begun", txn |-> t, now |-> clock] \in WebhookState
    BY Zenon DEF TypeOK, WebhookState
  <2>2. QED
    BY Zenon, <1>9, <2>1 DEF WebhookBegin, TypeOK, pgVars
<1>10. ASSUME NEW d \in Deliveries, WebhookUnknownOrder(d) \/ WebhookDuplicate(d) PROVE TypeOK'
  <2>1. webhook[d].pc # "idle" /\ (WebhookGoto(d, "idle") \/ WebhookGoto(d, "confirm"))
    BY Zenon, <1>10 DEF WebhookUnknownOrder, WebhookDuplicate
  <2>2. QED
    BY Zenon, <1>10, <2>1, WebhookGotoType DEF WebhookUnknownOrder, WebhookDuplicate, TypeOK, pgVars
<1>11. ASSUME NEW d \in Deliveries, WebhookDecide(d) PROVE TypeOK'
  <2> DEFINE t == webhook[d].txn
  <2>1. webhook[d].pc # "idle" /\ t \in Txns
    BY Zenon, <1>11 DEF WebhookDecide, FirstDelivery, TypeOK
  <2>2. \E pc \in {"idle", "confirm", "release", "reheld"} : WebhookGoto(d, pc)
    BY <1>11, Zenon DEF WebhookDecide
  <2>3. /\ webhook' \in [Deliveries -> WebhookState]
        /\ \A e \in Deliveries : webhook'[e].pc # "idle" => webhook'[e].txn \in Txns
    BY Zenon, <2>1, <2>2, WebhookGotoType
  <2>4. \/ SetOutcome(t, "IGNORED_FAILED") /\ UNCHANGED <<status, holdExpiresAt, tickets, refunds, outbox>>
        \/ RefundRequired(t, "DOUBLE_PAYMENT") /\ UNCHANGED <<status, holdExpiresAt, tickets>>
        \/ \E reason \in Reasons : RefundOrder(t, reason)
        \/ Pay(t)
    BY Zenon, <1>11 DEF WebhookDecide, Reasons
  <2>5. /\ status' \in [Orders -> Status \cup {NoRow}]
        /\ holdExpiresAt' \in [Orders -> Nat]
        /\ tickets' \subseteq Seats \X Orders
        /\ payments' \in [Txns -> {NoRow, "APPLIED", "REFUND_REQUIRED", "IGNORED_FAILED"}]
        /\ refunds' \in [Txns -> Refund]
        /\ outbox' \subseteq Event
    <3>1. CASE SetOutcome(t, "IGNORED_FAILED") /\ UNCHANGED <<status, holdExpiresAt, tickets, refunds, outbox>>
      BY Zenon, <2>1, <3>1 DEF SetOutcome, TypeOK
    <3>2. CASE RefundRequired(t, "DOUBLE_PAYMENT") /\ UNCHANGED <<status, holdExpiresAt, tickets>>
      <4>1. "DOUBLE_PAYMENT" \in Reasons
        BY Zenon DEF Reasons
      <4>2. QED
        BY Zenon, <2>1, <3>2, <4>1, RefundRequiredType DEF TypeOK
    <3>3. CASE \E reason \in Reasons : RefundOrder(t, reason)
      BY Zenon, <2>1, <3>3, RefundOrderType
    <3>4. CASE Pay(t)
      BY Zenon, <2>1, <3>4, PayType
    <3>5. QED
      BY Zenon, <2>4, <3>1, <3>2, <3>3, <3>4
  <2>6. QED
    BY Zenon, <1>11, <2>3, <2>5 DEF WebhookDecide, TypeOK
<1>12. ASSUME NEW d \in Deliveries, WebhookLateHold(d) PROVE TypeOK'
  <2> DEFINE t == webhook[d].txn
             o == OrderOf[t]
  <2>1. webhook[d].pc # "idle" /\ t \in Txns /\ o \in Orders
    BY Zenon, <1>12 DEF WebhookLateHold, FirstDelivery, TypeOK
  <2>2. webhook' \in [Deliveries -> WebhookState]
        /\ \A e \in Deliveries : webhook'[e].pc # "idle" => webhook'[e].txn \in Txns
    BY Zenon, <1>12, <2>1, WebhookGotoType DEF WebhookLateHold
  <2>3. CASE Taken(keys, SeatsOf[o], o) = {}
    <3>1. clock + LateHoldTTL \in Nat
      BY DEF TypeOK
    <3>2. keys' \in [Seats -> SeatKey]
      BY <1>12, <2>1, <2>3, <3>1, SeatKeysType DEF WebhookLateHold, TypeOK
    <3>3. lock' \in [Orders -> Deliveries \cup Workers \cup {None}]
      BY <1>12, <2>1, <2>3 DEF WebhookLateHold, TypeOK
    <3>4. QED
      BY Zenon, <1>12, <2>2, <2>3, <3>2, <3>3 DEF WebhookLateHold, TypeOK, pgVars
  <2>4. CASE Taken(keys, SeatsOf[o], o) # {}
    <3>1. "LATE_PAYMENT_SEAT_TAKEN" \in Reasons /\ RefundOrder(t, "LATE_PAYMENT_SEAT_TAKEN")
      BY Zenon, <1>12, <2>4 DEF WebhookLateHold, Reasons
    <3>2. QED
      BY <1>12, <2>1, <2>2, <2>4, <3>1, RefundOrderType, Zenon DEF WebhookLateHold, TypeOK
  <2>5. QED
    BY Zenon, <2>3, <2>4
<1>13. ASSUME NEW d \in Deliveries, WebhookLateCommit(d) PROVE TypeOK'
  <2> DEFINE t == webhook[d].txn
  <2>1. webhook[d].pc # "idle" /\ t \in Txns
    BY Zenon, <1>13 DEF WebhookLateCommit, TypeOK
  <2>2. webhook' \in [Deliveries -> WebhookState]
        /\ \A e \in Deliveries : webhook'[e].pc # "idle" => webhook'[e].txn \in Txns
    BY Zenon, <1>13, <2>1, WebhookGotoType DEF WebhookLateCommit
  <2>3. "SEAT_CONFLICT" \in Reasons /\ (Pay(t) \/ RefundOrder(t, "SEAT_CONFLICT"))
    BY Zenon, <1>13 DEF WebhookLateCommit, Reasons
  <2>4. QED
    BY Zenon, <1>13, <2>1, <2>2, <2>3, PayType, RefundOrderType, UnlockedType DEF WebhookLateCommit, TypeOK
<1>14. ASSUME NEW d \in Deliveries, WebhookConfirm(d) \/ WebhookRelease(d) PROVE TypeOK'
  <2>1. webhook[d].pc # "idle" /\ WebhookOrder(d) \in Orders
    BY Zenon, <1>14 DEF WebhookConfirm, WebhookRelease, WebhookOrder, TypeOK
  <2>2. keys' \in [Seats -> SeatKey]
    BY <1>14, <2>1, SeatKeysType DEF WebhookConfirm, WebhookRelease, TypeOK
  <2>3. QED
    BY Zenon, <1>14, <2>1, <2>2, WebhookGotoType DEF WebhookConfirm, WebhookRelease, TypeOK, pgVars
<1>15. ASSUME NEW d \in Deliveries, WebhookFail(d) PROVE TypeOK'
  BY Zenon, <1>15, WebhookGotoType, UnlockedType DEF WebhookFail, TypeOK, pgVars
<1>16. ASSUME NEW w \in Workers, Expire(w) PROVE TypeOK'
  <2>1. PICK batch \in Batches(Due) :
          /\ status' = [o \in Orders |-> IF o \in batch THEN "EXPIRED" ELSE status[o]]
          /\ Emit({OrderEvent("order.expired", o) : o \in batch})
          /\ sweep' = [sweep EXCEPT ![w] = [pc |-> "expired", batch |-> batch]]
    BY Zenon, <1>16 DEF Expire
  <2>2. batch \subseteq Orders
    BY Zenon DEF Batches, Due
  <2>3. [pc |-> "expired", batch |-> batch] \in SweepState
    BY Zenon, <2>2 DEF SweepState
  <2>4. status' \in [Orders -> Status \cup {NoRow}]
    BY Zenon, <2>1 DEF TypeOK, Status
  <2>5. outbox' \subseteq Event
    BY <2>1, <2>2, EventTypes DEF Emit, TypeOK
  <2>6. QED
    BY Zenon, <1>16, <2>1, <2>3, <2>4, <2>5 DEF Expire, TypeOK
<1>17. ASSUME NEW w \in Workers, SweepLock(w) PROVE TypeOK'
  <2>1. [pc |-> "locked", batch |-> {o \in sweep[w].batch : status[o] \notin Sold}] \in SweepState
    BY Zenon DEF TypeOK, SweepState
  <2>2. lock' \in [Orders -> Deliveries \cup Workers \cup {None}]
    BY Zenon, <1>17 DEF SweepLock, TypeOK
  <2>3. QED
    BY Zenon, <1>17, <2>1, <2>2 DEF SweepLock, TypeOK, pgVars
<1>18. ASSUME NEW w \in Workers, SweepRelease(w) PROVE TypeOK'
  <2>1. PICK o \in sweep[w].batch :
          /\ keys' = ReleaseSeats(keys, SeatsOf[o], o) \/ UNCHANGED keys
          /\ sweep' = [sweep EXCEPT ![w].batch = @ \ {o}]
    BY Zenon, <1>18 DEF SweepRelease
  <2>2. o \in Orders
    BY Zenon DEF TypeOK, SweepState
  <2>3. keys' \in [Seats -> SeatKey]
    BY <2>1, <2>2, SeatKeysType DEF TypeOK
  <2>4. [sweep[w] EXCEPT !.batch = sweep[w].batch \ {o}] \in SweepState
    BY DEF TypeOK, SweepState
  <2>5. sweep' \in [Workers -> SweepState]
    BY Zenon, <2>1, <2>4 DEF TypeOK
  <2>6. QED
    BY Zenon, <1>18, <2>3, <2>5 DEF SweepRelease, TypeOK, pgVars
<1>19. ASSUME NEW w \in Workers, SweepDone(w) \/ SweepFail(w) PROVE TypeOK'
  <2>1. IdleSweep \in SweepState
    BY Zenon DEF IdleSweep, SweepState
  <2>2. QED
    BY <1>19, <2>1, UnlockedType DEF SweepDone, SweepFail, TypeOK, pgVars
<1>20. CASE Tick
  <2>1. clock + 1 \in Nat
    BY DEF TypeOK
  <2>2. keys' \in [Seats -> SeatKey]
    BY Zenon, <1>20, LapseType DEF Tick, TypeOK
  <2>3. QED
    BY Zenon, <1>20, <2>1, <2>2 DEF Tick, TypeOK, pgVars
<1>21. CASE UNCHANGED vars
  BY Zenon, <1>21 DEF vars, pgVars, TypeOK
<1>22. QED
  BY Zenon, <1>1, <1>2, <1>3, <1>4, <1>5, <1>6, <1>7, <1>8, <1>9, <1>10, <1>11, <1>12, <1>13, <1>14, <1>15,
     <1>16, <1>17, <1>18, <1>19, <1>20, <1>21
     DEF Next, CreateNext, CancelNext, WebhookNext, WebhookHandle, SweepNext, RefundNext

(* Every variable keeps its type in every behaviour of booking. *)
THEOREM TypeCorrect == Spec => []TypeOK
<1>1. Init => TypeOK
  BY Zenon, TypeInit
<1>2. TypeOK /\ [Next]_vars => TypeOK'
  BY Zenon, TypeStep
<1>3. QED
  BY <1>1, <1>2, PTL DEF Spec

-----------------------------------------------------------------------------
(* What a handler may rely on.                                             *)

(* The order of a create request has no row before the insert. *)
InsertOnce == \A o \in Orders : create[o].pc \in {"idle", "held"} => status[o] = NoRow

(* A webhook speaks of a payment the buyer has completed. *)
ChargedFirst == \A d \in Deliveries : webhook[d].pc # "idle" => charge[webhook[d].txn] # "none"

(* What a late payment decided before it went to Redis is still so when    *)
(* its transaction goes on: it has had the order lock all the time.        *)
LateUnderLock ==
  \A d \in Deliveries : webhook[d].pc = "reheld" =>
    /\ lock[WebhookOrder(d)] = d
    /\ status[WebhookOrder(d)] \in {"HELD", "EXPIRED"}
    /\ payments[webhook[d].txn] = NoRow
    /\ charge[webhook[d].txn] = "exact"

HandlerInv == TypeOK /\ InsertOnce /\ ChargedFirst /\ LateUnderLock

-----------------------------------------------------------------------------
(* What a step does to the tables and the gateway.                         *)

DbInsert(o) ==
  /\ create[o].pc = "held" /\ create'[o].pc \in {"release", "done"}
  /\ create'[o].pc = "release" => MayFail
  /\ status[o] = NoRow
  /\ InsertHeld(o)
  /\ UNCHANGED <<charge, returned>>

DbMove(o, from, to, type) ==
  /\ status[o] = from
  /\ status' = [status EXCEPT ![o] = to]
  /\ Emit({OrderEvent(type, o)})
  /\ UNCHANGED <<holdExpiresAt, tickets, payments, refunds, charge, returned>>

DbExpire(batch) ==
  /\ \A o \in batch : status[o] = "HELD"
  /\ status' = [o \in Orders |-> IF o \in batch THEN "EXPIRED" ELSE status[o]]
  /\ Emit({OrderEvent("order.expired", o) : o \in batch})
  /\ UNCHANGED <<holdExpiresAt, tickets, payments, refunds, charge, returned>>

DbCharge(t) == Charge(t)

DbReturn(t) ==
  /\ refunds[t].status = "PENDING"
  /\ returned' = returned \cup {t}
  /\ UNCHANGED <<pgVars, charge>>

DbComplete(t) ==
  /\ t \in returned
  /\ refunds[t].status = "PENDING"
  /\ refunds' = [refunds EXCEPT ![t].status = "SUCCEEDED"]
  /\ \/ /\ refunds[t].reason # "DOUBLE_PAYMENT" /\ status[OrderOf[t]] = "REFUNDING"
        /\ status' = [status EXCEPT ![OrderOf[t]] = "REFUNDED"]
     \/ /\ ~ (refunds[t].reason # "DOUBLE_PAYMENT" /\ status[OrderOf[t]] = "REFUNDING")
        /\ UNCHANGED status
  /\ Emit({RefundEvent("order.refunded", t)})
  /\ UNCHANGED <<holdExpiresAt, tickets, payments, charge, returned>>

DbIgnore(t) ==
  /\ payments[t] = NoRow /\ charge[t] = "failed"
  /\ SetOutcome(t, "IGNORED_FAILED")
  /\ UNCHANGED <<status, holdExpiresAt, tickets, refunds, outbox, charge, returned>>

DbDouble(t) ==
  /\ payments[t] = NoRow /\ charge[t] \in {"exact", "wrong"}
  /\ RefundRequired(t, "DOUBLE_PAYMENT")
  /\ UNCHANGED <<status, holdExpiresAt, tickets, charge, returned>>

DbRefund(t) ==
  /\ payments[t] = NoRow /\ charge[t] \in {"exact", "wrong"}
  /\ \E reason \in Reasons \ {"DOUBLE_PAYMENT"} : RefundOrder(t, reason)
  /\ UNCHANGED <<charge, returned>>

DbPay(t) ==
  /\ payments[t] = NoRow /\ charge[t] = "exact"
  /\ Pay(t)
  /\ UNCHANGED <<charge, returned>>

DbNext ==
  \/ \E o \in Orders : \/ DbInsert(o)
                       \/ DbMove(o, "HELD", "CANCELLED", "order.cancelled")
                       \/ DbMove(o, "PAID", "TICKETED", "ticket.issued")
  \/ \E batch \in SUBSET Orders : DbExpire(batch)
  \/ \E t \in Txns : \/ DbCharge(t) \/ DbReturn(t) \/ DbComplete(t)
                     \/ DbIgnore(t) \/ DbDouble(t) \/ DbRefund(t) \/ DbPay(t)
  \/ UNCHANGED <<pgVars, charge, returned>>

(* The switch of decide, seen from its outcomes. *)
LEMMA DecideCases ==
  ASSUME NEW result \in {"failed", "exact", "wrong"}, NEW st \in Status, NEW active \in BOOLEAN
  PROVE  /\ Decide(result, st, active) = "ignore" => result = "failed"
         /\ Decide(result, st, active) # "ignore" => result \in {"exact", "wrong"}
         /\ Decide(result, st, active) \in {"onTime", "late"} =>
              result = "exact" /\ st \in {"HELD", "EXPIRED"}
BY Zenon DEF Decide

(* The three steps in which a webhook may commit. *)
LEMMA WebhookKinds ==
  ASSUME HandlerInv, NEW d \in Deliveries,
         WebhookDecide(d) \/ WebhookLateHold(d) \/ WebhookLateCommit(d)
  PROVE  /\ webhook[d].txn \in Txns
         /\ lock[WebhookOrder(d)] \in {None, d}
         /\ payments[webhook[d].txn] = NoRow
         /\ \/ DbIgnore(webhook[d].txn) \/ DbDouble(webhook[d].txn)
            \/ DbRefund(webhook[d].txn) \/ DbPay(webhook[d].txn)
            \/ UNCHANGED <<pgVars, charge, returned>>
<1> DEFINE t == webhook[d].txn
           o == OrderOf[t]
<1> USE RequestAssumption DEF HandlerInv, WebhookOrder
<1>1. t \in Txns /\ o \in Orders /\ charge[t] \in {"failed", "exact", "wrong"}
  BY Zenon DEF WebhookDecide, WebhookLateHold, WebhookLateCommit, FirstDelivery, TypeOK, ChargedFirst
<1>2. ASSUME FirstDelivery(d)
      PROVE  /\ payments[t] = NoRow /\ lock[o] = None
             /\ Decision(d) = "ignore" => charge[t] = "failed"
             /\ Decision(d) # "ignore" => charge[t] \in {"exact", "wrong"}
             /\ Decision(d) \in {"onTime", "late"} => charge[t] = "exact"
  <2>1. status[o] \in Status /\ HoldActive(d) \in BOOLEAN
    BY <1>1, <1>2 DEF FirstDelivery, TypeOK, HoldActive
  <2>2. QED
    BY Zenon, <1>1, <1>2, <2>1, DecideCases DEF FirstDelivery, Decision
<1>3. CASE WebhookDecide(d)
  <2>1. FirstDelivery(d) /\ UNCHANGED <<charge, returned>>
    BY Zenon, <1>3 DEF WebhookDecide
  <2>2. \/ /\ Decision(d) = "ignore"
           /\ SetOutcome(t, "IGNORED_FAILED")
           /\ UNCHANGED <<status, holdExpiresAt, tickets, refunds, outbox>>
        \/ /\ Decision(d) = "double"
           /\ RefundRequired(t, "DOUBLE_PAYMENT")
           /\ UNCHANGED <<status, holdExpiresAt, tickets>>
        \/ Decision(d) = "mismatch" /\ RefundOrder(t, "AMOUNT_MISMATCH")
        \/ Decision(d) = "onTime" /\ Pay(t)
        \/ Decision(d) = "onTime" /\ RefundOrder(t, "SEAT_CONFLICT")
        \/ Decision(d) = "cancelled" /\ RefundOrder(t, "PAID_AFTER_CANCEL")
    BY <1>3, Zenon DEF WebhookDecide
  <2>3. CASE /\ Decision(d) = "ignore"
             /\ SetOutcome(t, "IGNORED_FAILED")
             /\ UNCHANGED <<status, holdExpiresAt, tickets, refunds, outbox>>
    <3>1. DbIgnore(t)
      BY Zenon, <1>2, <2>1, <2>3 DEF DbIgnore
    <3>2. QED
      BY Zenon, <1>1, <1>2, <2>1, <3>1
  <2>4. CASE /\ Decision(d) = "double"
             /\ RefundRequired(t, "DOUBLE_PAYMENT")
             /\ UNCHANGED <<status, holdExpiresAt, tickets>>
    <3>1. DbDouble(t)
      BY Zenon, <1>2, <2>1, <2>4 DEF DbDouble
    <3>2. QED
      BY Zenon, <1>1, <1>2, <2>1, <3>1
  <2>5. CASE Decision(d) = "onTime" /\ Pay(t)
    <3>1. DbPay(t)
      BY Zenon, <1>2, <2>1, <2>5 DEF DbPay
    <3>2. QED
      BY Zenon, <1>1, <1>2, <2>1, <3>1
  <2>6. CASE \/ Decision(d) = "mismatch" /\ RefundOrder(t, "AMOUNT_MISMATCH")
             \/ Decision(d) = "onTime" /\ RefundOrder(t, "SEAT_CONFLICT")
             \/ Decision(d) = "cancelled" /\ RefundOrder(t, "PAID_AFTER_CANCEL")
    <3>1. \E reason \in Reasons \ {"DOUBLE_PAYMENT"} : RefundOrder(t, reason)
      BY Zenon, <2>6 DEF Reasons
    <3>2. charge[t] \in {"exact", "wrong"}
      BY Zenon, <1>2, <2>1, <2>6
    <3>3. DbRefund(t)
      BY Zenon, <1>2, <2>1, <3>1, <3>2 DEF DbRefund
    <3>4. QED
      BY Zenon, <1>1, <1>2, <2>1, <3>3
  <2>7. QED
    BY Zenon, <2>2, <2>3, <2>4, <2>5, <2>6
<1>4. CASE WebhookLateHold(d)
  <2>1. FirstDelivery(d) /\ Decision(d) = "late" /\ UNCHANGED <<charge, returned>>
    BY Zenon, <1>4 DEF WebhookLateHold
  <2>2. UNCHANGED pgVars \/ RefundOrder(t, "LATE_PAYMENT_SEAT_TAKEN")
    BY Zenon, <1>4 DEF WebhookLateHold
  <2>3. "LATE_PAYMENT_SEAT_TAKEN" \in Reasons \ {"DOUBLE_PAYMENT"}
    BY Zenon DEF Reasons
  <2>4. QED
    BY Zenon, <1>1, <1>2, <2>1, <2>2, <2>3 DEF DbRefund
<1>5. CASE WebhookLateCommit(d)
  <2>1. payments[t] = NoRow /\ lock[o] = d /\ charge[t] = "exact" /\ UNCHANGED <<charge, returned>>
    BY Zenon, <1>5 DEF WebhookLateCommit, LateUnderLock
  <2>2. Pay(t) \/ RefundOrder(t, "SEAT_CONFLICT")
    BY Zenon, <1>5 DEF WebhookLateCommit
  <2>3. "SEAT_CONFLICT" \in Reasons \ {"DOUBLE_PAYMENT"}
    BY Zenon DEF Reasons
  <2>4. QED
    BY Zenon, <1>1, <2>1, <2>2, <2>3 DEF DbRefund, DbPay
<1>6. QED
  BY Zenon, <1>3, <1>4, <1>5

(* Every step does one of these things to the tables and the gateway. *)
LEMMA StepKinds == HandlerInv /\ [Next]_vars => DbNext
<1> SUFFICES ASSUME HandlerInv, [Next]_vars
             PROVE  DbNext
  OBVIOUS
<1>1. ASSUME NEW o \in Orders, CreateInsert(o) PROVE DbNext
  <2>1. /\ status[o] = NoRow /\ UNCHANGED <<charge, returned>>
        /\ create[o].pc = "held" /\ create'[o].pc \in {"release", "done"}
    BY <1>1 DEF CreateInsert, HandlerInv, InsertOnce, TypeOK
  <2>2. \/ InsertHeld(o) /\ (create'[o].pc = "release" => MayFail)
        \/ UNCHANGED pgVars
    <3>1. \/ InsertHeld(o) /\ (create' = [create EXCEPT ![o] = [pc |-> "done", at |-> 0]] \/ MayFail)
          \/ UNCHANGED pgVars
      BY Zenon, <1>1 DEF CreateInsert
    <3>2. create' = [create EXCEPT ![o] = [pc |-> "done", at |-> 0]] => create'[o].pc = "done"
      BY DEF HandlerInv, TypeOK
    <3>3. QED
      BY Zenon, <3>1, <3>2
  <2>3. QED
    BY Zenon, <2>1, <2>2 DEF DbNext, DbInsert
<1>2. ASSUME NEW o \in Orders, Cancel(o) \/ Issue(o) PROVE DbNext
  BY Zenon, <1>2 DEF Cancel, Issue, Transition, DbNext, DbMove
<1>3. ASSUME NEW o \in Orders,
             CreateHold(o) \/ CreateRelease(o) \/ CreateFail(o) \/ CancelRelease(o) \/ CancelFail(o)
      PROVE  DbNext
  BY Zenon, <1>3 DEF CreateHold, CreateRelease, CreateFail, CancelRelease, CancelFail, DbNext
<1>4. ASSUME NEW t \in Txns, Charge(t) \/ RefundCall(t) PROVE DbNext
  BY Zenon, <1>4 DEF RefundCall, DbNext, DbCharge, DbReturn
<1>5. ASSUME NEW t \in Txns, RefundComplete(t) PROVE DbNext
  <2>1. DbComplete(t)
    BY Zenon, <1>5 DEF RefundComplete, Transition, DbComplete
  <2>2. QED
    BY Zenon, <2>1 DEF DbNext
<1>6. ASSUME NEW d \in Deliveries, WebhookDecide(d) \/ WebhookLateHold(d) \/ WebhookLateCommit(d)
      PROVE  DbNext
  BY Zenon, <1>6, WebhookKinds DEF DbNext
<1>7. ASSUME NEW d \in Deliveries,
             \/ \E t \in Txns : WebhookBegin(d, t)
             \/ WebhookUnknownOrder(d) \/ WebhookDuplicate(d)
             \/ WebhookConfirm(d) \/ WebhookRelease(d) \/ WebhookFail(d)
      PROVE  DbNext
  BY Zenon, <1>7 DEF WebhookBegin, WebhookUnknownOrder, WebhookDuplicate, WebhookConfirm, WebhookRelease,
     WebhookFail, DbNext
<1>8. ASSUME NEW w \in Workers, Expire(w) PROVE DbNext
  <2>1. PICK batch \in Batches(Due) :
          /\ status' = [o \in Orders |-> IF o \in batch THEN "EXPIRED" ELSE status[o]]
          /\ Emit({OrderEvent("order.expired", o) : o \in batch})
    BY Zenon, <1>8 DEF Expire
  <2>2. batch \in SUBSET Orders /\ \A o \in batch : status[o] = "HELD"
    BY Zenon DEF Batches, Due
  <2>3. DbExpire(batch)
    BY Zenon, <1>8, <2>1, <2>2 DEF Expire, DbExpire
  <2>4. QED
    BY Zenon, <2>2, <2>3 DEF DbNext
<1>9. ASSUME NEW w \in Workers, SweepLock(w) \/ SweepRelease(w) \/ SweepDone(w) \/ SweepFail(w)
      PROVE  DbNext
  BY Zenon, <1>9 DEF SweepLock, SweepRelease, SweepDone, SweepFail, DbNext
<1>10. CASE Tick \/ UNCHANGED vars
  BY Zenon, <1>10 DEF Tick, vars, pgVars, DbNext
<1>11. QED
  BY Zenon, <1>1, <1>2, <1>3, <1>4, <1>5, <1>6, <1>7, <1>8, <1>9, <1>10
     DEF Next, CreateNext, CancelNext, WebhookNext, WebhookHandle, SweepNext, RefundNext

(* A webhook request that moves on leaves the others where they are, and   *)
(* keeps its transaction until it ends.                                    *)
LEMMA GotoFacts ==
  ASSUME TypeOK, NEW d \in Deliveries, NEW pc, WebhookGoto(d, pc)
  PROVE  /\ \A e \in Deliveries \ {d} : webhook'[e] = webhook[e]
         /\ webhook'[d].pc = pc
         /\ pc # "idle" => webhook'[d].txn = webhook[d].txn /\ webhook'[d].now = webhook[d].now
BY Zenon DEF TypeOK, WebhookState, WebhookGoto, IdleWebhook

(* A create request that has not come to its insert has no row. *)
LEMMA InsertOnceStep == HandlerInv /\ [Next]_vars => InsertOnce'
<1> SUFFICES ASSUME HandlerInv, [Next]_vars, NEW o \in Orders, create'[o].pc \in {"idle", "held"}
             PROVE  status'[o] = NoRow
  BY Zenon DEF InsertOnce
<1> USE RequestAssumption DEF HandlerInv
<1>1. create[o].pc \in {"idle", "held"}
  <2>1. ASSUME NEW p \in Orders, CreateNext(p) PROVE create[o].pc \in {"idle", "held"}
    BY <2>1 DEF CreateNext, CreateHold, CreateInsert, CreateRelease, CreateFail, TypeOK
  <2>2. CASE UNCHANGED create
    BY Zenon, <2>2
  <2>3. QED
    BY Zenon, <2>1, <2>2 DEF Next, CancelNext, Cancel, CancelRelease, CancelFail, Issue, RefundNext, Charge,
       RefundCall, RefundComplete, WebhookNext, WebhookHandle, WebhookBegin, WebhookUnknownOrder,
       WebhookDuplicate, WebhookDecide, WebhookLateHold, WebhookLateCommit, WebhookConfirm,
       WebhookRelease, WebhookFail, SweepNext, Expire, SweepLock, SweepRelease, SweepDone, SweepFail,
       Tick, vars
<1>2. status[o] = NoRow
  BY Zenon, <1>1 DEF InsertOnce
<1>3. ASSUME NEW p \in Orders, DbInsert(p) PROVE status'[o] = NoRow
  BY Zenon, <1>2, <1>3 DEF DbInsert, InsertHeld, TypeOK
<1>4. ASSUME NEW p \in Orders, NEW to, Transition(p, to) PROVE status'[o] = NoRow
  BY Zenon, <1>2, <1>4 DEF Transition, CanTransition, transitions, NoRow, TypeOK
<1>5. ASSUME NEW p \in Orders, \/ DbMove(p, "HELD", "CANCELLED", "order.cancelled")
                               \/ DbMove(p, "PAID", "TICKETED", "ticket.issued")
      PROVE  status'[o] = NoRow
  BY Zenon, <1>2, <1>5 DEF DbMove, NoRow, TypeOK
<1>6. ASSUME NEW batch \in SUBSET Orders, DbExpire(batch) PROVE status'[o] = NoRow
  BY Zenon, <1>2, <1>6 DEF DbExpire, NoRow
<1>7. ASSUME NEW t \in Txns, DbComplete(t) PROVE status'[o] = NoRow
  BY Zenon, <1>2, <1>7 DEF DbComplete, NoRow, TypeOK
<1>8. ASSUME NEW t \in Txns, DbRefund(t) \/ DbPay(t) PROVE status'[o] = NoRow
  BY Zenon, <1>4, <1>8 DEF DbRefund, DbPay, Pay, RefundOrder
<1>9. ASSUME NEW t \in Txns, DbCharge(t) \/ DbReturn(t) \/ DbIgnore(t) \/ DbDouble(t)
      PROVE  status'[o] = NoRow
  BY Zenon, <1>2, <1>9 DEF DbCharge, Charge, DbReturn, DbIgnore, DbDouble, pgVars
<1>10. QED
  BY Zenon, <1>2, <1>3, <1>5, <1>6, <1>7, <1>8, <1>9, StepKinds DEF DbNext, pgVars

(* A webhook keeps its transaction, and a completed payment stays so. *)
LEMMA ChargedFirstStep == HandlerInv /\ [Next]_vars => ChargedFirst'
<1> SUFFICES ASSUME HandlerInv, [Next]_vars, NEW e \in Deliveries, webhook'[e].pc # "idle"
             PROVE  charge'[webhook'[e].txn] # "none"
  BY Zenon DEF ChargedFirst
<1> USE RequestAssumption DEF HandlerInv
<1>1. ASSUME NEW t \in Txns, Charge(t) PROVE charge'[webhook'[e].txn] # "none"
  BY Zenon, <1>1 DEF Charge, ChargedFirst, TypeOK
<1>2. ASSUME NEW d \in Deliveries, NEW t \in Txns, WebhookBegin(d, t)
      PROVE  charge'[webhook'[e].txn] # "none"
  BY Zenon, <1>2 DEF WebhookBegin, ChargedFirst, TypeOK
<1>3. ASSUME NEW d \in Deliveries, WebhookHandle(d) \/ WebhookFail(d)
      PROVE  charge'[webhook'[e].txn] # "none"
  <2>1. webhook[d].pc # "idle" /\ UNCHANGED charge
    BY Zenon, <1>3 DEF WebhookHandle, WebhookUnknownOrder, WebhookDuplicate, WebhookDecide,
       FirstDelivery, WebhookLateHold, WebhookLateCommit, WebhookConfirm, WebhookRelease, WebhookFail
  <2>2. \E pc : WebhookGoto(d, pc)
    BY <1>3, Zenon DEF WebhookHandle, WebhookUnknownOrder, WebhookDuplicate, WebhookDecide,
       WebhookLateHold, WebhookLateCommit, WebhookConfirm, WebhookRelease, WebhookFail
  <2>3. QED
    BY <2>1, <2>2, GotoFacts DEF ChargedFirst
<1>4. CASE UNCHANGED <<charge, webhook>>
  BY Zenon, <1>4 DEF ChargedFirst
<1>5. QED
  BY Zenon, <1>1, <1>2, <1>3, <1>4 DEF Next, CreateNext, CreateHold, CreateInsert, CreateRelease, CreateFail,
     CancelNext, Cancel, CancelRelease, CancelFail, Issue, RefundNext, RefundCall, RefundComplete,
     WebhookNext, SweepNext, Expire, SweepLock, SweepRelease, SweepDone, SweepFail, Tick, vars

(* The row lock keeps every other handler away from the order of a late    *)
(* payment while it is in Redis.                                           *)
LEMMA LateUnderLockStep == HandlerInv /\ [Next]_vars => LateUnderLock'
<1> SUFFICES ASSUME HandlerInv, [Next]_vars, NEW e \in Deliveries, webhook'[e].pc = "reheld"
             PROVE  /\ lock'[OrderOf[webhook'[e].txn]] = e
                    /\ status'[OrderOf[webhook'[e].txn]] \in {"HELD", "EXPIRED"}
                    /\ payments'[webhook'[e].txn] = NoRow
                    /\ charge'[webhook'[e].txn] = "exact"
  BY Zenon DEF LateUnderLock, WebhookOrder
<1> DEFINE t == webhook[e].txn
           o == OrderOf[t]
           Same == /\ webhook'[e] = webhook[e]
                   /\ lock'[o] = lock[o] /\ status'[o] = status[o]
                   /\ payments'[t] = payments[t] /\ charge'[t] = charge[t]
           Goal == /\ lock'[OrderOf[webhook'[e].txn]] = e
                   /\ status'[OrderOf[webhook'[e].txn]] \in {"HELD", "EXPIRED"}
                   /\ payments'[webhook'[e].txn] = NoRow
                   /\ charge'[webhook'[e].txn] = "exact"
<1> USE RequestAssumption, NamesAssumption DEF HandlerInv
<1>1. ASSUME Same PROVE Goal
  BY <1>1 DEF LateUnderLock, WebhookOrder
<1>2. ASSUME webhook[e].pc = "reheld"
      PROVE  /\ t \in Txns /\ o \in Orders /\ lock[o] = e /\ e # None
             /\ status[o] \in {"HELD", "EXPIRED"} /\ payments[t] = NoRow /\ charge[t] = "exact"
  BY <1>2 DEF LateUnderLock, WebhookOrder, TypeOK
<1>3. ASSUME NEW p \in Orders, CreateNext(p) PROVE Same
  <2>1. UNCHANGED <<webhook, lock, charge, payments>>
    BY Zenon, <1>3 DEF CreateNext, CreateHold, CreateInsert, InsertHeld, CreateRelease, CreateFail, pgVars
  <2>2. status'[o] = status[o]
    BY <1>2, <1>3, <2>1 DEF CreateNext, CreateHold, CreateInsert, InsertHeld, CreateRelease, CreateFail,
       pgVars, InsertOnce, NoRow, TypeOK
  <2>3. QED
    BY Zenon, <2>1, <2>2
<1>4. ASSUME NEW p \in Orders, CancelNext(p) \/ Issue(p) PROVE Same
  <2>1. UNCHANGED <<webhook, lock, charge, payments>>
    BY Zenon, <1>4 DEF CancelNext, Cancel, CancelRelease, CancelFail, Issue, pgVars
  <2>2. status'[o] = status[o]
    BY Zenon, <1>2, <1>4, <2>1 DEF CancelNext, Cancel, CancelRelease, CancelFail, Issue, Transition, pgVars, TypeOK
  <2>3. QED
    BY Zenon, <2>1, <2>2
<1>5. ASSUME NEW u \in Txns, Charge(u) \/ RefundCall(u) PROVE Same
  BY Zenon, <1>2, <1>5 DEF Charge, RefundCall, pgVars, TypeOK
<1>6. ASSUME NEW u \in Txns, RefundComplete(u) PROVE Same
  <2>1. UNCHANGED <<webhook, lock, charge, payments>> /\ lock[OrderOf[u]] = None
    BY Zenon, <1>6 DEF RefundComplete
  <2>2. status'[o] = status[o]
    BY Zenon, <1>2, <1>6, <2>1 DEF RefundComplete, Transition, TypeOK
  <2>3. QED
    BY Zenon, <2>1, <2>2
<1>7. ASSUME NEW d \in Deliveries, NEW u \in Txns, WebhookBegin(d, u) PROVE Same
  BY Zenon, <1>7 DEF WebhookBegin, pgVars, TypeOK
<1>8. ASSUME NEW d \in Deliveries, \/ WebhookUnknownOrder(d) \/ WebhookDuplicate(d)
                                   \/ WebhookConfirm(d) \/ WebhookRelease(d)
      PROVE  Same
  <2>1. WebhookGoto(d, "idle") \/ WebhookGoto(d, "confirm")
    BY Zenon, <1>8 DEF WebhookUnknownOrder, WebhookDuplicate, WebhookConfirm, WebhookRelease
  <2>2. webhook'[e] = webhook[e]
    BY Zenon, <2>1, GotoFacts
  <2>3. QED
    BY Zenon, <1>8, <2>2 DEF WebhookUnknownOrder, WebhookDuplicate, WebhookConfirm, WebhookRelease, pgVars
<1>9. ASSUME NEW d \in Deliveries, WebhookFail(d) PROVE Same
  <2>1. webhook'[e] = webhook[e] /\ d # e
    BY <1>9, GotoFacts DEF WebhookFail
  <2>2. lock'[o] = lock[o]
    BY Zenon, <1>2, <1>9, <2>1 DEF WebhookFail, Unlocked
  <2>3. QED
    BY Zenon, <1>9, <2>1, <2>2 DEF WebhookFail, pgVars
<1>10. ASSUME NEW d \in Deliveries \ {e},
              WebhookDecide(d) \/ WebhookLateHold(d) \/ WebhookLateCommit(d)
       PROVE  Same
  <2> DEFINE u == webhook[d].txn
             p == OrderOf[u]
  <2>1. \E pc : WebhookGoto(d, pc)
    BY <1>10, Zenon DEF WebhookDecide, WebhookLateHold, WebhookLateCommit
  <2>2. webhook'[e] = webhook[e]
    BY Zenon, <2>1, GotoFacts
  <2>3. u \in Txns /\ p \in Orders /\ lock[p] # e /\ p # o /\ u # t
    BY <1>2, <1>10, <2>2, WebhookKinds DEF WebhookOrder
  <2>4. lock'[o] = lock[o]
    BY <1>2, <1>10, <2>2, <2>3, Zenon DEF WebhookDecide, WebhookLateHold, WebhookLateCommit, Unlocked, TypeOK
  <2>5. status'[o] = status[o] /\ payments'[t] = payments[t] /\ charge'[t] = charge[t]
    <3>1. DbIgnore(u) \/ DbDouble(u) \/ DbRefund(u) \/ DbPay(u) \/ UNCHANGED <<pgVars, charge, returned>>
      BY Zenon, <1>10, WebhookKinds
    <3>2. CASE DbIgnore(u) \/ DbDouble(u)
      BY <1>2, <2>2, <2>3, <3>2 DEF DbIgnore, DbDouble, RefundRequired, SetOutcome, TypeOK
    <3>3. CASE DbRefund(u) \/ DbPay(u)
      <4>1. \E to, outcome : /\ status' = [status EXCEPT ![p] = to] /\ payments' = [payments EXCEPT ![u] = outcome]
                            /\ charge' = charge
        BY Zenon, <3>3 DEF DbRefund, DbPay, Pay, RefundOrder, RefundRequired, SetOutcome, Transition
      <4>2. QED
        BY <1>2, <2>3, <4>1 DEF TypeOK
    <3>4. QED
      BY Zenon, <3>1, <3>2, <3>3 DEF pgVars
  <2>6. QED
    BY Zenon, <2>2, <2>4, <2>5
<1>11. ASSUME WebhookDecide(e) \/ WebhookLateHold(e) \/ WebhookLateCommit(e) PROVE Goal
  <2>1. CASE WebhookLateHold(e) /\ WebhookGoto(e, "reheld")
    <3>1. webhook'[e].txn = t /\ t \in Txns /\ o \in Orders
      BY Zenon, <2>1, GotoFacts, WebhookKinds
    <3>2. /\ lock' = [lock EXCEPT ![o] = e] /\ UNCHANGED pgVars /\ UNCHANGED charge
          /\ FirstDelivery(e) /\ Decision(e) = "late"
      <4>1. ~ WebhookGoto(e, "idle")
        BY <2>1, GotoFacts
      <4>2. QED
        BY Zenon, <2>1, <4>1 DEF WebhookLateHold
    <3>3. status[o] \in Status /\ charge[t] \in {"failed", "exact", "wrong"} /\ payments[t] = NoRow
      BY Zenon, <3>1, <3>2 DEF FirstDelivery, WebhookOrder, TypeOK, ChargedFirst
    <3>4. charge[t] = "exact" /\ status[o] \in {"HELD", "EXPIRED"}
      <4>1. HoldActive(e) \in BOOLEAN
        BY DEF HoldActive
      <4>2. QED
        BY Zenon, <3>2, <3>3, <4>1, DecideCases DEF Decision, WebhookOrder
    <3>5. QED
      BY Zenon, <3>1, <3>2, <3>3, <3>4 DEF pgVars, TypeOK
  <2>2. CASE ~ WebhookGoto(e, "reheld")
    <3>1. \E pc \in {"idle", "confirm", "release"} : WebhookGoto(e, pc)
      BY <1>11, <2>2, Zenon DEF WebhookDecide, WebhookLateHold, WebhookLateCommit
    <3>2. QED
      BY Zenon, <3>1, GotoFacts
  <2>3. CASE WebhookDecide(e) \/ WebhookLateCommit(e)
    <3>1. \E pc \in {"idle", "confirm", "release"} : WebhookGoto(e, pc)
      BY <2>3, Zenon DEF WebhookDecide, WebhookLateCommit
    <3>2. QED
      BY Zenon, <3>1, GotoFacts
  <2>4. QED
    BY Zenon, <1>11, <2>1, <2>2, <2>3
<1>12. ASSUME NEW w \in Workers, Expire(w) PROVE Same
  <2>1. PICK batch \in Batches(Due) :
          status' = [p \in Orders |-> IF p \in batch THEN "EXPIRED" ELSE status[p]]
    BY Zenon, <1>12 DEF Expire
  <2>2. UNCHANGED <<webhook, lock, charge, payments>>
    BY Zenon, <1>12 DEF Expire
  <2>3. o \in Orders /\ o \notin batch
    BY Zenon, <1>2, <2>2 DEF Batches, Due
  <2>4. QED
    BY Zenon, <2>1, <2>2, <2>3
<1>13. ASSUME NEW w \in Workers, SweepLock(w) \/ SweepRelease(w) \/ SweepDone(w) \/ SweepFail(w)
       PROVE  Same
  <2>1. UNCHANGED <<webhook, charge, pgVars>>
    BY Zenon, <1>13 DEF SweepLock, SweepRelease, SweepDone, SweepFail
  <2>2. lock'[o] = lock[o]
    BY <1>2, <1>13, <2>1 DEF SweepLock, SweepRelease, SweepDone, SweepFail, Unlocked
  <2>3. QED
    BY Zenon, <2>1, <2>2 DEF pgVars
<1>14. ASSUME Tick \/ UNCHANGED vars PROVE Same
  BY Zenon, <1>14 DEF Tick, vars, pgVars
<1>15. Same \/ Goal
  <2> HIDE RequestAssumption, NamesAssumption DEF Same, Goal, HandlerInv
  <2>1. CASE \E p \in Orders : CreateNext(p) \/ CancelNext(p) \/ Issue(p)
    BY Zenon, <1>3, <1>4, <2>1
  <2>2. CASE \E u \in Txns : Charge(u) \/ RefundNext(u)
    BY Zenon, <1>5, <1>6, <2>2 DEF RefundNext
  <2>3. ASSUME NEW d \in Deliveries, WebhookNext(d) PROVE Same \/ Goal
    <3>1. CASE WebhookDecide(d) \/ WebhookLateHold(d) \/ WebhookLateCommit(d)
      BY Zenon, <1>10, <1>11, <3>1
    <3>2. QED
      BY Zenon, <1>7, <1>8, <1>9, <2>3, <3>1 DEF WebhookNext, WebhookHandle
  <2>4. CASE \E w \in Workers : SweepNext(w)
    BY Zenon, <1>12, <1>13, <2>4 DEF SweepNext
  <2>5. QED
    BY Zenon, <1>14, <2>1, <2>2, <2>3, <2>4 DEF Next
<1>16. QED
  BY Zenon, <1>1, <1>15

-----------------------------------------------------------------------------
(* The tables and the gateway agree.                                       *)

(* What is recorded of a transaction agrees with what the gateway did. *)
Ledger ==
  \A t \in Txns :
    /\ payments[t] # NoRow => charge[t] # "none"
    /\ payments[t] = "APPLIED" => charge[t] = "exact"
    /\ payments[t] = "IGNORED_FAILED" => charge[t] = "failed"
    /\ payments[t] = "REFUND_REQUIRED" <=> refunds[t].status # "NO_ROW"
    /\ refunds[t].status = "NO_ROW" <=> refunds[t].reason = "NONE"
    /\ t \in returned => refunds[t].status # "NO_ROW"
    /\ refunds[t].status = "SUCCEEDED" => t \in returned

(* One payment buys an order, and only a sold order was bought. *)
OneBuyer ==
  /\ \A t \in Txns : payments[t] = "APPLIED" => status[OrderOf[t]] \in Sold
  /\ \A t, u \in Txns :
       payments[t] = "APPLIED" /\ payments[u] = "APPLIED" /\ OrderOf[t] = OrderOf[u] => t = u
  /\ \A o \in Orders : status[o] \in Sold => \E t \in Txns : OrderOf[t] = o /\ payments[t] = "APPLIED"

(* A refund other than a double payment's is the only one of its order,    *)
(* and the order is being refunded until that refund has succeeded.        *)
Decisive(t) == refunds[t].reason \notin {"NONE", "DOUBLE_PAYMENT"}

OneRefund ==
  /\ \A t \in Txns : Decisive(t) =>
       status[OrderOf[t]] = IF refunds[t].status = "PENDING" THEN "REFUNDING" ELSE "REFUNDED"
  /\ \A t, u \in Txns : Decisive(t) /\ Decisive(u) /\ OrderOf[t] = OrderOf[u] => t = u
  /\ \A o \in Orders : status[o] \in {"REFUNDING", "REFUNDED"} =>
       \E t \in Txns : OrderOf[t] = o /\ Decisive(t)
  /\ \A t \in Txns : refunds[t].status # "NO_ROW" => RefundEvent("order.refund_requested", t) \in outbox

(* An event in the outbox tells of something that has happened. *)
Announced ==
  /\ \A o \in Orders :
       /\ OrderEvent("order.held", o) \in outbox => status[o] # NoRow
       /\ OrderEvent("order.cancelled", o) \in outbox => status[o] \in {"CANCELLED", "REFUNDING", "REFUNDED"}
       /\ OrderEvent("order.expired", o) \in outbox => status[o] \in {"EXPIRED", "REFUNDING", "REFUNDED"} \cup Sold
       /\ OrderEvent("order.paid", o) \in outbox => status[o] \in Sold
       /\ OrderEvent("ticket.issued", o) \in outbox => status[o] = "TICKETED"
  /\ \A t \in Txns :
       /\ RefundEvent("order.refund_requested", t) \in outbox => refunds[t].status # "NO_ROW"
       /\ RefundEvent("order.refunded", t) \in outbox => refunds[t].status = "SUCCEEDED"

TableInv == Ledger /\ OneBuyer /\ OneRefund /\ Announced /\ TicketsMatchStatus /\ NoDoubleSell

IInv == HandlerInv /\ TableInv

(* One entry of a table changes, the others stay. *)
Moves(o, to) == status'[o] = to /\ \A p \in Orders \ {o} : status'[p] = status[p]

Records(t, outcome) == payments'[t] = outcome /\ \A u \in Txns \ {t} : payments'[u] = payments[u]

Files(t, st, reason) ==
  /\ refunds'[t].status = st /\ refunds'[t].reason = reason
  /\ \A u \in Txns \ {t} : refunds'[u] = refunds[u]

(* What a new order does to the tables. *)
LEMMA InsertEffect ==
  ASSUME TypeOK, NEW o \in Orders, DbInsert(o)
  PROVE  /\ status[o] = NoRow /\ Moves(o, "HELD")
         /\ outbox' = outbox \cup {OrderEvent("order.held", o)}
         /\ UNCHANGED <<tickets, payments, refunds, charge, returned>>
BY Zenon DEF DbInsert, InsertHeld, Emit, Moves, TypeOK

(* What cancelling an order and issuing its tickets do. *)
LEMMA MoveEffect ==
  ASSUME TypeOK, NEW o \in Orders, NEW from, NEW to, NEW type, DbMove(o, from, to, type)
  PROVE  /\ status[o] = from /\ Moves(o, to)
         /\ outbox' = outbox \cup {OrderEvent(type, o)}
         /\ UNCHANGED <<tickets, payments, refunds, charge, returned>>
BY Zenon DEF DbMove, Emit, Moves, TypeOK

(* What expiring a batch does. *)
LEMMA ExpireEffect ==
  ASSUME NEW batch \in SUBSET Orders, DbExpire(batch)
  PROVE  /\ \A o \in batch : status[o] = "HELD" /\ status'[o] = "EXPIRED"
         /\ \A o \in Orders \ batch : status'[o] = status[o]
         /\ outbox' = outbox \cup {OrderEvent("order.expired", o) : o \in batch}
         /\ UNCHANGED <<tickets, payments, refunds, charge, returned>>
BY Zenon DEF DbExpire, Emit

(* What a failed payment does. *)
LEMMA IgnoreEffect ==
  ASSUME TypeOK, NEW t \in Txns, DbIgnore(t)
  PROVE  /\ payments[t] = NoRow /\ charge[t] = "failed" /\ Records(t, "IGNORED_FAILED")
         /\ UNCHANGED <<status, tickets, refunds, outbox, charge, returned>>
BY Zenon DEF DbIgnore, SetOutcome, Records, TypeOK

(* What a sale does to orders, payments and events. *)
LEMMA PayEffect ==
  ASSUME TypeOK, NEW t \in Txns, DbPay(t)
  PROVE  /\ OrderOf[t] \in Orders
         /\ payments[t] = NoRow /\ charge[t] = "exact" /\ Records(t, "APPLIED")
         /\ status[OrderOf[t]] \in {"HELD", "EXPIRED"} /\ Moves(OrderOf[t], "PAID")
         /\ outbox' = outbox \cup {OrderEvent("order.paid", OrderOf[t])}
         /\ UNCHANGED <<refunds, charge, returned>>
<1>1. OrderOf[t] \in Orders
  BY Zenon, RequestAssumption
<1>2. status[OrderOf[t]] \in {"HELD", "EXPIRED"} /\ Moves(OrderOf[t], "PAID")
  BY Zenon, <1>1 DEF DbPay, Pay, Transition, CanTransition, transitions, Moves, TypeOK
<1>3. Records(t, "APPLIED")
  BY Zenon DEF DbPay, Pay, SetOutcome, Records, TypeOK
<1>4. QED
  BY Zenon, <1>1, <1>2, <1>3 DEF DbPay, Pay, Emit

(* What a sale does to the tickets: the seats of the order had none. *)
LEMMA PayTickets ==
  ASSUME NEW t \in Txns, DbPay(t)
  PROVE  /\ SeatsOf[OrderOf[t]] \subseteq Seats
         /\ tickets' = tickets \cup {<<s, OrderOf[t]>> : s \in SeatsOf[OrderOf[t]]}
         /\ \A row \in tickets : row[1] \notin SeatsOf[OrderOf[t]]
BY Zenon, RequestAssumption DEF DbPay, Pay, SeatConflict

(* What recording a refund does to payments, refunds and events. *)
LEMMA RequiredEffect ==
  ASSUME TypeOK, NEW t \in Txns, NEW reason \in Reasons, RefundRequired(t, reason)
  PROVE  /\ Records(t, "REFUND_REQUIRED") /\ Files(t, "PENDING", reason)
         /\ outbox' = outbox \cup {RefundEvent("order.refund_requested", t)}
<1>1. Records(t, "REFUND_REQUIRED")
  BY Zenon DEF RefundRequired, SetOutcome, Records, TypeOK
<1>2. Files(t, "PENDING", reason)
  BY Zenon DEF RefundRequired, Files, TypeOK
<1>3. QED
  BY Zenon, <1>1, <1>2 DEF RefundRequired, Emit

(* What refunding an order does. *)
LEMMA RefundEffect ==
  ASSUME TypeOK, NEW t \in Txns, DbRefund(t)
  PROVE  /\ OrderOf[t] \in Orders
         /\ payments[t] = NoRow /\ charge[t] \in {"exact", "wrong"} /\ Records(t, "REFUND_REQUIRED")
         /\ status[OrderOf[t]] \in {"HELD", "EXPIRED", "CANCELLED"} /\ Moves(OrderOf[t], "REFUNDING")
         /\ \E reason \in Reasons \ {"DOUBLE_PAYMENT"} : Files(t, "PENDING", reason)
         /\ outbox' = outbox \cup {RefundEvent("order.refund_requested", t)}
         /\ UNCHANGED <<tickets, charge, returned>>
<1>1. OrderOf[t] \in Orders
  BY Zenon, RequestAssumption
<1>2. PICK reason \in Reasons \ {"DOUBLE_PAYMENT"} : RefundOrder(t, reason)
  BY Zenon DEF DbRefund
<1>3. status[OrderOf[t]] \in {"HELD", "EXPIRED", "CANCELLED"} /\ Moves(OrderOf[t], "REFUNDING")
  BY Zenon, <1>1, <1>2 DEF RefundOrder, Transition, CanTransition, transitions, Moves, TypeOK
<1>4. RefundRequired(t, reason) /\ UNCHANGED tickets
  BY Zenon, <1>2 DEF RefundOrder
<1>5. /\ Records(t, "REFUND_REQUIRED") /\ Files(t, "PENDING", reason)
      /\ outbox' = outbox \cup {RefundEvent("order.refund_requested", t)}
  BY Zenon, <1>4, RequiredEffect
<1>6. QED
  BY Zenon, <1>1, <1>3, <1>4, <1>5 DEF DbRefund

(* What refunding a second payment does: the order stays as it is. *)
LEMMA DoubleEffect ==
  ASSUME TypeOK, NEW t \in Txns, DbDouble(t)
  PROVE  /\ payments[t] = NoRow /\ charge[t] \in {"exact", "wrong"} /\ Records(t, "REFUND_REQUIRED")
         /\ Files(t, "PENDING", "DOUBLE_PAYMENT")
         /\ outbox' = outbox \cup {RefundEvent("order.refund_requested", t)}
         /\ UNCHANGED <<status, tickets, charge, returned>>
BY Zenon, RequiredEffect DEF DbDouble, Reasons

(* What completing a refund does: only an order's own refund moves it. *)
LEMMA CompleteEffect ==
  ASSUME TypeOK, NEW t \in Txns, DbComplete(t)
  PROVE  /\ t \in returned /\ refunds[t].status = "PENDING" /\ OrderOf[t] \in Orders
         /\ Files(t, "SUCCEEDED", refunds[t].reason)
         /\ \/ /\ refunds[t].reason # "DOUBLE_PAYMENT" /\ status[OrderOf[t]] = "REFUNDING"
               /\ Moves(OrderOf[t], "REFUNDED")
            \/ /\ ~ (refunds[t].reason # "DOUBLE_PAYMENT" /\ status[OrderOf[t]] = "REFUNDING")
               /\ UNCHANGED status
         /\ outbox' = outbox \cup {RefundEvent("order.refunded", t)}
         /\ UNCHANGED <<tickets, payments, charge, returned>>
<1>1. OrderOf[t] \in Orders
  BY Zenon, RequestAssumption
<1>2. Files(t, "SUCCEEDED", refunds[t].reason)
  BY Zenon DEF DbComplete, Files, TypeOK, Refund
<1>3. \/ /\ refunds[t].reason # "DOUBLE_PAYMENT" /\ status[OrderOf[t]] = "REFUNDING"
         /\ Moves(OrderOf[t], "REFUNDED")
      \/ /\ ~ (refunds[t].reason # "DOUBLE_PAYMENT" /\ status[OrderOf[t]] = "REFUNDING")
         /\ UNCHANGED status
  BY Zenon, <1>1 DEF DbComplete, Moves, TypeOK
<1>4. QED
  BY Zenon, <1>1, <1>2, <1>3 DEF DbComplete, Emit

(* No step breaks the agreement of payments, refunds and gateway. *)
LEMMA LedgerStep ==
  ASSUME TypeOK, Ledger, DbNext
  PROVE  Ledger'
<1> USE DEF Ledger
<1>1. ASSUME NEW o \in Orders, \/ DbInsert(o)
                               \/ DbMove(o, "HELD", "CANCELLED", "order.cancelled")
                               \/ DbMove(o, "PAID", "TICKETED", "ticket.issued")
      PROVE  Ledger'
  BY <1>1, InsertEffect, MoveEffect
<1>2. ASSUME NEW batch \in SUBSET Orders, DbExpire(batch) PROVE Ledger'
  BY <1>2, ExpireEffect
<1>3. ASSUME NEW t \in Txns, DbCharge(t) PROVE Ledger'
  BY <1>3 DEF DbCharge, Charge, pgVars, TypeOK
<1>4. ASSUME NEW t \in Txns, DbReturn(t) PROVE Ledger'
  BY Zenon, <1>4 DEF DbReturn, pgVars, TypeOK
<1>5. ASSUME NEW t \in Txns, DbComplete(t) PROVE Ledger'
  BY <1>5, CompleteEffect DEF Files
<1>6. ASSUME NEW t \in Txns, DbIgnore(t) PROVE Ledger'
  BY <1>6, IgnoreEffect DEF Records, NoRow
<1>7. ASSUME NEW t \in Txns, DbDouble(t) PROVE Ledger'
  BY <1>7, DoubleEffect DEF Records, Files, NoRow
<1>8. ASSUME NEW t \in Txns, DbRefund(t) PROVE Ledger'
  BY <1>8, RefundEffect DEF Records, Files, NoRow, Reasons
<1>9. ASSUME NEW t \in Txns, DbPay(t) PROVE Ledger'
  BY <1>9, PayEffect DEF Records, NoRow
<1>10. CASE UNCHANGED <<pgVars, charge, returned>>
  BY Zenon, <1>10 DEF pgVars
<1>11. QED
  BY Zenon, <1>1, <1>2, <1>3, <1>4, <1>5, <1>6, <1>7, <1>8, <1>9, <1>10 DEF DbNext

(* No step gives a sold order a second payment, or an unsold one its first. *)
LEMMA OneBuyerStep ==
  ASSUME TypeOK, Ledger, OneBuyer, DbNext
  PROVE  OneBuyer'
<1> USE RequestAssumption DEF OneBuyer, Sold
<1>1. ASSUME NEW o \in Orders, \/ DbInsert(o)
                               \/ DbMove(o, "HELD", "CANCELLED", "order.cancelled")
                               \/ DbMove(o, "PAID", "TICKETED", "ticket.issued")
      PROVE  OneBuyer'
  BY <1>1, InsertEffect, MoveEffect DEF Moves, NoRow
<1>2. ASSUME NEW batch \in SUBSET Orders, DbExpire(batch) PROVE OneBuyer'
  BY <1>2, ExpireEffect
<1>3. ASSUME NEW t \in Txns, DbCharge(t) \/ DbReturn(t) PROVE OneBuyer'
  BY <1>3 DEF DbCharge, Charge, DbReturn, pgVars
<1>4. ASSUME NEW t \in Txns, DbComplete(t) PROVE OneBuyer'
  BY <1>4, CompleteEffect DEF Moves
<1>5. ASSUME NEW t \in Txns, DbIgnore(t) PROVE OneBuyer'
  BY <1>5, IgnoreEffect DEF Records, NoRow
<1>6. ASSUME NEW t \in Txns, DbDouble(t) PROVE OneBuyer'
  BY <1>6, DoubleEffect DEF Records, NoRow
<1>7. ASSUME NEW t \in Txns, DbRefund(t) PROVE OneBuyer'
  BY <1>7, RefundEffect DEF Records, Moves, NoRow
<1>8. ASSUME NEW t \in Txns, DbPay(t) PROVE OneBuyer'
  BY <1>8, PayEffect DEF Records, Moves, NoRow
<1>9. CASE UNCHANGED <<pgVars, charge, returned>>
  BY <1>9 DEF pgVars
<1>10. QED
  BY Zenon, <1>1, <1>2, <1>3, <1>4, <1>5, <1>6, <1>7, <1>8, <1>9 DEF DbNext

(* No step leaves a REFUNDING order without the refund that ends it. *)
LEMMA OneRefundStep ==
  ASSUME TypeOK, Ledger, OneRefund, DbNext
  PROVE  OneRefund'
<1> USE RequestAssumption DEF OneRefund, Decisive
<1>1. ASSUME NEW o \in Orders, \/ DbInsert(o)
                               \/ DbMove(o, "HELD", "CANCELLED", "order.cancelled")
                               \/ DbMove(o, "PAID", "TICKETED", "ticket.issued")
      PROVE  OneRefund'
  BY <1>1, InsertEffect, MoveEffect DEF Moves, NoRow
<1>2. ASSUME NEW batch \in SUBSET Orders, DbExpire(batch) PROVE OneRefund'
  BY <1>2, ExpireEffect
<1>3. ASSUME NEW t \in Txns, DbCharge(t) \/ DbReturn(t) PROVE OneRefund'
  BY <1>3 DEF DbCharge, Charge, DbReturn, pgVars
<1>4. ASSUME NEW t \in Txns, DbComplete(t) PROVE OneRefund'
  <2>1. /\ refunds'[t].status = "SUCCEEDED" /\ refunds'[t].reason = refunds[t].reason
        /\ \A u \in Txns \ {t} : refunds'[u] = refunds[u]
        /\ outbox \subseteq outbox' /\ OrderOf[t] \in Orders
        /\ refunds[t].status = "PENDING" /\ refunds[t].reason # "NONE"
    BY <1>4, CompleteEffect DEF Files, Ledger
  <2>2. CASE Decisive(t)
    <3>1. Moves(OrderOf[t], "REFUNDED")
      BY Zenon, <1>4, <2>2, CompleteEffect
    <3>2. QED
      BY <2>1, <2>2, <3>1 DEF Moves
  <2>3. CASE ~ Decisive(t)
    <3>1. status' = status
      BY Zenon, <1>4, <2>1, <2>3, CompleteEffect
    <3>2. QED
      BY <2>1, <2>3, <3>1
  <2>4. QED
    BY Zenon, <2>2, <2>3
<1>5. ASSUME NEW t \in Txns, DbIgnore(t) PROVE OneRefund'
  BY Zenon, <1>5 DEF DbIgnore
<1>6. ASSUME NEW t \in Txns, DbDouble(t) PROVE OneRefund'
  <2>1. refunds[t].reason = "NONE"
    BY Zenon, <1>6, DoubleEffect DEF Ledger, NoRow
  <2>2. /\ refunds'[t].reason = "DOUBLE_PAYMENT" /\ UNCHANGED status
        /\ \A u \in Txns \ {t} : refunds'[u] = refunds[u]
        /\ outbox' = outbox \cup {RefundEvent("order.refund_requested", t)}
    BY Zenon, <1>6, DoubleEffect DEF Files
  <2>3. \A u \in Txns : Decisive(u)' <=> Decisive(u) /\ u # t
    BY Zenon, <2>1, <2>2
  <2>4. QED
    BY <2>1, <2>2, <2>3
<1>7. ASSUME NEW t \in Txns, DbRefund(t) PROVE OneRefund'
  <2>1. refunds[t].reason = "NONE"
    BY Zenon, <1>7, RefundEffect DEF Ledger, NoRow
  <2>2. \A u \in Txns : OrderOf[u] = OrderOf[t] => ~ Decisive(u)
    BY <1>7, RefundEffect
  <2>3. PICK reason \in Reasons \ {"DOUBLE_PAYMENT"} : Files(t, "PENDING", reason)
    BY Zenon, <1>7, RefundEffect
  <2>4. reason \notin {"NONE", "DOUBLE_PAYMENT"}
    BY Zenon DEF Reasons
  <2>5. QED
    BY <1>7, <2>1, <2>2, <2>3, <2>4, RefundEffect DEF Files, Moves
<1>8. ASSUME NEW t \in Txns, DbPay(t) PROVE OneRefund'
  BY <1>8, PayEffect DEF Moves
<1>9. CASE UNCHANGED <<pgVars, charge, returned>>
  BY Zenon, <1>9 DEF pgVars
<1>10. QED
  BY Zenon, <1>1, <1>2, <1>3, <1>4, <1>5, <1>6, <1>7, <1>8, <1>9 DEF DbNext

(* Two events are the same only if they tell the same thing. *)
LEMMA EventsDiffer ==
  /\ \A a, b, o, p : OrderEvent(a, o) = OrderEvent(b, p) <=> a = b /\ o = p
  /\ \A a, b : \A t, u : RefundEvent(a, t) = RefundEvent(b, u) <=> a = b /\ t = u
  /\ \A a, b, o : \A t \in Txns : OrderEvent(a, o) # RefundEvent(b, t)
BY Zenon, NamesAssumption DEF OrderEvent, RefundEvent

(* No step changes a status without its event, or writes an event too early. *)
LEMMA AnnouncedStep ==
  ASSUME TypeOK, Ledger, Announced, DbNext
  PROVE  Announced'
<1> USE RequestAssumption, EventsDiffer DEF Announced, Sold
<1>1. ASSUME NEW o \in Orders, DbInsert(o) PROVE Announced'
  BY <1>1, InsertEffect DEF Moves, NoRow
<1>2. ASSUME NEW o \in Orders, DbMove(o, "HELD", "CANCELLED", "order.cancelled") PROVE Announced'
  BY <1>2, MoveEffect DEF Moves, NoRow
<1>3. ASSUME NEW o \in Orders, DbMove(o, "PAID", "TICKETED", "ticket.issued") PROVE Announced'
  BY <1>3, MoveEffect DEF Moves, NoRow
<1>4. ASSUME NEW batch \in SUBSET Orders, DbExpire(batch) PROVE Announced'
  BY <1>4, ExpireEffect DEF NoRow
<1>5. ASSUME NEW t \in Txns, DbCharge(t) \/ DbReturn(t) PROVE Announced'
  BY Zenon, <1>5 DEF DbCharge, Charge, DbReturn, pgVars
<1>6. ASSUME NEW t \in Txns, DbComplete(t) PROVE Announced'
  BY <1>6, CompleteEffect DEF Moves, Files, NoRow
<1>7. ASSUME NEW t \in Txns, DbIgnore(t) PROVE Announced'
  BY Zenon, <1>7 DEF DbIgnore
<1>8. ASSUME NEW t \in Txns, DbDouble(t) PROVE Announced'
  <2>1. refunds[t].status = "NO_ROW"
    BY Zenon, <1>8, DoubleEffect DEF Ledger, NoRow
  <2>2. QED
    BY <1>8, <2>1, DoubleEffect DEF Files
<1>9. ASSUME NEW t \in Txns, DbRefund(t) PROVE Announced'
  <2>1. refunds[t].status = "NO_ROW"
    BY Zenon, <1>9, RefundEffect DEF Ledger, NoRow
  <2>2. QED
    BY <1>9, <2>1, RefundEffect DEF Moves, Files, NoRow
<1>10. ASSUME NEW t \in Txns, DbPay(t) PROVE Announced'
  BY <1>10, PayEffect DEF Moves, NoRow
<1>11. CASE UNCHANGED <<pgVars, charge, returned>>
  BY Zenon, <1>11 DEF pgVars
<1>12. QED
  BY <1>1, <1>2, <1>3, <1>4, <1>5, <1>6, <1>7, <1>8, <1>9, <1>10, <1>11, Zenon DEF DbNext

(* A step that sells nothing keeps the tickets, and no order enters or     *)
(* leaves the sold ones.                                                   *)
LEMMA OnlyPaySells ==
  ASSUME TypeOK, DbNext
  PROVE  \/ UNCHANGED tickets /\ \A o \in Orders : status'[o] \in Sold <=> status[o] \in Sold
         \/ \E t \in Txns : DbPay(t)
<1> DEFINE Kept == UNCHANGED tickets /\ \A o \in Orders : status'[o] \in Sold <=> status[o] \in Sold
<1> USE DEF Sold
<1>1. ASSUME NEW o \in Orders, \/ DbInsert(o)
                               \/ DbMove(o, "HELD", "CANCELLED", "order.cancelled")
                               \/ DbMove(o, "PAID", "TICKETED", "ticket.issued")
      PROVE  Kept
  BY <1>1, InsertEffect, MoveEffect DEF Moves, NoRow
<1>2. ASSUME NEW batch \in SUBSET Orders, DbExpire(batch) PROVE Kept
  BY Zenon, <1>2, ExpireEffect
<1>3. ASSUME NEW t \in Txns, DbCharge(t) \/ DbReturn(t) \/ DbIgnore(t) PROVE Kept
  BY Zenon, <1>3 DEF DbCharge, Charge, DbReturn, DbIgnore, pgVars
<1>4. ASSUME NEW t \in Txns, DbComplete(t) PROVE Kept
  BY Zenon, <1>4, CompleteEffect DEF Moves
<1>5. ASSUME NEW t \in Txns, DbDouble(t) PROVE Kept
  BY Zenon, <1>5, DoubleEffect
<1>6. ASSUME NEW t \in Txns, DbRefund(t) PROVE Kept
  BY Zenon, <1>6, RefundEffect DEF Moves
<1>7. QED
  BY Zenon, <1>1, <1>2, <1>3, <1>4, <1>5, <1>6 DEF DbNext, pgVars

(* No step sells a seat twice or leaves an order with some of its tickets. *)
LEMMA TicketsStep ==
  ASSUME TypeOK, TicketsMatchStatus, NoDoubleSell, DbNext
  PROVE  TicketsMatchStatus' /\ NoDoubleSell'
<1>1. CASE UNCHANGED tickets /\ \A o \in Orders : status'[o] \in Sold <=> status[o] \in Sold
  BY Zenon, <1>1 DEF TicketsMatchStatus, NoDoubleSell
<1>2. ASSUME NEW t \in Txns, DbPay(t) PROVE TicketsMatchStatus' /\ NoDoubleSell'
  <2> DEFINE o == OrderOf[t]
             new == {<<s, o>> : s \in SeatsOf[o]}
  <2>1. /\ o \in Orders /\ SeatsOf[o] \subseteq Seats /\ tickets' = tickets \cup new
        /\ status[o] \notin Sold /\ Moves(o, "PAID")
        /\ \A row \in tickets : row[1] \notin SeatsOf[o]
    BY Zenon, <1>2, PayEffect, PayTickets DEF Sold
  <2>2. NoDoubleSell'
    <3> SUFFICES ASSUME NEW x \in tickets', NEW y \in tickets', x[1] = y[1]
                 PROVE  x[2] = y[2]
      BY Zenon DEF NoDoubleSell
    <3>1. \A z \in new : z[1] \in SeatsOf[o] /\ z[2] = o
      OBVIOUS
    <3>2. CASE x \in new /\ y \in new
      BY <3>1, <3>2
    <3>3. CASE x \in tickets /\ y \in tickets
      BY Zenon, <3>3 DEF NoDoubleSell
    <3>4. ~ (x \in new /\ y \in tickets) /\ ~ (x \in tickets /\ y \in new)
      BY Zenon, <2>1, <3>1
    <3>5. QED
      BY Zenon, <2>1, <3>2, <3>3, <3>4
  <2>3. TicketsMatchStatus'
    <3> SUFFICES ASSUME NEW p \in Orders
                 PROVE  {s \in Seats : <<s, p>> \in tickets'}
                          = IF status'[p] \in Sold THEN SeatsOf[p] ELSE {}
      BY Zenon DEF TicketsMatchStatus
    <3>1. CASE p = o
      <4>1. {s \in Seats : <<s, p>> \in tickets} = {}
        BY Zenon, <2>1, <3>1 DEF TicketsMatchStatus
      <4>2. {s \in Seats : <<s, p>> \in tickets'} = SeatsOf[o]
        BY Zenon, <2>1, <3>1, <4>1
      <4>3. QED
        BY Zenon, <2>1, <3>1, <4>2 DEF Sold, Moves
    <3>2. CASE p # o
      <4>1. \A s \in Seats : <<s, p>> \in tickets' <=> <<s, p>> \in tickets
        BY Zenon, <2>1, <3>2
      <4>2. QED
        BY Zenon, <2>1, <3>2, <4>1 DEF TicketsMatchStatus, Moves
    <3>3. QED
      BY Zenon, <3>1, <3>2
  <2>4. QED
    BY Zenon, <2>2, <2>3
<1>3. QED
  BY Zenon, <1>1, <1>2, OnlyPaySells

-----------------------------------------------------------------------------
(* The theorems.                                                           *)

(* The empty tables satisfy the invariant. *)
LEMMA InitTables == Init => TableInv
<1> SUFFICES ASSUME Init
             PROVE  TableInv
  OBVIOUS
<1>1. Ledger
  BY Zenon DEF Init, Ledger, NoRefund, NoRow
<1>2. OneBuyer
  BY Zenon, RequestAssumption DEF Init, OneBuyer, NoRow, Sold
<1>3. OneRefund
  BY Zenon DEF Init, OneRefund, Decisive, NoRefund, NoRow
<1>4. Announced /\ NoDoubleSell
  BY Zenon DEF Init, Announced, NoDoubleSell
<1>5. TicketsMatchStatus
  BY Zenon DEF Init, TicketsMatchStatus, NoRow, Sold
<1>6. QED
  BY Zenon, <1>1, <1>2, <1>3, <1>4, <1>5 DEF TableInv

(* The invariant is inductive: no step of any handler breaks it. *)
LEMMA Inductive == IInv /\ [Next]_vars => IInv'
<1> SUFFICES ASSUME IInv, [Next]_vars
             PROVE  IInv'
  OBVIOUS
<1>1. HandlerInv'
  BY Zenon, TypeStep, InsertOnceStep, ChargedFirstStep, LateUnderLockStep DEF IInv, HandlerInv
<1>2. DbNext
  BY Zenon, StepKinds DEF IInv
<1>3. TableInv'
  BY Zenon, <1>2, LedgerStep, OneBuyerStep, OneRefundStep, AnnouncedStep, TicketsStep
     DEF IInv, HandlerInv, TableInv
<1>4. QED
  BY Zenon, <1>1, <1>3 DEF IInv

(* The inductive invariant of booking: handlers and tables. *)
THEOREM Invariance == Spec => []IInv
<1>1. Init => IInv
  <2>1. Init => InsertOnce /\ ChargedFirst /\ LateUnderLock
    BY DEF Init, InsertOnce, ChargedFirst, LateUnderLock, IdleWebhook
  <2>2. QED
    BY Zenon, <2>1, TypeInit, InitTables DEF IInv, HandlerInv
<1>2. QED
  BY <1>1, Inductive, PTL DEF Spec

(* Whatever Redis says, lapses or loses, and whatever crashes: no seat is  *)
(* sold twice.                                                             *)
THEOREM NeverSoldTwice == Spec => []NoDoubleSell
<1>1. IInv => NoDoubleSell
  BY Zenon DEF IInv, TableInv
<1>2. QED
  BY <1>1, Invariance, PTL

(* An order is sold with all of its tickets, or has none. *)
THEOREM TicketsComplete == Spec => []TicketsMatchStatus
<1>1. IInv => TicketsMatchStatus
  BY Zenon DEF IInv, TableInv
<1>2. QED
  BY <1>1, Invariance, PTL

(* Money is kept for tickets only and given back only when owed. *)
THEOREM MoneyIsAccounted == Spec => []MoneyAccounted
<1>1. ASSUME IInv PROVE MoneyAccounted
  <2> USE <1>1 DEF IInv, TableInv, Ledger, OneBuyer
  <2>1. ASSUME NEW o \in Orders, status[o] \in Sold
        PROVE  \E t \in Txns : /\ OrderOf[t] = o /\ payments[t] = "APPLIED" /\ charge[t] = "exact"
                               /\ \A u \in Txns : OrderOf[u] = o /\ payments[u] = "APPLIED" => u = t
    BY <2>1
  <2>2. ASSUME NEW t \in Txns
        PROVE  /\ payments[t] = "APPLIED" => status[OrderOf[t]] \in Sold
               /\ payments[t] # NoRow /\ charge[t] # "failed" /\ payments[t] # "APPLIED"
                    => refunds[t].status # "NO_ROW"
               /\ t \in returned => payments[t] = "REFUND_REQUIRED"
               /\ refunds[t].status = "SUCCEEDED" => t \in returned
    <3>1. payments[t] \in {NoRow, "APPLIED", "REFUND_REQUIRED", "IGNORED_FAILED"}
      BY DEF HandlerInv, TypeOK
    <3>2. QED
      BY Zenon, <3>1
  <2>3. QED
    BY Zenon, <2>1, <2>2 DEF MoneyAccounted
<1>2. QED
  BY <1>1, Invariance, PTL

(* An order being refunded has its one refund, pending and announced. *)
THEOREM RefundsDecide == Spec => []RefundDecidesOrder
<1>1. ASSUME IInv PROVE RefundDecidesOrder
  <2> SUFFICES ASSUME NEW o \in Orders
               PROVE  /\ status[o] = "REFUNDING" =>
                           \E t \in Txns : /\ OrderOf[t] = o /\ refunds[t].status = "PENDING"
                                           /\ refunds[t].reason # "DOUBLE_PAYMENT"
                                           /\ RefundEvent("order.refund_requested", t) \in outbox
                      /\ status[o] = "REFUNDED" =>
                           \A t \in Txns : OrderOf[t] = o /\ refunds[t].status = "PENDING"
                                            => refunds[t].reason = "DOUBLE_PAYMENT"
    BY Zenon DEF RefundDecidesOrder
  <2>1. ASSUME NEW t \in Txns, Decisive(t)
        PROVE  /\ refunds[t].status \in {"PENDING", "SUCCEEDED"}
               /\ RefundEvent("order.refund_requested", t) \in outbox
    <3>1. refunds[t].status \in {"NO_ROW", "PENDING", "SUCCEEDED"}
      BY Zenon, <1>1 DEF IInv, HandlerInv, TypeOK, Refund
    <3>2. refunds[t].status # "NO_ROW"
      BY Zenon, <1>1, <2>1 DEF IInv, TableInv, Ledger, Decisive
    <3>3. QED
      BY Zenon, <1>1, <3>1, <3>2 DEF IInv, TableInv, OneRefund
  <2>2. ASSUME NEW t \in Txns, refunds[t].status = "PENDING", refunds[t].reason # "DOUBLE_PAYMENT"
        PROVE  Decisive(t)
    BY Zenon, <1>1, <2>2 DEF IInv, TableInv, Ledger, Decisive
  <2>3. QED
    BY <1>1, <2>1, <2>2 DEF IInv, TableInv, OneRefund, Decisive
<1>2. QED
  BY <1>1, Invariance, PTL

(* Every change of status is an edge of the state machine, and has a new   *)
(* event in the outbox.                                                    *)
THEOREM MovesLegal == Spec => MovesAreLegalAndAnnounced
<1> DEFINE Legal ==
      \A o \in Orders : status'[o] # status[o] =>
        /\ status[o] # NoRow => CanTransition(status[o], status'[o])
        /\ status[o] = NoRow => status'[o] = "HELD"
        /\ \E e \in outbox' \ outbox : e.order = o
<1>1. ASSUME IInv, [Next]_vars PROVE Legal
  <2> USE <1>1 DEF IInv, HandlerInv, TableInv, CanTransition, transitions, Sold
  <2>1. DbNext
    BY Zenon, StepKinds
  <2>2. ASSUME NEW o \in Orders, DbInsert(o) PROVE Legal
    <3>1. OrderEvent("order.held", o) \in outbox' \ outbox /\ OrderEvent("order.held", o).order = o
      <4>1. OrderEvent("order.held", o) \notin outbox
        BY Zenon, <2>2, InsertEffect DEF Announced, NoRow
      <4>2. outbox' = outbox \cup {OrderEvent("order.held", o)}
        BY Zenon, <2>2, InsertEffect
      <4>3. QED
        BY Zenon, <4>1, <4>2 DEF OrderEvent
    <3>2. QED
      BY Zenon, <2>2, <3>1, InsertEffect DEF Moves
  <2>3. ASSUME NEW o \in Orders, DbMove(o, "HELD", "CANCELLED", "order.cancelled") PROVE Legal
    <3>1. /\ OrderEvent("order.cancelled", o) \in outbox' \ outbox
          /\ OrderEvent("order.cancelled", o).order = o
      <4>1. OrderEvent("order.cancelled", o) \notin outbox
        BY <2>3, MoveEffect DEF Announced, NoRow
      <4>2. outbox' = outbox \cup {OrderEvent("order.cancelled", o)}
        BY Zenon, <2>3, MoveEffect
      <4>3. QED
        BY Zenon, <4>1, <4>2 DEF OrderEvent
    <3>2. QED
      BY <2>3, <3>1, MoveEffect DEF Moves, NoRow
  <2>4. ASSUME NEW o \in Orders, DbMove(o, "PAID", "TICKETED", "ticket.issued") PROVE Legal
    <3>1. /\ OrderEvent("ticket.issued", o) \in outbox' \ outbox
          /\ OrderEvent("ticket.issued", o).order = o
      <4>1. OrderEvent("ticket.issued", o) \notin outbox
        BY <2>4, MoveEffect DEF Announced, NoRow
      <4>2. outbox' = outbox \cup {OrderEvent("ticket.issued", o)}
        BY Zenon, <2>4, MoveEffect
      <4>3. QED
        BY Zenon, <4>1, <4>2 DEF OrderEvent
    <3>2. QED
      BY <2>4, <3>1, MoveEffect DEF Moves, NoRow
  <2>5. ASSUME NEW batch \in SUBSET Orders, DbExpire(batch) PROVE Legal
    <3>1. \A o \in batch : /\ OrderEvent("order.expired", o) \in outbox' \ outbox
                           /\ OrderEvent("order.expired", o).order = o
      <4>1. \A o \in batch : OrderEvent("order.expired", o) \notin outbox
        BY Zenon, <2>5, ExpireEffect DEF Announced
      <4>2. outbox' = outbox \cup {OrderEvent("order.expired", o) : o \in batch}
        BY Zenon, <2>5, ExpireEffect
      <4>3. QED
        BY Zenon, <4>1, <4>2 DEF OrderEvent
    <3>2. QED
      BY Zenon, <2>5, <3>1, ExpireEffect DEF NoRow
  <2>6. ASSUME NEW t \in Txns, DbComplete(t) PROVE Legal
    <3>1. /\ RefundEvent("order.refunded", t) \in outbox' \ outbox
          /\ RefundEvent("order.refunded", t).order = OrderOf[t]
      <4>1. RefundEvent("order.refunded", t) \notin outbox
        BY Zenon, <2>6, CompleteEffect DEF Announced
      <4>2. outbox' = outbox \cup {RefundEvent("order.refunded", t)}
        BY Zenon, <2>6, CompleteEffect
      <4>3. QED
        BY Zenon, <4>1, <4>2 DEF RefundEvent
    <3>2. QED
      BY Zenon, <2>6, <3>1, CompleteEffect DEF Moves, NoRow
  <2>7. ASSUME NEW t \in Txns, DbRefund(t) PROVE Legal
    <3>1. /\ RefundEvent("order.refund_requested", t) \in outbox' \ outbox
          /\ RefundEvent("order.refund_requested", t).order = OrderOf[t]
      <4>1. refunds[t].status = "NO_ROW"
        BY Zenon, <2>7, RefundEffect DEF Ledger, NoRow
      <4>2. RefundEvent("order.refund_requested", t) \notin outbox
        BY Zenon, <4>1 DEF Announced
      <4>3. outbox' = outbox \cup {RefundEvent("order.refund_requested", t)}
        BY Zenon, <2>7, RefundEffect
      <4>4. QED
        BY Zenon, <4>2, <4>3 DEF RefundEvent
    <3>2. QED
      BY <2>7, <3>1, RefundEffect DEF Moves, NoRow
  <2>8. ASSUME NEW t \in Txns, DbPay(t) PROVE Legal
    <3>1. /\ OrderEvent("order.paid", OrderOf[t]) \in outbox' \ outbox
          /\ OrderEvent("order.paid", OrderOf[t]).order = OrderOf[t]
      <4>1. OrderOf[t] \in Orders /\ status[OrderOf[t]] \in {"HELD", "EXPIRED"}
        BY Zenon, <2>8, PayEffect
      <4>2. OrderEvent("order.paid", OrderOf[t]) \notin outbox
        BY Zenon, <4>1 DEF Announced
      <4>3. outbox' = outbox \cup {OrderEvent("order.paid", OrderOf[t])}
        BY Zenon, <2>8, PayEffect
      <4>4. QED
        BY Zenon, <4>2, <4>3 DEF OrderEvent
    <3>2. QED
      BY <2>8, <3>1, PayEffect DEF Moves, NoRow
  <2>9. ASSUME NEW t \in Txns, DbCharge(t) \/ DbReturn(t) \/ DbIgnore(t) \/ DbDouble(t) PROVE Legal
    BY Zenon, <2>9 DEF DbCharge, Charge, DbReturn, DbIgnore, DbDouble, pgVars
  <2>10. QED
    BY Zenon, <2>1, <2>2, <2>3, <2>4, <2>5, <2>6, <2>7, <2>8, <2>9 DEF DbNext, pgVars
<1>2. ASSUME IInv, [Next]_vars PROVE [Legal]_vars
  BY Zenon, <1>1, <1>2
<1>3. QED
  BY <1>2, Invariance, PTL DEF Spec, MovesAreLegalAndAnnounced

-----------------------------------------------------------------------------
(* Booking implements TicketSale.                                          *)

(* Between two sold orders no seat is shared: their tickets would clash. *)
LEMMA SoldOrdersDisjoint ==
  ASSUME TicketsMatchStatus, NEW o \in Orders, NEW p \in Orders,
         status[o] \in Sold, \A row \in tickets : row[1] \notin SeatsOf[p]
  PROVE  SeatsOf[o] \cap SeatsOf[p] = {}
BY Zenon, RequestAssumption DEF TicketsMatchStatus

(* For the buyer every step of booking is a step of the sale, or nothing. *)
LEMMA SaleStep ==
  ASSUME IInv, IInv', [Next]_vars
  PROVE  [Sale!Next]_(Sale!saleVars)
<1> DEFINE money == [t \in Txns |-> MoneyOf(t)]
<1> USE RequestAssumption DEF IInv, HandlerInv, TableInv
<1>1. DbNext
  BY Zenon, StepKinds
<1>2. ASSUME UNCHANGED <<payments, returned>>,
             \A o \in Orders : status'[o] \in Sold <=> status[o] \in Sold
      PROVE  UNCHANGED Sale!saleVars
  BY Zenon, <1>2 DEF Sale!saleVars, SoldOrders, MoneyOf
<1>3. ASSUME NEW t \in Txns, DbPay(t) PROVE Sale!Buy(t)
  <2>1. MoneyOf(t) = "unseen" /\ MoneyOf(t)' = "bought" /\ \A u \in Txns \ {t} : MoneyOf(u)' = MoneyOf(u)
    BY <1>3, PayEffect DEF Records, MoneyOf, NoRow
  <2>2. money' = [money EXCEPT ![t] = "bought"]
    BY Zenon, <2>1
  <2>3. /\ OrderOf[t] \in Orders /\ OrderOf[t] \notin SoldOrders
        /\ SoldOrders' = SoldOrders \cup {OrderOf[t]}
    BY <1>3, PayEffect DEF Moves, SoldOrders, Sold
  <2>4. \A o \in SoldOrders : SeatsOf[o] \cap SeatsOf[OrderOf[t]] = {}
    BY Zenon, <1>3, <2>3, PayTickets, SoldOrdersDisjoint DEF SoldOrders
  <2>5. QED
    BY Zenon, <2>1, <2>2, <2>3, <2>4 DEF Sale!Buy
<1>4. ASSUME NEW t \in Txns, DbDouble(t) \/ DbRefund(t) PROVE Sale!Owe(t)
  <2>1. /\ payments[t] = NoRow /\ Records(t, "REFUND_REQUIRED") /\ UNCHANGED returned
    BY Zenon, <1>4, DoubleEffect, RefundEffect
  <2>2. t \notin returned
    BY Zenon, <2>1 DEF Ledger, NoRow
  <2>3. MoneyOf(t) = "unseen" /\ MoneyOf(t)' = "owed" /\ \A u \in Txns \ {t} : MoneyOf(u)' = MoneyOf(u)
    BY Zenon, <2>1, <2>2 DEF Records, MoneyOf, NoRow
  <2>4. money' = [money EXCEPT ![t] = "owed"]
    BY Zenon, <2>3
  <2>5. UNCHANGED SoldOrders
    BY <1>4, DoubleEffect, RefundEffect DEF Moves, SoldOrders, Sold
  <2>6. QED
    BY Zenon, <2>3, <2>4, <2>5 DEF Sale!Owe
<1>5. ASSUME NEW t \in Txns, DbIgnore(t) PROVE Sale!Ignore(t)
  <2>1. MoneyOf(t) = "unseen" /\ MoneyOf(t)' = "nothing" /\ \A u \in Txns \ {t} : MoneyOf(u)' = MoneyOf(u)
    BY Zenon, <1>5, IgnoreEffect DEF Records, MoneyOf, NoRow
  <2>2. money' = [money EXCEPT ![t] = "nothing"]
    BY Zenon, <2>1
  <2>3. UNCHANGED SoldOrders
    BY Zenon, <1>5 DEF DbIgnore, SoldOrders
  <2>4. QED
    BY Zenon, <2>1, <2>2, <2>3 DEF Sale!Ignore
<1>6. ASSUME NEW t \in Txns, DbReturn(t) PROVE Sale!Repay(t) \/ UNCHANGED Sale!saleVars
  <2>1. /\ payments[t] = "REFUND_REQUIRED" /\ returned' = returned \cup {t}
        /\ UNCHANGED <<payments, status>>
    BY Zenon, <1>6 DEF DbReturn, Ledger, pgVars
  <2>2. CASE t \in returned
    <3>1. UNCHANGED returned
      BY Zenon, <2>1, <2>2
    <3>2. QED
      BY Zenon, <1>2, <2>1, <3>1
  <2>3. CASE t \notin returned
    <3>1. MoneyOf(t) = "owed" /\ MoneyOf(t)' = "repaid" /\ \A u \in Txns \ {t} : MoneyOf(u)' = MoneyOf(u)
      BY Zenon, <2>1, <2>3 DEF MoneyOf, NoRow
    <3>2. money' = [money EXCEPT ![t] = "repaid"]
      BY Zenon, <3>1
    <3>3. UNCHANGED SoldOrders
      BY Zenon, <2>1 DEF SoldOrders
    <3>4. QED
      BY Zenon, <3>1, <3>2, <3>3 DEF Sale!Repay
  <2>4. QED
    BY Zenon, <2>2, <2>3
<1>7. CASE \E t \in Txns : DbPay(t) \/ DbDouble(t) \/ DbRefund(t) \/ DbIgnore(t) \/ DbReturn(t)
  BY Zenon, <1>3, <1>4, <1>5, <1>6, <1>7 DEF Sale!Next
<1>8. CASE ~ \E t \in Txns : DbPay(t) \/ DbDouble(t) \/ DbRefund(t) \/ DbIgnore(t) \/ DbReturn(t)
  <2>1. UNCHANGED <<payments, returned>>
    BY Zenon, <1>1, <1>8 DEF DbNext, DbInsert, InsertHeld, DbMove, DbExpire, DbCharge, Charge, DbComplete, pgVars
  <2>2. \A o \in Orders : status'[o] \in Sold <=> status[o] \in Sold
    BY Zenon, <1>1, <1>8, OnlyPaySells
  <2>3. QED
    BY Zenon, <1>2, <2>1, <2>2
<1>9. QED
  BY Zenon, <1>7, <1>8

(* Every behaviour of booking is a behaviour of the sale it promises. *)
THEOREM Refinement == Spec => ImplementsTicketSale
<1>1. Init => Sale!Init
  BY DEF Init, Sale!Init, SoldOrders, MoneyOf, Sold, NoRow
<1>2. IInv /\ IInv' /\ [Next]_vars => [Sale!Next]_(Sale!saleVars)
  BY Zenon, SaleStep
<1>3. QED
  BY <1>1, <1>2, Invariance, PTL DEF Spec, ImplementsTicketSale, Sale!Spec

-----------------------------------------------------------------------------
(* The inventory while nothing fails and no request is slow.               *)

(* A create or webhook request ends within half of HOLD_GRACE and within   *)
(* the hold of a late payment.                                             *)
Quick == ~ MayFail /\ 2 * MaxDelay <= HoldGrace /\ MaxDelay <= LateHoldTTL

(* How old a request is. *)
Ages ==
  /\ \A o \in Orders : create[o].pc = "held" => create[o].at <= clock /\ clock <= create[o].at + MaxDelay
  /\ \A d \in Deliveries : webhook[d].pc # "idle" =>
       webhook[d].now <= clock /\ clock <= webhook[d].now + MaxDelay

Ended == {"CANCELLED", "REFUNDING", "REFUNDED"}

(* Whoever still has to release or confirm does so for an order that will  *)
(* never again be anything else.                                           *)
Duties ==
  /\ \A o \in Orders : create[o].pc = "release" => status[o] = NoRow
  /\ \A o \in cancelling : status[o] \in Ended
  /\ \A d \in Deliveries : webhook[d].pc = "release" => status[WebhookOrder(d)] \in Ended
  /\ \A d \in Deliveries : webhook[d].pc = "confirm" => status[WebhookOrder(d)] \in Sold

(* The expiry worker releases the seats of orders it has locked and that   *)
(* are not sold.                                                           *)
Sweeps ==
  \A w \in Workers : \A o \in sweep[w].batch :
    /\ status[o] \notin {NoRow, "HELD"}
    /\ sweep[w].pc = "locked" => lock[o] = w /\ status[o] \notin Sold

Covered(o, t) == \A s \in SeatsOf[o] : HeldBy(keys[s], o) /\ t <= keys[s].until

Confirmed(o) == \A s \in SeatsOf[o] : SoldBy(keys[s], o)

Reheld(d, o) == webhook[d].pc = "reheld" /\ WebhookOrder(d) = o

Confirms(d, o) == webhook[d].pc = "confirm" /\ WebhookOrder(d) = o

(* Order o relies on its seats until t: it is about to be inserted, it can *)
(* be paid, or it is being paid late.                                      *)
Relies(o, t) ==
  \/ create[o].pc = "held" /\ t = create[o].at + HoldTTL + HoldGrace
  \/ /\ status[o] = "HELD" /\ t = holdExpiresAt[o] + HoldGrace - MaxDelay
     /\ \A d \in Deliveries : ~ Reheld(d, o)
  \/ \E d \in Deliveries : Reheld(d, o) /\ t = webhook[d].now + MaxDelay

(* As long as it relies on them it holds them, and once it is sold they    *)
(* are sold in Redis too, or held until a request that is about to confirm *)
(* them has ended.                                                         *)
CoverOf(o) ==
  /\ \A t \in Int : Relies(o, t) /\ clock <= t => Covered(o, t)
  /\ status[o] \in Sold =>
       Confirmed(o) \/ \E d \in Deliveries : Confirms(d, o) /\ Covered(o, webhook[d].now + MaxDelay)

CoverInv == \A o \in Orders : CoverOf(o)

TimedInv == Ages /\ Duties /\ Sweeps /\ CoverInv /\ NoSeatConflictRefund

(* A step leaves order o the seats it has, as far as it has them for the   *)
(* time after the step.                                                    *)
Keeps(o) ==
  /\ \A t \in Int : clock' <= t /\ Covered(o, t) => Covered(o, t)'
  /\ Confirmed(o) => Confirmed(o)'

(* Steps that leave Redis alone. *)
LEMMA SameKeeps ==
  ASSUME NEW o, UNCHANGED keys
  PROVE  Keeps(o)
BY Zenon DEF Keeps, Covered, Confirmed

(* The seats of an order have keys. *)
LEMMA SeatFacts ==
  ASSUME TypeOK, NEW o \in Orders, NEW s \in SeatsOf[o]
  PROVE  s \in Seats /\ s \in Nat /\ keys[s] \in SeatKey /\ s \in DOMAIN keys
BY Zenon, RequestAssumption, SeatsAssumption DEF TypeOK

(* hold.lua takes no seat from another order. *)
LEMMA HoldKeeps ==
  ASSUME TypeOK, NEW p \in Orders, NEW until \in Nat, Taken(keys, SeatsOf[p], p) = {},
         keys' = HoldSeats(keys, SeatsOf[p], p, until)
  PROVE  /\ \A o \in Orders \ {p} : Keeps(o)
         /\ \A t \in Int : t <= until => Covered(p, t)'
<1>1. ASSUME NEW o \in Orders \ {p}, NEW s \in SeatsOf[o], HeldBy(keys[s], o) \/ SoldBy(keys[s], o)
      PROVE  keys'[s] = keys[s]
  <2>1. s \notin SeatsOf[p]
    <3>1. keys[s].kind # "absent" /\ ~ HeldBy(keys[s], p)
      BY Zenon, <1>1 DEF HeldBy, SoldBy
    <3>2. QED
      BY Zenon, <3>1 DEF Taken
  <2>2. QED
    BY Zenon, <2>1, SeatFacts DEF HoldSeats
<1>2. ASSUME NEW s \in SeatsOf[p]
      PROVE  HeldBy(keys'[s], p) /\ keys'[s].until = until
  BY Zenon, SeatFacts DEF HoldSeats, Held, HeldBy
<1>3. \A o \in Orders \ {p} : Keeps(o)
  BY Zenon, <1>1 DEF Keeps, Covered, Confirmed
<1>4. \A t \in Int : t <= until => Covered(p, t)'
  BY Zenon, <1>2 DEF Covered
<1>5. QED
  BY Zenon, <1>3, <1>4

(* release.lua takes no seat from another order. *)
LEMMA ReleaseKeeps ==
  ASSUME TypeOK, NEW p \in Orders, keys' = ReleaseSeats(keys, SeatsOf[p], p)
  PROVE  \A o \in Orders \ {p} : Keeps(o)
<1>1. ASSUME NEW o \in Orders \ {p}, NEW s \in SeatsOf[o], HeldBy(keys[s], o) \/ SoldBy(keys[s], o)
      PROVE  keys'[s] = keys[s]
  <2>1. ~ HeldBy(keys[s], p)
    BY Zenon, <1>1 DEF HeldBy, SoldBy
  <2>2. QED
    BY Zenon, <2>1, SeatFacts DEF ReleaseSeats
<1>2. QED
  BY Zenon, <1>1 DEF Keeps, Covered, Confirmed

(* confirm.lua takes no seat from another order, and sells all seats of an *)
(* order that has them all.                                                *)
LEMMA ConfirmKeeps ==
  ASSUME TypeOK, NEW p \in Orders, keys' = ConfirmSeats(keys, SeatsOf[p], p)
  PROVE  /\ \A o \in Orders \ {p} : Keeps(o)
         /\ Confirmed(p) \/ (\E t : Covered(p, t)) => Confirmed(p)'
<1>1. ASSUME NEW o \in Orders \ {p}, NEW s \in SeatsOf[o], HeldBy(keys[s], o) \/ SoldBy(keys[s], o)
      PROVE  keys'[s] = keys[s]
  <2>1. ~ Confirmable(keys[s], p)
    BY Zenon, <1>1 DEF HeldBy, SoldBy, Confirmable
  <2>2. s <= s
    BY SeatFacts
  <2>3. QED
    BY Zenon, <2>1, <2>2, SeatFacts DEF ConfirmSeats
<1>2. ASSUME NEW s \in SeatsOf[p], \A r \in SeatsOf[p] : HeldBy(keys[r], p) \/ SoldBy(keys[r], p)
      PROVE  SoldBy(keys'[s], p)
  <2>1. keys'[s] = SoldTo(p)
    BY Zenon, <1>2, SeatFacts DEF ConfirmSeats, Confirmable
  <2>2. QED
    BY <2>1 DEF SoldTo, SoldBy
<1>3. Confirmed(p) \/ (\E t : Covered(p, t)) => Confirmed(p)'
  <2>1. Confirmed(p) \/ (\E t : Covered(p, t)) => \A r \in SeatsOf[p] : HeldBy(keys[r], p) \/ SoldBy(keys[r], p)
    BY Zenon DEF Covered, Confirmed
  <2>2. QED
    BY Zenon, <1>2, <2>1 DEF Confirmed
<1>4. QED
  BY Zenon, <1>1, <1>3 DEF Keeps, Covered, Confirmed

(* A hold ends when its time is over, and not before. *)
LEMMA LapseKeeps ==
  ASSUME TypeOK, Tick, NEW o \in Orders
  PROVE  Keeps(o)
<1>1. keys' = Lapse(keys, clock + 1) /\ clock' = clock + 1 /\ clock \in Nat
  BY Zenon DEF Tick, TypeOK
<1>2. ASSUME NEW t \in Int, clock' <= t, NEW s \in SeatsOf[o], t <= keys[s].until
      PROVE  keys'[s] = keys[s]
  <2>1. ~ (keys[s].until < clock + 1)
    BY <1>1, <1>2, SeatFacts DEF SeatKey
  <2>2. QED
    BY Zenon, <1>1, <2>1, SeatFacts DEF Lapse
<1>3. ASSUME NEW s \in SeatsOf[o], SoldBy(keys[s], o)
      PROVE  keys'[s] = keys[s]
  BY Zenon, <1>1, <1>3, SeatFacts DEF Lapse, SoldBy
<1>4. QED
  BY Zenon, <1>2, <1>3 DEF Keeps, Covered, Confirmed

(* A step in which order o comes to rely on nothing new. *)
Quiet(o) ==
  /\ create'[o].pc = "held" => create'[o] = create[o]
  /\ status'[o] = "HELD" => status[o] = "HELD" /\ holdExpiresAt'[o] = holdExpiresAt[o]
  /\ status'[o] \in Sold => status[o] \in Sold
  /\ \A d \in Deliveries :
       webhook'[d] = webhook[d] \/ (~ Reheld(d, o) /\ ~ Reheld(d, o)' /\ ~ Confirms(d, o))

(* An order that keeps its seats and comes to rely on nothing new stays     *)
(* covered.                                                                *)
LEMMA CoverFrame ==
  ASSUME TypeOK, clock <= clock', clock' \in Nat, Ages',
         NEW o \in Orders, CoverOf(o), Keeps(o), Quiet(o)
  PROVE  CoverOf(o)'
<1>1. \A d \in Deliveries : Reheld(d, o)' <=> Reheld(d, o)
  BY Zenon DEF Quiet, Reheld, WebhookOrder
<1>2. \A d \in Deliveries : Reheld(d, o) => webhook'[d] = webhook[d]
  BY Zenon DEF Quiet
<1>3. \A d \in Deliveries : Confirms(d, o) => Confirms(d, o)' /\ webhook'[d] = webhook[d]
  BY Zenon DEF Quiet, Confirms, WebhookOrder
<1>4. ASSUME NEW t \in Int, Relies(o, t)', clock' <= t PROVE Covered(o, t)'
  <2>1. Relies(o, t)
    BY Zenon, <1>1, <1>2, <1>4 DEF Relies, Quiet
  <2>2. clock <= t
    BY <1>4 DEF TypeOK
  <2>3. QED
    BY Zenon, <1>4, <2>1, <2>2 DEF CoverOf, Keeps
<1>5. ASSUME status'[o] \in Sold
      PROVE  Confirmed(o)' \/ \E d \in Deliveries : Confirms(d, o)' /\ Covered(o, webhook[d].now + MaxDelay)'
  <2>1. CASE Confirmed(o)
    BY Zenon, <2>1 DEF Keeps
  <2>2. CASE ~ Confirmed(o)
    <3>1. PICK d \in Deliveries : Confirms(d, o) /\ Covered(o, webhook[d].now + MaxDelay)
      BY Zenon, <1>5, <2>2 DEF CoverOf, Quiet
    <3>2. PICK t : t = webhook[d].now + MaxDelay
      OBVIOUS
    <3>3. Confirms(d, o)' /\ webhook'[d] = webhook[d] /\ t \in Int
      BY <1>3, <3>1, <3>2, TimesAssumption DEF TypeOK, WebhookState
    <3>4. clock' <= t
      BY Zenon, <3>2, <3>3 DEF Ages, Confirms
    <3>5. QED
      BY Zenon, <3>1, <3>2, <3>3, <3>4 DEF Keeps
  <2>3. QED
    BY Zenon, <2>1, <2>2
<1>6. QED
  BY Zenon, <1>4, <1>5 DEF CoverOf

(* An order moves along an edge, or comes with its insert. *)
LEMMA Edges ==
  ASSUME HandlerInv, [Next]_vars, NEW o \in Orders
  PROVE  status'[o] = status[o] \/ CanTransition(status[o], status'[o]) \/ DbInsert(o)
<1> DEFINE Edge == status'[o] = status[o] \/ CanTransition(status[o], status'[o]) \/ DbInsert(o)
<1>1. DbNext /\ TypeOK
  BY Zenon, StepKinds DEF HandlerInv
<1>2. ASSUME NEW p \in Orders, NEW from, NEW to, status[p] = from, Moves(p, to), <<from, to>> \in transitions
      PROVE  Edge
  BY Zenon, <1>2 DEF Moves, CanTransition
<1> USE DEF transitions
<1>3. ASSUME NEW p \in Orders, DbInsert(p) PROVE Edge
  BY Zenon, <1>1, <1>3, InsertEffect DEF Moves
<1>4. ASSUME NEW p \in Orders, \/ DbMove(p, "HELD", "CANCELLED", "order.cancelled")
                               \/ DbMove(p, "PAID", "TICKETED", "ticket.issued")
      PROVE  Edge
  BY Zenon, <1>1, <1>2, <1>4, MoveEffect
<1>5. ASSUME NEW batch \in SUBSET Orders, DbExpire(batch) PROVE Edge
  BY Zenon, <1>5, ExpireEffect DEF CanTransition
<1>6. ASSUME NEW t \in Txns, DbComplete(t) PROVE Edge
  BY Zenon, <1>1, <1>2, <1>6, CompleteEffect
<1>7. ASSUME NEW t \in Txns, DbRefund(t) PROVE Edge
  BY Zenon, <1>1, <1>2, <1>7, RefundEffect
<1>8. ASSUME NEW t \in Txns, DbPay(t) PROVE Edge
  BY Zenon, <1>1, <1>2, <1>8, PayEffect
<1>9. ASSUME NEW t \in Txns, DbCharge(t) \/ DbReturn(t) \/ DbIgnore(t) \/ DbDouble(t) PROVE Edge
  BY Zenon, <1>9 DEF DbCharge, Charge, DbReturn, DbIgnore, DbDouble, pgVars
<1>10. QED
  BY Zenon, <1>1, <1>3, <1>4, <1>5, <1>6, <1>7, <1>8, <1>9 DEF DbNext, pgVars

(* Where the edges lead: nowhere from an end, and never back to HELD. *)
LEMMA EdgesLead ==
  ASSUME NEW from, NEW to, CanTransition(from, to)
  PROVE  /\ from \in Ended => to \in Ended
         /\ from \in Sold => to \in Sold
         /\ to \notin {NoRow, "HELD"} /\ from # NoRow
BY DEF CanTransition, transitions, Ended, Sold, NoRow

(* So an order that has ended, is sold, or has left HELD stays so. *)
LEMMA StatusStays ==
  ASSUME HandlerInv, [Next]_vars, NEW o \in Orders
  PROVE  /\ status[o] \in Ended => status'[o] \in Ended
         /\ status[o] \in Sold => status'[o] \in Sold
         /\ status[o] \notin {NoRow, "HELD"} => status'[o] \notin {NoRow, "HELD"}
         /\ status[o] = NoRow => status'[o] = NoRow \/ DbInsert(o)
         /\ status'[o] = "HELD" => status[o] = "HELD" \/ DbInsert(o)
<1>1. DbInsert(o) => status[o] = NoRow /\ status'[o] = "HELD"
  BY Zenon, InsertEffect DEF HandlerInv, Moves
<1>2. NoRow \notin Ended /\ NoRow \notin Sold
  BY DEF NoRow, Ended, Sold
<1>3. QED
  BY Zenon, <1>1, <1>2, Edges, EdgesLead

(* What a webhook request does to itself. *)
LEMMA WebhookGoes ==
  ASSUME TypeOK, NEW d \in Deliveries, WebhookHandle(d) \/ WebhookFail(d)
  PROVE  /\ webhook[d].pc # "idle"
         /\ \E pc : WebhookGoto(d, pc)
         /\ UNCHANGED <<clock, create, cancelling, sweep>>
<1>1. webhook[d].pc # "idle" /\ UNCHANGED <<clock, create, cancelling, sweep>>
  BY Zenon DEF WebhookHandle, WebhookUnknownOrder, WebhookDuplicate, WebhookDecide,
     FirstDelivery, WebhookLateHold, WebhookLateCommit, WebhookConfirm, WebhookRelease, WebhookFail
<1>2. \E pc : WebhookGoto(d, pc)
  BY Zenon DEF WebhookHandle, WebhookUnknownOrder, WebhookDuplicate, WebhookDecide,
     WebhookLateHold, WebhookLateCommit, WebhookConfirm, WebhookRelease, WebhookFail
<1>3. QED
  BY Zenon, <1>1, <1>2

(* Time does not pass over a request that is MaxDelay old. *)
LEMMA AgesStep ==
  ASSUME TypeOK, Ages, [Next]_vars
  PROVE  Ages'
<1> USE DEF Ages
<1>1. ASSUME NEW p \in Orders, CreateNext(p) PROVE Ages'
  <2>1. UNCHANGED <<clock, webhook>> /\ clock \in Nat
    BY Zenon, <1>1 DEF CreateNext, CreateHold, CreateInsert, CreateRelease, CreateFail, TypeOK
  <2>2. \A o \in Orders : create'[o].pc = "held" => create'[o] = create[o] \/ create'[o].at = clock
    <3>1. \/ create' = [create EXCEPT ![p] = [pc |-> "held", at |-> clock]]
          \/ create' = [create EXCEPT ![p] = [pc |-> "release", at |-> 0]]
          \/ create' = [create EXCEPT ![p] = [pc |-> "done", at |-> 0]]
      BY Zenon, <1>1 DEF CreateNext, CreateHold, CreateInsert, CreateRelease, CreateFail
    <3>2. QED
      BY <3>1 DEF TypeOK
  <2>3. clock <= clock /\ clock <= clock + MaxDelay
    BY <2>1, TimesAssumption
  <2>4. QED
    BY Zenon, <2>1, <2>2, <2>3
<1>2. ASSUME NEW d \in Deliveries, NEW t \in Txns, WebhookBegin(d, t) PROVE Ages'
  <2>1. UNCHANGED <<clock, create>> /\ clock \in Nat
    BY Zenon, <1>2 DEF WebhookBegin, TypeOK
  <2>2. \A e \in Deliveries : webhook'[e] = webhook[e] \/ webhook'[e].now = clock
    BY Zenon, <1>2 DEF WebhookBegin, TypeOK
  <2>3. clock <= clock /\ clock <= clock + MaxDelay
    BY <2>1, TimesAssumption
  <2>4. QED
    BY Zenon, <2>1, <2>2, <2>3
<1>3. ASSUME NEW d \in Deliveries, WebhookHandle(d) \/ WebhookFail(d) PROVE Ages'
  <2>1. UNCHANGED <<clock, create>> /\ webhook[d].pc # "idle"
    BY Zenon, <1>3, WebhookGoes
  <2>2. PICK pc : WebhookGoto(d, pc)
    BY Zenon, <1>3, WebhookGoes
  <2>3. \A e \in Deliveries : webhook'[e].pc # "idle" =>
          webhook[e].pc # "idle" /\ webhook'[e].now = webhook[e].now
    BY Zenon, <2>1, <2>2, GotoFacts
  <2>4. QED
    BY Zenon, <2>1, <2>3
<1>4. ASSUME Tick PROVE Ages'
  <2>1. clock' = clock + 1 /\ UNCHANGED <<create, webhook>>
    BY Zenon, <1>4 DEF Tick
  <2>2. ASSUME NEW at \in Nat, at <= clock, clock < at + MaxDelay
        PROVE  at <= clock' /\ clock' <= at + MaxDelay
    BY <2>1, <2>2, TimesAssumption DEF TypeOK
  <2>3. \A o \in Orders : create[o].at \in Nat
    BY Zenon DEF TypeOK, CreateState
  <2>4. \A d \in Deliveries : webhook[d].now \in Nat
    BY Zenon DEF TypeOK, WebhookState
  <2>5. QED
    BY Zenon, <1>4, <2>1, <2>2, <2>3, <2>4 DEF Tick
<1>5. CASE UNCHANGED <<clock, create, webhook>>
  BY Zenon, <1>5
<1>6. QED
  BY Zenon, <1>1, <1>2, <1>3, <1>4, <1>5 DEF Next, CancelNext, Cancel, CancelRelease, CancelFail, Issue,
     RefundNext, Charge, RefundCall, RefundComplete, WebhookNext, SweepNext, Expire, SweepLock, SweepRelease,
     SweepDone, SweepFail, vars

(* When a webhook request goes on to release or confirm, the order has     *)
(* just been refunded or is sold.                                          *)
LEMMA WebhookOwes ==
  ASSUME HandlerInv, NEW d \in Deliveries, WebhookHandle(d) \/ WebhookFail(d)
  PROVE  /\ webhook'[d].pc = "release" => status'[WebhookOrder(d)] = "REFUNDING"
         /\ webhook'[d].pc = "confirm" => status'[WebhookOrder(d)] \in Sold
<1> DEFINE t == webhook[d].txn
           o == OrderOf[t]
           Owes == /\ webhook'[d].pc = "release" => status'[o] = "REFUNDING"
                   /\ webhook'[d].pc = "confirm" => status'[o] \in Sold
<1>1. TypeOK /\ t \in Txns /\ o \in Orders
  BY Zenon, WebhookGoes, RequestAssumption DEF HandlerInv, TypeOK
<1>2. ASSUME NEW pc, WebhookGoto(d, pc) PROVE webhook'[d].pc = pc
  BY Zenon, <1>1, <1>2, GotoFacts
<1>3. ASSUME NEW to, Transition(o, to) PROVE status'[o] = to
  BY Zenon, <1>1, <1>3 DEF Transition, TypeOK
<1>4. ASSUME \/ WebhookUnknownOrder(d) \/ WebhookLateHold(d)
             \/ WebhookConfirm(d) \/ WebhookRelease(d) \/ WebhookFail(d)
      PROVE  Owes
  <2>1. WebhookGoto(d, "idle") \/ WebhookGoto(d, "reheld")
    BY Zenon, <1>4 DEF WebhookUnknownOrder, WebhookLateHold, WebhookConfirm, WebhookRelease, WebhookFail
  <2>2. QED
    BY Zenon, <1>2, <2>1
<1>5. ASSUME WebhookDuplicate(d) PROVE Owes
  <2>1. UNCHANGED status /\ (WebhookGoto(d, "idle") \/ (WebhookGoto(d, "confirm") /\ status[o] \in Sold))
    BY Zenon, <1>5 DEF WebhookDuplicate, WebhookOrder, pgVars
  <2>2. QED
    BY Zenon, <1>2, <2>1
<1>6. ASSUME WebhookDecide(d) \/ WebhookLateCommit(d) PROVE Owes
  <2>1. \/ WebhookGoto(d, "idle")
        \/ WebhookGoto(d, "release") /\ Transition(o, "REFUNDING")
        \/ WebhookGoto(d, "confirm") /\ Transition(o, "PAID")
    BY Zenon, <1>6 DEF WebhookDecide, WebhookLateCommit, RefundOrder, Pay
  <2>2. QED
    BY Zenon, <1>2, <1>3, <2>1 DEF Sold
<1>7. QED
  BY Zenon, <1>4, <1>5, <1>6 DEF WebhookHandle, WebhookOrder

(* A webhook request is left alone, begins, or goes on. *)
LEMMA WebhookMoves ==
  ASSUME TypeOK, [Next]_vars, NEW e \in Deliveries
  PROVE  \/ webhook'[e] = webhook[e]
         \/ webhook[e].pc = "idle" /\ webhook'[e].pc = "begun"
         \/ WebhookHandle(e) \/ WebhookFail(e)
<1>1. ASSUME NEW d \in Deliveries, NEW t \in Txns, WebhookBegin(d, t)
      PROVE  webhook'[e] = webhook[e] \/ (webhook[e].pc = "idle" /\ webhook'[e].pc = "begun")
  BY Zenon, <1>1 DEF WebhookBegin, TypeOK
<1>2. ASSUME NEW d \in Deliveries \ {e}, WebhookHandle(d) \/ WebhookFail(d)
      PROVE  webhook'[e] = webhook[e]
  BY Zenon, <1>2, WebhookGoes, GotoFacts
<1>3. CASE UNCHANGED webhook
  BY Zenon, <1>3
<1>4. QED
  BY Zenon, <1>1, <1>2, <1>3 DEF Next, CreateNext, CreateHold, CreateInsert, CreateRelease, CreateFail,
     CancelNext, Cancel, CancelRelease, CancelFail, Issue, RefundNext, Charge, RefundCall, RefundComplete,
     WebhookNext, SweepNext, Expire, SweepLock, SweepRelease, SweepDone, SweepFail, Tick, vars

(* A duty to release or confirm comes with the end or the sale of the      *)
(* order, and the order stays there.                                       *)
LEMMA DutiesStep ==
  ASSUME Quick, HandlerInv, Duties, [Next]_vars
  PROVE  Duties'
<1> USE DEF HandlerInv
<1>1. ASSUME NEW o \in Orders, create'[o].pc = "release" PROVE status'[o] = NoRow
  <2>1. create[o].pc \in {"held", "release"}
    <3>1. ASSUME NEW p \in Orders, CreateNext(p) PROVE create[o].pc \in {"held", "release"}
      <4>1. \/ create' = [create EXCEPT ![p] = [pc |-> "held", at |-> clock]]
            \/ create[p].pc = "held" /\ create' = [create EXCEPT ![p] = [pc |-> "release", at |-> 0]]
            \/ create' = [create EXCEPT ![p] = [pc |-> "done", at |-> 0]]
        BY Zenon, <3>1 DEF CreateNext, CreateHold, CreateInsert, CreateRelease, CreateFail
      <4>2. QED
        BY <1>1, <4>1 DEF TypeOK
    <3>2. CASE UNCHANGED create
      BY Zenon, <1>1, <3>2
    <3>3. QED
      BY Zenon, <3>1, <3>2 DEF Next, CancelNext, Cancel, CancelRelease, CancelFail, Issue, RefundNext, Charge,
         RefundCall, RefundComplete, WebhookNext, WebhookHandle, WebhookBegin, WebhookUnknownOrder,
         WebhookDuplicate, WebhookDecide, WebhookLateHold, WebhookLateCommit, WebhookConfirm,
         WebhookRelease, WebhookFail, SweepNext, Expire, SweepLock, SweepRelease, SweepDone, SweepFail,
         Tick, vars
  <2>2. status[o] = NoRow
    BY Zenon, <2>1 DEF InsertOnce, Duties
  <2>3. ~ DbInsert(o)
    BY Zenon, <1>1 DEF DbInsert, Quick
  <2>4. QED
    BY Zenon, <2>2, <2>3, StatusStays
<1>2. ASSUME NEW o \in cancelling' PROVE status'[o] \in Ended
  <2>1. o \in cancelling \/ (o \in Orders /\ Cancel(o))
    <3>1. ASSUME NEW p \in Orders, CancelNext(p) PROVE o \in cancelling \/ Cancel(o)
      <4>1. cancelling' \subseteq cancelling \/ (cancelling' = cancelling \cup {p} /\ Cancel(p))
        BY Zenon, <3>1 DEF CancelNext, Cancel, CancelRelease, CancelFail
      <4>2. QED
        BY Zenon, <1>2, <4>1
    <3>2. CASE UNCHANGED cancelling
      BY Zenon, <1>2, <3>2
    <3>3. o \in cancelling \/ \E p \in Orders : CancelNext(p)
      BY Zenon, <3>2 DEF Next, CreateNext, CreateHold, CreateInsert, CreateRelease, CreateFail, Issue,
         RefundNext, Charge, RefundCall, RefundComplete, WebhookNext, WebhookHandle, WebhookBegin,
         WebhookUnknownOrder, WebhookDuplicate, WebhookDecide, WebhookLateHold, WebhookLateCommit,
         WebhookConfirm, WebhookRelease, WebhookFail, SweepNext, Expire, SweepLock, SweepRelease,
         SweepDone, SweepFail, Tick, vars
    <3>4. cancelling' \subseteq Orders
      BY Zenon, TypeStep DEF TypeOK
    <3>5. QED
      BY Zenon, <1>2, <3>1, <3>3, <3>4
  <2>2. CASE o \in cancelling
    BY Zenon, <2>2, StatusStays DEF Duties, TypeOK
  <2>3. CASE o \in Orders /\ Cancel(o)
    BY Zenon, <2>3 DEF Cancel, Transition, TypeOK, Ended
  <2>4. QED
    BY Zenon, <2>1, <2>2, <2>3
<1>3. ASSUME NEW e \in Deliveries, webhook'[e].pc \in {"release", "confirm"}
      PROVE  /\ webhook'[e].pc = "release" => status'[OrderOf[webhook'[e].txn]] \in Ended
             /\ webhook'[e].pc = "confirm" => status'[OrderOf[webhook'[e].txn]] \in Sold
  <2>1. CASE webhook'[e] = webhook[e]
    <3>1. OrderOf[webhook[e].txn] \in Orders
      BY Zenon, <1>3, <2>1, RequestAssumption DEF TypeOK
    <3>2. QED
      BY Zenon, <2>1, <3>1, StatusStays DEF Duties, WebhookOrder
  <2>2. CASE WebhookHandle(e) \/ WebhookFail(e)
    <3>1. webhook'[e].txn = webhook[e].txn
      BY Zenon, <1>3, <2>2, WebhookGoes, GotoFacts
    <3>2. QED
      BY Zenon, <2>2, <3>1, WebhookOwes DEF WebhookOrder, Ended
  <2>3. QED
    BY Zenon, <1>3, <2>1, <2>2, WebhookMoves
<1>4. QED
  BY Zenon, <1>1, <1>2, <1>3 DEF Duties, WebhookOrder

(* A row that the expiry worker has locked is left alone by the others. *)
LEMMA LockedRow ==
  ASSUME HandlerInv, [Next]_vars, NEW o \in Orders, lock[o] \in Workers
  PROVE  /\ status'[o] \in {status[o], "HELD"}
         /\ lock'[o] = lock[o] \/ \E w \in Workers : lock[o] = w /\ (SweepDone(w) \/ SweepFail(w))
<1> DEFINE Alone == /\ status'[o] \in {status[o], "HELD"}
                    /\ lock'[o] = lock[o] \/ \E w \in Workers : lock[o] = w /\ (SweepDone(w) \/ SweepFail(w))
<1> USE DEF HandlerInv
<1>1. TypeOK /\ lock[o] # None /\ lock[o] \notin Deliveries
  BY Zenon, NamesAssumption
<1>2. ASSUME NEW p, lock[p] \notin Workers, NEW to, Transition(p, to) PROVE status'[o] = status[o]
  BY Zenon, <1>1, <1>2 DEF Transition, TypeOK
<1>3. ASSUME NEW by, lock' = Unlocked(by), by # lock[o] PROVE lock'[o] = lock[o]
  BY Zenon, <1>3 DEF Unlocked
<1>4. None \notin Workers
  BY Zenon, NamesAssumption
<1>5. ASSUME NEW p \in Orders, CreateNext(p) PROVE Alone
  BY Zenon, <1>1, <1>5 DEF CreateNext, CreateHold, CreateInsert, InsertHeld, CreateRelease, CreateFail, pgVars, TypeOK
<1>6. ASSUME NEW p \in Orders, CancelNext(p) \/ Issue(p) PROVE Alone
  BY Zenon, <1>1, <1>2, <1>4, <1>6 DEF CancelNext, Cancel, CancelRelease, CancelFail, Issue, pgVars
<1>7. ASSUME NEW t \in Txns, Charge(t) \/ RefundNext(t) PROVE Alone
  BY Zenon, <1>1, <1>2, <1>4, <1>7 DEF Charge, RefundNext, RefundCall, RefundComplete, pgVars
<1>8. ASSUME NEW d \in Deliveries, WebhookNext(d) PROVE Alone
  <2>1. CASE WebhookDecide(d)
    BY Zenon, <1>1, <1>2, <1>4, <2>1 DEF WebhookDecide, FirstDelivery, WebhookOrder, Pay, RefundOrder
  <2>2. CASE WebhookLateHold(d)
    <3>1. lock[WebhookOrder(d)] = None
      BY Zenon, <2>2 DEF WebhookLateHold, FirstDelivery
    <3>2. UNCHANGED status \/ Transition(WebhookOrder(d), "REFUNDING")
      BY Zenon, <2>2 DEF WebhookLateHold, WebhookOrder, RefundOrder, pgVars
    <3>3. lock' = [lock EXCEPT ![WebhookOrder(d)] = d] \/ UNCHANGED lock
      BY Zenon, <2>2 DEF WebhookLateHold, WebhookOrder
    <3>4. QED
      BY Zenon, <1>1, <1>2, <1>4, <3>1, <3>2, <3>3 DEF TypeOK
  <2>3. CASE WebhookLateCommit(d)
    <3>1. lock[WebhookOrder(d)] = d
      BY Zenon, <2>3 DEF WebhookLateCommit, LateUnderLock
    <3>2. \E to : Transition(WebhookOrder(d), to)
      BY Zenon, <2>3 DEF WebhookLateCommit, WebhookOrder, RefundOrder, Pay
    <3>3. d \notin Workers
      BY Zenon, NamesAssumption
    <3>4. lock'[o] = lock[o]
      BY Zenon, <1>1, <1>3, <2>3 DEF WebhookLateCommit
    <3>5. QED
      BY Zenon, <1>2, <3>1, <3>2, <3>3, <3>4
  <2>4. CASE WebhookFail(d)
    BY Zenon, <1>1, <1>3, <2>4 DEF WebhookFail, pgVars
  <2>5. QED
    BY Zenon, <1>8, <2>1, <2>2, <2>3, <2>4 DEF WebhookNext, WebhookBegin, WebhookHandle, WebhookUnknownOrder,
       WebhookDuplicate, WebhookConfirm, WebhookRelease, pgVars
<1>9. ASSUME NEW w \in Workers, SweepNext(w) PROVE Alone
  <2>1. CASE Expire(w)
    BY Zenon, <1>1, <2>1 DEF Expire, Batches, Due
  <2>2. CASE SweepLock(w)
    BY Zenon, <1>1, <2>2 DEF SweepLock, pgVars
  <2>3. CASE SweepRelease(w)
    BY Zenon, <2>3 DEF SweepRelease, pgVars
  <2>4. CASE SweepDone(w) \/ SweepFail(w)
    <3>1. lock' = Unlocked(w) /\ UNCHANGED status
      BY Zenon, <2>4 DEF SweepDone, SweepFail, pgVars
    <3>2. QED
      BY Zenon, <1>3, <2>4, <3>1
  <2>5. QED
    BY Zenon, <1>9, <2>1, <2>2, <2>3, <2>4 DEF SweepNext
<1>10. QED
  BY Zenon, <1>5, <1>6, <1>7, <1>8, <1>9 DEF Next, Tick, pgVars, vars

(* The worker only ever has orders in its batch that have expired, and     *)
(* once it has locked them none of them is sold.                           *)
LEMMA SweepsStep ==
  ASSUME HandlerInv, Sweeps, [Next]_vars
  PROVE  Sweeps'
<1> USE DEF HandlerInv
<1>1. SUFFICES ASSUME NEW w \in Workers, NEW o \in sweep'[w].batch
               PROVE  /\ status'[o] \notin {NoRow, "HELD"}
                      /\ sweep'[w].pc = "locked" => lock'[o] = w /\ status'[o] \notin Sold
  BY Zenon DEF Sweeps
<1>2. TypeOK' /\ o \in Orders
  BY Zenon, TypeStep DEF TypeOK, SweepState
<1> DEFINE Fine == /\ status'[o] \notin {NoRow, "HELD"}
                   /\ sweep'[w].pc = "locked" => lock'[o] = w /\ status'[o] \notin Sold
<1>3. ASSUME o \in sweep[w].batch, sweep'[w].pc = sweep[w].pc, ~ SweepDone(w), ~ SweepFail(w)
      PROVE  Fine
  <2>1. status[o] \notin {NoRow, "HELD"} /\ status'[o] \notin {NoRow, "HELD"}
    BY Zenon, <1>2, <1>3, StatusStays DEF Sweeps
  <2>2. ASSUME sweep[w].pc = "locked" PROVE lock'[o] = w /\ status'[o] \notin Sold
    <3>1. lock[o] = w /\ status[o] \notin Sold
      BY Zenon, <1>3, <2>2 DEF Sweeps
    <3>2. QED
      BY Zenon, <1>2, <1>3, <2>1, <3>1, LockedRow
  <2>3. QED
    BY Zenon, <1>3, <2>1, <2>2
<1>4. ASSUME Expire(w) PROVE Fine
  <2>1. PICK batch \in Batches(Due) :
          /\ status' = [p \in Orders |-> IF p \in batch THEN "EXPIRED" ELSE status[p]]
          /\ sweep' = [sweep EXCEPT ![w] = [pc |-> "expired", batch |-> batch]]
    BY Zenon, <1>4 DEF Expire
  <2>2. sweep'[w].pc = "expired" /\ sweep'[w].batch = batch
    BY <2>1 DEF TypeOK
  <2>3. status'[o] = "EXPIRED"
    BY Zenon, <1>1, <1>2, <2>1, <2>2
  <2>4. "EXPIRED" \notin {NoRow, "HELD"} /\ "expired" # "locked"
    BY DEF NoRow
  <2>5. QED
    BY Zenon, <2>2, <2>3, <2>4
<1>5. ASSUME SweepLock(w) PROVE Fine
  <2>1. o \in sweep[w].batch /\ status[o] \notin Sold
    <3>1. sweep'[w].batch = {p \in sweep[w].batch : status[p] \notin Sold}
      BY <1>5 DEF SweepLock, TypeOK
    <3>2. QED
      BY Zenon, <1>1, <3>1
  <2>2. UNCHANGED status /\ lock'[o] = w
    BY Zenon, <1>2, <1>5, <2>1 DEF SweepLock, pgVars
  <2>3. QED
    BY Zenon, <2>1, <2>2 DEF Sweeps
<1>6. ASSUME SweepRelease(w) PROVE Fine
  <2>1. PICK p \in sweep[w].batch : sweep' = [sweep EXCEPT ![w].batch = @ \ {p}]
    BY Zenon, <1>6 DEF SweepRelease
  <2>2. sweep'[w].batch = sweep[w].batch \ {p} /\ sweep'[w].pc = sweep[w].pc
    BY <2>1 DEF TypeOK, SweepState
  <2>3. UNCHANGED <<status, lock>>
    BY Zenon, <1>6 DEF SweepRelease, pgVars
  <2>4. QED
    BY Zenon, <1>1, <2>2, <2>3 DEF Sweeps
<1>7. ASSUME SweepDone(w) \/ SweepFail(w) PROVE Fine
  <2>1. sweep'[w].batch = {}
    BY <1>7 DEF SweepDone, SweepFail, IdleSweep, TypeOK
  <2>2. QED
    BY Zenon, <1>1, <2>1
<1>8. ASSUME NEW v \in Workers \ {w}, SweepNext(v) PROVE sweep'[w] = sweep[w]
  <2>1. \E x : sweep' = [sweep EXCEPT ![v] = x]
    BY Zenon, <1>8 DEF SweepNext, Expire, SweepLock, SweepRelease, SweepDone, SweepFail
  <2>2. QED
    BY Zenon, <1>8, <2>1 DEF TypeOK
<1>9. SweepNext(w) \/ sweep'[w] = sweep[w]
  BY Zenon, <1>8 DEF Next, CreateNext, CreateHold, CreateInsert, CreateRelease, CreateFail, CancelNext, Cancel,
     CancelRelease, CancelFail, Issue, RefundNext, Charge, RefundCall, RefundComplete,
     WebhookNext, WebhookHandle, WebhookBegin, WebhookUnknownOrder, WebhookDuplicate, WebhookDecide,
     WebhookLateHold, WebhookLateCommit, WebhookConfirm, WebhookRelease, WebhookFail, Tick, vars
<1>10. QED
  BY Zenon, <1>1, <1>3, <1>4, <1>5, <1>6, <1>7, <1>9 DEF SweepNext

(* The steps in which order o comes to rely on its seats, or sells them. *)
Touches(o) ==
  \/ CreateHold(o) \/ CreateInsert(o)
  \/ \E d \in Deliveries : /\ WebhookOrder(d) = o
                           /\ \/ WebhookDecide(d) /\ Decision(d) = "onTime"
                              \/ WebhookLateHold(d) \/ WebhookLateCommit(d) \/ WebhookConfirm(d)

(* The steps in which its seats are released. *)
Releases(o) ==
  \/ CreateRelease(o) \/ CancelRelease(o)
  \/ \E d \in Deliveries : WebhookOrder(d) = o /\ WebhookRelease(d)
  \/ \E w \in Workers : o \in sweep[w].batch /\ SweepRelease(w)

(* A create request is left alone, or takes a step of its own. *)
LEMMA CreateMoves ==
  ASSUME Quick, TypeOK, [Next]_vars, NEW o \in Orders
  PROVE  \/ create'[o] = create[o]
         \/ CreateHold(o) \/ CreateInsert(o)
         \/ CreateRelease(o) /\ create'[o].pc = "done"
<1>1. ASSUME NEW p \in Orders \ {o}, CreateNext(p) PROVE create'[o] = create[o]
  <2>1. \E x : create' = [create EXCEPT ![p] = x]
    BY Zenon, <1>1 DEF CreateNext, CreateHold, CreateInsert, CreateRelease, CreateFail
  <2>2. QED
    BY Zenon, <1>1, <2>1 DEF TypeOK
<1>2. ASSUME CreateRelease(o) PROVE create'[o].pc = "done"
  BY <1>2 DEF CreateRelease, TypeOK
<1>3. ~ CreateFail(o)
  BY Zenon DEF CreateFail, Quick
<1>4. CreateNext(o) => CreateHold(o) \/ CreateInsert(o) \/ CreateRelease(o)
  BY Zenon, <1>3 DEF CreateNext
<1>5. create'[o] = create[o] \/ \E p \in Orders : CreateNext(p)
  BY Zenon DEF Next, CancelNext, Cancel, CancelRelease, CancelFail, Issue,
     RefundNext, Charge, RefundCall, RefundComplete, WebhookNext, WebhookHandle, WebhookBegin,
     WebhookUnknownOrder, WebhookDuplicate, WebhookDecide, WebhookLateHold, WebhookLateCommit,
     WebhookConfirm, WebhookRelease, WebhookFail, SweepNext, Expire, SweepLock, SweepRelease,
     SweepDone, SweepFail, Tick, vars
<1>6. QED
  BY Zenon, <1>1, <1>2, <1>4, <1>5

(* An order that is HELD was HELD, with the same deadline, unless it is    *)
(* inserted.                                                               *)
LEMMA HeldSince ==
  ASSUME Quick, HandlerInv, [Next]_vars, NEW o \in Orders, ~ CreateInsert(o), status'[o] = "HELD"
  PROVE  status[o] = "HELD" /\ holdExpiresAt'[o] = holdExpiresAt[o]
<1> USE DEF HandlerInv
<1>1. DbNext /\ TypeOK
  BY Zenon, StepKinds
<1>2. ~ DbInsert(o)
  <2>1. SUFFICES ASSUME DbInsert(o) PROVE FALSE
    OBVIOUS
  <2>2. create[o].pc = "held" /\ create'[o].pc \in {"release", "done"}
    BY Zenon, <2>1 DEF DbInsert
  <2>3. create'[o] # create[o] /\ ~ CreateHold(o) /\ ~ CreateRelease(o)
    BY Zenon, <2>2 DEF CreateHold, CreateRelease
  <2>4. QED
    BY Zenon, <2>3, CreateMoves
<1>3. status[o] = "HELD"
  BY Zenon, <1>2, StatusStays
<1>4. ASSUME NEW p \in Orders, DbInsert(p) PROVE holdExpiresAt'[o] = holdExpiresAt[o]
  BY Zenon, <1>1, <1>2, <1>4 DEF DbInsert, InsertHeld, TypeOK
<1>5. ASSUME NEW t \in Txns, \/ DbCharge(t) \/ DbReturn(t) \/ DbComplete(t)
                             \/ DbIgnore(t) \/ DbDouble(t) \/ DbRefund(t) \/ DbPay(t)
      PROVE  UNCHANGED holdExpiresAt
  BY Zenon, <1>5 DEF DbCharge, Charge, DbReturn, DbComplete, DbIgnore, DbDouble, DbRefund, RefundOrder,
     DbPay, Pay, pgVars
<1>6. QED
  BY Zenon, <1>1, <1>3, <1>4, <1>5 DEF DbNext, DbMove, DbExpire, pgVars

(* An order is sold by a webhook request of its own only. *)
LEMMA SoldSince ==
  ASSUME HandlerInv, [Next]_vars, NEW o \in Orders, ~ Touches(o), status'[o] \in Sold
  PROVE  status[o] \in Sold
<1> USE DEF HandlerInv
<1>1. SUFFICES ASSUME status[o] \notin Sold PROVE FALSE
  OBVIOUS
<1>2. ASSUME NEW p \in Orders, NEW to, to \notin Sold \/ p # o, Transition(p, to) PROVE FALSE
  BY Zenon, <1>1, <1>2 DEF Transition, TypeOK
<1>3. \A to \in {"HELD", "CANCELLED", "EXPIRED", "REFUNDING", "REFUNDED"} : to \notin Sold
  BY DEF Sold
<1>4. ASSUME UNCHANGED status PROVE FALSE
  BY Zenon, <1>1, <1>4
<1>5. ASSUME NEW p \in Orders, CreateNext(p) PROVE FALSE
  BY Zenon, <1>1, <1>3, <1>4, <1>5 DEF CreateNext, CreateHold, CreateInsert, InsertHeld, CreateRelease, CreateFail,
     pgVars, TypeOK
<1>6. ASSUME NEW p \in Orders, CancelNext(p) PROVE FALSE
  BY Zenon, <1>2, <1>3, <1>4, <1>6 DEF CancelNext, Cancel, CancelRelease, CancelFail, pgVars
<1>7. ASSUME NEW p \in Orders, Issue(p) PROVE FALSE
  BY Zenon, <1>1, <1>2, <1>7 DEF Issue, Sold
<1>8. ASSUME NEW t \in Txns, Charge(t) \/ RefundNext(t) PROVE FALSE
  BY Zenon, <1>2, <1>3, <1>4, <1>8, RequestAssumption DEF Charge, RefundNext, RefundCall, RefundComplete, pgVars
<1>9. ASSUME NEW d \in Deliveries, WebhookDecide(d) \/ WebhookLateHold(d) \/ WebhookLateCommit(d) PROVE FALSE
  <2>1. webhook[d].pc # "idle"
    BY Zenon, <1>9 DEF WebhookDecide, WebhookLateHold, WebhookLateCommit, FirstDelivery
  <2>2. WebhookOrder(d) \in Orders
    BY Zenon, <2>1, RequestAssumption DEF WebhookOrder, TypeOK
  <2>3. WebhookOrder(d) # o \/ (WebhookDecide(d) /\ Decision(d) # "onTime")
    BY Zenon, <1>9 DEF Touches
  <2>4. \/ UNCHANGED status
        \/ Transition(WebhookOrder(d), "REFUNDING")
        \/ Transition(WebhookOrder(d), "PAID") /\ WebhookOrder(d) # o
    BY Zenon, <1>9, <2>3 DEF WebhookDecide, WebhookLateHold, WebhookLateCommit, RefundOrder, Pay, WebhookOrder, pgVars
  <2>5. QED
    BY Zenon, <1>2, <1>3, <1>4, <2>2, <2>4
<1>10. ASSUME NEW d \in Deliveries, WebhookNext(d) PROVE FALSE
  BY Zenon, <1>4, <1>9, <1>10 DEF WebhookNext, WebhookBegin, WebhookHandle, WebhookUnknownOrder,
     WebhookDuplicate, WebhookConfirm, WebhookRelease, WebhookFail, pgVars
<1>11. ASSUME NEW w \in Workers, SweepNext(w) PROVE FALSE
  BY Zenon, <1>1, <1>3, <1>4, <1>11 DEF SweepNext, Expire, SweepLock, SweepRelease, SweepDone, SweepFail, pgVars
<1>12. QED
  BY Zenon, <1>4, <1>5, <1>6, <1>7, <1>8, <1>10, <1>11 DEF Next, Tick, pgVars, vars

(* No other step makes order o rely on anything new. *)
LEMMA UntouchedQuiet ==
  ASSUME Quick, HandlerInv, [Next]_vars, NEW o \in Orders, ~ Touches(o)
  PROVE  Quiet(o)
<1>1. create'[o].pc = "held" => create'[o] = create[o]
  BY Zenon, CreateMoves DEF Touches, HandlerInv
<1>2. status'[o] = "HELD" => status[o] = "HELD" /\ holdExpiresAt'[o] = holdExpiresAt[o]
  BY Zenon, HeldSince DEF Touches
<1>3. status'[o] \in Sold => status[o] \in Sold
  BY Zenon, SoldSince
<1>4. ASSUME NEW d \in Deliveries, webhook'[d] # webhook[d]
      PROVE  ~ Reheld(d, o) /\ ~ Reheld(d, o)' /\ ~ Confirms(d, o)
  <2>1. CASE webhook[d].pc = "idle" /\ webhook'[d].pc = "begun"
    BY Zenon, <2>1 DEF Reheld, Confirms
  <2>2. CASE WebhookHandle(d) /\ WebhookOrder(d) # o
    <3>1. webhook'[d].pc = "idle" \/ webhook'[d].txn = webhook[d].txn
      BY Zenon, <2>2, WebhookGoes, GotoFacts DEF HandlerInv
    <3>2. QED
      BY Zenon, <2>2, <3>1 DEF Reheld, Confirms, WebhookOrder
  <2>3. CASE WebhookHandle(d) /\ WebhookOrder(d) = o
    <3>1. WebhookUnknownOrder(d) \/ WebhookDuplicate(d) \/ WebhookRelease(d)
          \/ (WebhookDecide(d) /\ Decision(d) # "onTime")
      BY Zenon, <2>3 DEF WebhookHandle, Touches
    <3>2. webhook[d].pc \in {"begun", "release"}
      BY Zenon, <3>1 DEF WebhookUnknownOrder, WebhookDuplicate, WebhookRelease, WebhookDecide, FirstDelivery
    <3>3. \E pc \in {"idle", "confirm", "release"} : WebhookGoto(d, pc)
      BY Zenon, <3>1 DEF WebhookUnknownOrder, WebhookDuplicate, WebhookRelease, WebhookDecide
    <3>4. webhook'[d].pc # "reheld"
      BY Zenon, <3>3, GotoFacts DEF HandlerInv
    <3>5. QED
      BY Zenon, <3>2, <3>4 DEF Reheld, Confirms
  <2>4. ~ WebhookFail(d)
    BY Zenon DEF WebhookFail, Quick
  <2>5. QED
    BY Zenon, <1>4, <2>1, <2>2, <2>3, <2>4, WebhookMoves DEF HandlerInv
<1>5. QED
  BY Zenon, <1>1, <1>2, <1>3, <1>4 DEF Quiet

(* No other step takes its seats away. *)
LEMMA UntouchedKeeps ==
  ASSUME Quick, HandlerInv, [Next]_vars, NEW o \in Orders, ~ Touches(o), ~ Releases(o)
  PROVE  Keeps(o)
<1> USE DEF HandlerInv
<1>1. ASSUME NEW p \in Orders \ {o}, keys' = ReleaseSeats(keys, SeatsOf[p], p) PROVE Keeps(o)
  BY Zenon, <1>1, ReleaseKeeps
<1>2. ASSUME NEW p \in Orders \ {o}, NEW until \in Nat, Taken(keys, SeatsOf[p], p) = {},
             keys' = HoldSeats(keys, SeatsOf[p], p, until)
      PROVE  Keeps(o)
  BY Zenon, <1>2, HoldKeeps
<1>3. ASSUME UNCHANGED keys PROVE Keeps(o)
  BY Zenon, <1>3, SameKeeps
<1>4. clock + HoldTTL + HoldGrace \in Nat /\ clock + LateHoldTTL \in Nat
  BY TimesAssumption DEF TypeOK
<1>5. ASSUME NEW p \in Orders, CreateNext(p) PROVE Keeps(o)
  <2>1. CASE CreateHold(p)
    BY Zenon, <1>2, <1>3, <1>4, <2>1 DEF CreateHold, Touches
  <2>2. CASE CreateRelease(p)
    BY Zenon, <1>1, <2>2 DEF CreateRelease, Releases
  <2>3. QED
    BY Zenon, <1>3, <1>5, <2>1, <2>2 DEF CreateNext, CreateInsert, CreateFail
<1>6. ASSUME NEW p \in Orders, CancelNext(p) PROVE Keeps(o)
  BY Zenon, <1>1, <1>3, <1>6 DEF CancelNext, Cancel, CancelRelease, CancelFail, Releases
<1>7. ASSUME NEW d \in Deliveries, WebhookHandle(d) PROVE Keeps(o)
  <2>1. WebhookOrder(d) \in Orders
    BY Zenon, <1>7, WebhookGoes, RequestAssumption DEF WebhookOrder, TypeOK
  <2>2. CASE WebhookLateHold(d)
    <3>1. UNCHANGED keys \/ (/\ Taken(keys, SeatsOf[WebhookOrder(d)], WebhookOrder(d)) = {}
                             /\ keys' = HoldSeats(keys, SeatsOf[WebhookOrder(d)], WebhookOrder(d), clock + LateHoldTTL))
      BY Zenon, <2>2 DEF WebhookLateHold, WebhookOrder
    <3>2. WebhookOrder(d) # o
      BY Zenon, <2>2 DEF Touches
    <3>3. QED
      BY Zenon, <1>2, <1>3, <1>4, <2>1, <3>1, <3>2
  <2>3. CASE WebhookConfirm(d)
    BY Zenon, <2>1, <2>3, ConfirmKeeps DEF WebhookConfirm, Touches
  <2>4. CASE WebhookRelease(d)
    BY Zenon, <1>1, <2>1, <2>4 DEF WebhookRelease, Releases
  <2>5. QED
    BY Zenon, <1>3, <1>7, <2>2, <2>3, <2>4 DEF WebhookHandle, WebhookUnknownOrder,
       WebhookDuplicate, WebhookDecide, WebhookLateCommit
<1>8. ASSUME NEW w \in Workers, SweepNext(w) PROVE Keeps(o)
  <2>1. CASE SweepRelease(w)
    <3>1. PICK p \in sweep[w].batch : UNCHANGED keys \/ keys' = ReleaseSeats(keys, SeatsOf[p], p)
      BY Zenon, <2>1 DEF SweepRelease
    <3>2. p \in Orders \ {o}
      BY Zenon, <2>1, <3>1 DEF Releases, TypeOK, SweepState
    <3>3. QED
      BY Zenon, <1>1, <1>3, <3>1, <3>2
  <2>2. QED
    BY Zenon, <1>3, <1>8, <2>1 DEF SweepNext, Expire, SweepLock, SweepDone, SweepFail
<1>9. CASE Tick
  BY Zenon, <1>9, LapseKeeps
<1>10. QED
  BY Zenon, <1>3, <1>5, <1>6, <1>7, <1>8, <1>9 DEF Next, Issue, Charge, RefundNext, RefundCall, RefundComplete,
     WebhookNext, WebhookBegin, WebhookFail, vars

(* An order that relies on nothing needs no seats. *)
LEMMA RestCover ==
  ASSUME NEW o \in Orders, create'[o].pc # "held", status'[o] # "HELD", status'[o] \notin Sold,
         \A d \in Deliveries : ~ Reheld(d, o)'
  PROVE  CoverOf(o)'
BY Zenon DEF CoverOf, Relies

(* A late payment has the order lock. *)
LEMMA ReheldLock ==
  ASSUME HandlerInv, NEW o, NEW d \in Deliveries, Reheld(d, o)
  PROVE  lock[o] = d
BY Zenon DEF HandlerInv, LateUnderLock, Reheld

(* The rows of requests in flight are NO_ROW, HELD or EXPIRED. *)
LEMMA NotInFlight ==
  ASSUME HandlerInv', NEW o \in Orders
  PROVE  /\ status'[o] # NoRow => create'[o].pc # "held"
         /\ status'[o] \notin {"HELD", "EXPIRED"} => \A d \in Deliveries : ~ Reheld(d, o)'
<1>1. status'[o] # NoRow => create'[o].pc # "held"
  BY Zenon DEF HandlerInv, InsertOnce
<1>2. LateUnderLock'
  BY Zenon DEF HandlerInv
<1>3. ASSUME NEW d \in Deliveries, Reheld(d, o)' PROVE status'[o] \in {"HELD", "EXPIRED"}
  <2>1. webhook'[d].pc = "reheld" /\ WebhookOrder(d)' = o
    BY Zenon, <1>3 DEF Reheld
  <2>2. status'[WebhookOrder(d)'] \in {"HELD", "EXPIRED"}
    BY Zenon, <1>2, <2>1 DEF LateUnderLock
  <2>3. QED
    BY Zenon, <2>1, <2>2
<1>4. QED
  BY Zenon, <1>1, <1>3

(* In particular one that has ended. *)
LEMMA EndCover ==
  ASSUME HandlerInv', NEW o \in Orders, status'[o] \in Ended
  PROVE  CoverOf(o)'
<1>1. \A st \in Ended : st \notin {NoRow, "HELD", "EXPIRED"} /\ st \notin Sold
  BY DEF Ended, Sold, NoRow
<1>2. QED
  BY Zenon, <1>1, RestCover, NotInFlight

(* A sold order relies on its seats by being sold only. *)
LEMMA SoldCover ==
  ASSUME HandlerInv', NEW o \in Orders, status'[o] \in Sold,
         Confirmed(o)' \/ \E d \in Deliveries : Confirms(d, o)' /\ Covered(o, webhook[d].now + MaxDelay)'
  PROVE  CoverOf(o)'
<1>1. \A st \in Sold : st \notin {NoRow, "HELD", "EXPIRED"}
  BY DEF Sold, NoRow
<1>2. create'[o].pc # "held" /\ status'[o] # "HELD" /\ \A d \in Deliveries : ~ Reheld(d, o)'
  BY Zenon, <1>1, NotInFlight
<1>3. QED
  BY Zenon, <1>2 DEF CoverOf, Relies

(* The seats of an order are released when it relies on them no more. *)
LEMMA ReleaseCover ==
  ASSUME Quick, HandlerInv, HandlerInv', [Next]_vars, Duties, Sweeps, NEW o \in Orders, Releases(o)
  PROVE  CoverOf(o)'
<1> USE DEF HandlerInv
<1>1. NoRow \notin Sold /\ NoRow \notin {"HELD", "EXPIRED"}
  BY DEF Sold, NoRow
<1>2. CASE CreateRelease(o)
  <2>1. status'[o] = NoRow
    BY Zenon, <1>2 DEF CreateRelease, Duties, pgVars
  <2>2. create'[o].pc = "done"
    BY <1>2 DEF CreateRelease, TypeOK
  <2>3. \A d \in Deliveries : ~ Reheld(d, o)'
    BY Zenon, <1>1, <2>1, NotInFlight
  <2>4. QED
    BY Zenon, <1>1, <2>1, <2>2, <2>3, RestCover
<1>3. CASE CancelRelease(o)
  BY Zenon, <1>3, EndCover DEF CancelRelease, Duties, pgVars
<1>4. ASSUME NEW d \in Deliveries, WebhookOrder(d) = o, WebhookRelease(d) PROVE CoverOf(o)'
  BY Zenon, <1>4, EndCover DEF WebhookRelease, Duties, pgVars
<1>5. ASSUME NEW w \in Workers, o \in sweep[w].batch, SweepRelease(w) PROVE CoverOf(o)'
  <2>1. UNCHANGED <<status, create, webhook>>
    BY Zenon, <1>5 DEF SweepRelease, pgVars
  <2>2. status[o] \notin {NoRow, "HELD"} /\ lock[o] = w /\ status[o] \notin Sold
    BY Zenon, <1>5 DEF SweepRelease, Sweeps
  <2>3. \A d \in Deliveries : ~ Reheld(d, o)
    BY Zenon, <2>2, ReheldLock, NamesAssumption
  <2>4. create[o].pc # "held"
    BY Zenon, <2>2 DEF InsertOnce
  <2>5. QED
    BY Zenon, <2>1, <2>2, <2>3, <2>4, RestCover DEF Reheld, WebhookOrder
<1>6. QED
  BY Zenon, <1>2, <1>3, <1>4, <1>5 DEF Releases

(* Seats held until t are held until any earlier time. *)
LEMMA CoveredEarlier ==
  ASSUME TypeOK, NEW o \in Orders, NEW t \in Int, NEW u \in Int, u <= t, Covered(o, t)
  PROVE  Covered(o, u)
<1>1. SUFFICES ASSUME NEW s \in SeatsOf[o] PROVE HeldBy(keys[s], o) /\ u <= keys[s].until
  BY Zenon DEF Covered
<1>2. HeldBy(keys[s], o) /\ t <= keys[s].until
  BY Zenon, <1>1 DEF Covered
<1>3. keys[s].until \in Nat
  BY Zenon, SeatFacts DEF SeatKey
<1>4. QED
  BY <1>2, <1>3

(* Creating an order: the hold outlives the deadline the insert sets. *)
LEMMA CreateCover ==
  ASSUME Quick, HandlerInv, HandlerInv', Ages, NEW o \in Orders, CoverOf(o), CreateHold(o) \/ CreateInsert(o)
  PROVE  CoverOf(o)'
<1> USE DEF HandlerInv
<1>1. status[o] = NoRow /\ NoRow \notin Sold /\ NoRow \notin {"HELD", "EXPIRED"}
  <2>1. status[o] = NoRow
    BY Zenon DEF CreateHold, CreateInsert, InsertOnce
  <2>2. QED
    BY Zenon, <2>1 DEF Sold, NoRow
<1>2. \A d \in Deliveries : ~ Reheld(d, o)
  BY Zenon, <1>1 DEF LateUnderLock, Reheld
<1>3. UNCHANGED <<clock, webhook>>
  BY Zenon DEF CreateHold, CreateInsert
<1>4. \A d \in Deliveries : ~ Reheld(d, o)'
  BY Zenon, <1>2, <1>3 DEF Reheld, WebhookOrder
<1>5. ASSUME create'[o].pc # "held", UNCHANGED status PROVE CoverOf(o)'
  BY Zenon, <1>1, <1>4, <1>5, RestCover
<1>6. CASE CreateHold(o)
  <2>1. UNCHANGED status
    BY Zenon, <1>6 DEF CreateHold, pgVars
  <2>2. CASE Taken(keys, SeatsOf[o], o) # {}
    <3>1. create'[o].pc # "held"
      BY <1>6, <2>2 DEF CreateHold, TypeOK
    <3>2. QED
      BY Zenon, <1>5, <2>1, <3>1
  <2>3. CASE Taken(keys, SeatsOf[o], o) = {}
    <3>1. PICK until : until = clock + HoldTTL + HoldGrace
      OBVIOUS
    <3>2. until \in Nat
      BY <3>1, TimesAssumption DEF TypeOK
    <3>3. keys' = HoldSeats(keys, SeatsOf[o], o, until)
      BY Zenon, <1>6, <2>3, <3>1 DEF CreateHold
    <3>4. Covered(o, until)'
      <4>1. until \in Int /\ until <= until
        BY <3>2
      <4>2. QED
        BY Zenon, <2>3, <3>2, <3>3, <4>1, HoldKeeps
    <3>5. create'[o].at = clock
      BY <1>6, <2>3 DEF CreateHold, TypeOK
    <3>6. \A t : Relies(o, t)' => t = until
      BY Zenon, <1>1, <1>4, <2>1, <3>1, <3>5 DEF Relies
    <3>7. QED
      BY Zenon, <1>1, <2>1, <3>4, <3>6 DEF CoverOf
  <2>4. QED
    BY Zenon, <2>2, <2>3
<1>7. CASE CreateInsert(o)
  <2>1. create'[o].pc # "held" /\ create[o].pc = "held"
    BY <1>7 DEF CreateInsert, TypeOK
  <2>2. CASE UNCHANGED status
    BY Zenon, <1>5, <2>1, <2>2
  <2>3. CASE InsertHeld(o)
    <3>1. PICK now \in create[o].at .. clock : holdExpiresAt' = [holdExpiresAt EXCEPT ![o] = now + HoldTTL]
      BY Zenon, <2>3 DEF InsertHeld
    <3>2. holdExpiresAt'[o] = now + HoldTTL
      BY Zenon, <3>1 DEF TypeOK
    <3>3. PICK until : until = create[o].at + HoldTTL + HoldGrace
      OBVIOUS
    <3>4. PICK t : t = now + HoldTTL + HoldGrace - MaxDelay
      OBVIOUS
    <3>5. create[o].at \in Nat /\ clock \in Nat /\ clock <= create[o].at + MaxDelay
      BY Zenon, <2>1 DEF TypeOK, CreateState, Ages
    <3>6. until \in Int /\ t \in Int /\ clock <= until /\ t <= until
      BY <3>1, <3>3, <3>4, <3>5, TimesAssumption DEF Quick
    <3>7. Relies(o, until)
      BY Zenon, <2>1, <3>3 DEF Relies
    <3>8. Covered(o, t)
      BY Zenon, <3>6, <3>7, CoveredEarlier DEF CoverOf
    <3>9. UNCHANGED keys
      BY Zenon, <1>7 DEF CreateInsert
    <3>10. Covered(o, t)'
      BY Zenon, <3>8, <3>9 DEF Covered
    <3>11. \A u : Relies(o, u)' => u = t
      BY Zenon, <1>4, <2>1, <3>2, <3>4 DEF Relies
    <3>12. status'[o] \notin Sold
      <4>1. status'[o] = "HELD"
        BY Zenon, <2>3 DEF InsertHeld, TypeOK
      <4>2. QED
        BY <4>1 DEF Sold
    <3>13. QED
      BY Zenon, <3>10, <3>11, <3>12 DEF CoverOf
  <2>4. QED
    BY Zenon, <1>7, <2>2, <2>3 DEF CreateInsert, pgVars
<1>8. QED
  BY Zenon, <1>6, <1>7

(* When decide looks at a HELD order in time, and when a late payment goes *)
(* on to its tickets, the seats are held until the request has ended.      *)
LEMMA PaidInTime ==
  ASSUME Quick, HandlerInv, Ages, CoverInv, NEW d \in Deliveries,
         \/ FirstDelivery(d) /\ Decision(d) = "onTime"
         \/ webhook[d].pc = "reheld"
  PROVE  /\ WebhookOrder(d) \in Orders
         /\ status[WebhookOrder(d)] \in {"HELD", "EXPIRED"}
         /\ Covered(WebhookOrder(d), webhook[d].now + MaxDelay)
<1> USE DEF HandlerInv
<1> DEFINE o == WebhookOrder(d)
<1>1. webhook[d].pc # "idle" /\ webhook[d].txn \in Txns /\ webhook[d].now \in Nat /\ clock \in Nat
  <2>1. webhook[d].pc # "idle"
    BY Zenon DEF FirstDelivery
  <2>2. QED
    BY Zenon, <2>1 DEF TypeOK, WebhookState
<1>2. o \in Orders /\ holdExpiresAt[o] \in Nat
  BY Zenon, <1>1, RequestAssumption DEF WebhookOrder, TypeOK
<1>3. clock <= webhook[d].now + MaxDelay
  BY Zenon, <1>1 DEF Ages
<1>4. CASE webhook[d].pc = "reheld"
  <2>1. PICK t : t = webhook[d].now + MaxDelay
    OBVIOUS
  <2>2. t \in Int /\ clock <= t
    BY <1>1, <1>3, <2>1, TimesAssumption
  <2>3. Relies(o, t)
    BY Zenon, <1>4, <2>1 DEF Relies, Reheld
  <2>4. status[o] \in {"HELD", "EXPIRED"}
    BY Zenon, <1>4 DEF LateUnderLock
  <2>5. QED
    BY Zenon, <1>2, <2>1, <2>2, <2>3, <2>4 DEF CoverInv, CoverOf
<1>5. CASE FirstDelivery(d) /\ Decision(d) = "onTime"
  <2>1. status[o] = "HELD" /\ HoldActive(d)
    BY <1>5 DEF Decision, Decide
  <2>2. \A e \in Deliveries : ~ Reheld(e, o)
    <3>1. lock[o] = None
      BY Zenon, <1>5 DEF FirstDelivery
    <3>2. QED
      BY Zenon, <3>1, ReheldLock, NamesAssumption
  <2>3. PICK t : t = holdExpiresAt[o] + HoldGrace - MaxDelay
    OBVIOUS
  <2>4. PICK u : u = webhook[d].now + MaxDelay
    OBVIOUS
  <2>5. webhook[d].now <= holdExpiresAt[o]
    BY Zenon, <2>1 DEF HoldActive
  <2>6. t \in Int /\ u \in Int /\ clock <= t /\ u <= t
    BY <1>1, <1>2, <1>3, <2>3, <2>4, <2>5, TimesAssumption DEF Quick
  <2>7. Relies(o, t)
    BY Zenon, <2>1, <2>2, <2>3 DEF Relies
  <2>8. Covered(o, u)
    BY Zenon, <1>2, <2>6, <2>7, CoveredEarlier DEF CoverInv, CoverOf
  <2>9. QED
    BY Zenon, <1>2, <2>1, <2>4, <2>8
<1>6. QED
  BY Zenon, <1>4, <1>5

(* A webhook request that takes the order to PAID is about to confirm      *)
(* seats that are held for it.                                             *)
LEMMA PayCover ==
  ASSUME HandlerInv, HandlerInv', NEW d \in Deliveries, NEW o \in Orders, WebhookOrder(d) = o,
         Covered(o, webhook[d].now + MaxDelay), Pay(webhook[d].txn), WebhookGoto(d, "confirm"), UNCHANGED keys
  PROVE  CoverOf(o)'
<1>1. webhook'[d].pc = "confirm" /\ webhook'[d].txn = webhook[d].txn /\ webhook'[d].now = webhook[d].now
  BY Zenon, GotoFacts DEF HandlerInv
<1>2. status'[o] \in Sold
  BY Zenon DEF Pay, Transition, WebhookOrder, HandlerInv, TypeOK, Sold
<1>3. Confirms(d, o)' /\ Covered(o, webhook[d].now + MaxDelay)'
  BY Zenon, <1>1 DEF Confirms, WebhookOrder, Covered
<1>4. QED
  BY Zenon, <1>2, <1>3, SoldCover

(* A step that refunds the order leaves it nothing to rely on. *)
LEMMA RefundCover ==
  ASSUME HandlerInv, HandlerInv', NEW t \in Txns, NEW reason, RefundOrder(t, reason)
  PROVE  CoverOf(OrderOf[t])'
<1>1. PICK o \in Orders : o = OrderOf[t]
  BY Zenon, RequestAssumption
<1>2. status'[o] \in Ended
  BY Zenon, <1>1 DEF RefundOrder, Transition, HandlerInv, TypeOK, Ended
<1>3. CoverOf(o)'
  BY Zenon, <1>2, EndCover
<1>4. QED
  BY Zenon, <1>1, <1>3

(* A late payment holds the seats for as long as it takes. *)
LEMMA LateCover ==
  ASSUME Quick, HandlerInv, HandlerInv', Ages, NEW d \in Deliveries, NEW o \in Orders, WebhookOrder(d) = o,
         WebhookLateHold(d), Taken(keys, SeatsOf[o], o) = {}
  PROVE  CoverOf(o)'
<1> USE DEF HandlerInv
<1>1. /\ keys' = HoldSeats(keys, SeatsOf[o], o, clock + LateHoldTTL)
      /\ WebhookGoto(d, "reheld")
      /\ lock[o] = None /\ status[o] # NoRow /\ webhook[d].pc # "idle"
      /\ UNCHANGED <<status, create>>
  BY Zenon DEF WebhookLateHold, FirstDelivery, WebhookOrder, pgVars
<1>2. /\ webhook'[d].pc = "reheld" /\ webhook'[d].txn = webhook[d].txn /\ webhook'[d].now = webhook[d].now
      /\ \A e \in Deliveries \ {d} : webhook'[e] = webhook[e]
  BY Zenon, <1>1, GotoFacts
<1>3. Reheld(d, o)' /\ \A e \in Deliveries \ {d} : ~ Reheld(e, o)'
  <2>1. \A e \in Deliveries : ~ Reheld(e, o)
    BY Zenon, <1>1, ReheldLock, NamesAssumption
  <2>2. QED
    BY Zenon, <1>2, <2>1 DEF Reheld, WebhookOrder
<1>4. PICK u : u = webhook[d].now + MaxDelay
  OBVIOUS
<1>5. PICK until : until = clock + LateHoldTTL
  OBVIOUS
<1>6. webhook[d].now \in Nat /\ webhook[d].now <= clock /\ clock \in Nat
  BY Zenon, <1>1 DEF TypeOK, WebhookState, Ages
<1>7. u \in Int /\ until \in Nat /\ u <= until
  BY <1>4, <1>5, <1>6, TimesAssumption DEF Quick
<1>8. Covered(o, u)'
  BY Zenon, <1>1, <1>5, <1>7, HoldKeeps
<1>9. create'[o].pc # "held"
  BY Zenon, <1>1 DEF InsertOnce
<1>10. \A t : Relies(o, t)' => t = u
  BY Zenon, <1>2, <1>3, <1>4, <1>9 DEF Relies
<1>11. status'[o] \notin Sold
  <2>1. status'[o] \in {"HELD", "EXPIRED"}
    BY Zenon, <1>3, NotInFlight
  <2>2. QED
    BY <2>1 DEF Sold
<1>12. QED
  BY Zenon, <1>8, <1>10, <1>11 DEF CoverOf

(* Each step that makes order o rely on its seats, or sells them, has them. *)
LEMMA TouchCover ==
  ASSUME Quick, HandlerInv, HandlerInv', Ages, Duties, CoverInv, NEW o \in Orders, Touches(o)
  PROVE  CoverOf(o)'
<1>1. CASE CreateHold(o) \/ CreateInsert(o)
  BY Zenon, <1>1, CreateCover DEF CoverInv
<1>2. ASSUME NEW d \in Deliveries, WebhookOrder(d) = o, webhook[d].pc # "idle",
             NEW reason, RefundOrder(webhook[d].txn, reason)
      PROVE  CoverOf(o)'
  <2>1. PICK t \in Txns : t = webhook[d].txn
    BY Zenon, <1>2 DEF HandlerInv, TypeOK
  <2>2. CoverOf(OrderOf[t])'
    BY Zenon, <1>2, <2>1, RefundCover
  <2>3. OrderOf[t] = o
    BY Zenon, <1>2, <2>1 DEF WebhookOrder
  <2>4. QED
    BY Zenon, <2>2, <2>3
<1>3. ASSUME NEW d \in Deliveries, WebhookOrder(d) = o, WebhookDecide(d), Decision(d) = "onTime"
      PROVE  CoverOf(o)'
  <2>1. Covered(o, webhook[d].now + MaxDelay) /\ webhook[d].pc # "idle" /\ UNCHANGED keys
    BY Zenon, <1>3, PaidInTime DEF WebhookDecide, FirstDelivery
  <2>2. (Pay(webhook[d].txn) /\ WebhookGoto(d, "confirm")) \/ RefundOrder(webhook[d].txn, "SEAT_CONFLICT")
    BY <1>3 DEF WebhookDecide
  <2>3. QED
    BY Zenon, <1>2, <1>3, <2>1, <2>2, PayCover
<1>4. ASSUME NEW d \in Deliveries, WebhookOrder(d) = o, WebhookLateHold(d) PROVE CoverOf(o)'
  <2>1. webhook[d].pc # "idle"
    BY Zenon, <1>4 DEF WebhookLateHold, FirstDelivery
  <2>2. Taken(keys, SeatsOf[o], o) = {} \/ RefundOrder(webhook[d].txn, "LATE_PAYMENT_SEAT_TAKEN")
    BY Zenon, <1>4 DEF WebhookLateHold, WebhookOrder
  <2>3. QED
    BY Zenon, <1>2, <1>4, <2>1, <2>2, LateCover
<1>5. ASSUME NEW d \in Deliveries, WebhookOrder(d) = o, WebhookLateCommit(d) PROVE CoverOf(o)'
  <2>1. webhook[d].pc = "reheld" /\ UNCHANGED keys
    BY Zenon, <1>5 DEF WebhookLateCommit
  <2>2. Covered(o, webhook[d].now + MaxDelay)
    BY Zenon, <1>5, <2>1, PaidInTime
  <2>3. (Pay(webhook[d].txn) /\ WebhookGoto(d, "confirm")) \/ RefundOrder(webhook[d].txn, "SEAT_CONFLICT")
    BY Zenon, <1>5 DEF WebhookLateCommit
  <2>4. QED
    BY Zenon, <1>2, <1>5, <2>1, <2>2, <2>3, PayCover
<1>6. ASSUME NEW d \in Deliveries, WebhookOrder(d) = o, WebhookConfirm(d) PROVE CoverOf(o)'
  <2>1. status[o] \in Sold /\ UNCHANGED status /\ keys' = ConfirmSeats(keys, SeatsOf[o], o)
    BY Zenon, <1>6 DEF WebhookConfirm, Duties, pgVars
  <2>2. Confirmed(o) \/ \E t : Covered(o, t)
    BY Zenon, <2>1 DEF CoverInv, CoverOf
  <2>3. Confirmed(o)'
    BY Zenon, <2>1, <2>2, ConfirmKeeps DEF HandlerInv
  <2>4. QED
    BY Zenon, <2>1, <2>3, SoldCover
<1>7. QED
  BY Zenon, <1>1, <1>3, <1>4, <1>5, <1>6 DEF Touches

(* The three kinds of steps together. *)
LEMMA CoverStep ==
  ASSUME Quick, HandlerInv, HandlerInv', Ages, Duties, Sweeps, CoverInv, [Next]_vars
  PROVE  CoverInv'
<1>1. clock <= clock' /\ clock' \in Nat /\ TypeOK
  <2>1. clock' = clock \/ clock' = clock + 1
    BY Zenon, WebhookGoes DEF Next, CreateNext, CreateHold, CreateInsert, CreateRelease, CreateFail,
       CancelNext, Cancel, CancelRelease, CancelFail, Issue, Charge, RefundNext, RefundCall, RefundComplete,
       WebhookNext, WebhookBegin, SweepNext, Expire, SweepLock, SweepRelease, SweepDone, SweepFail,
       Tick, vars, HandlerInv
  <2>2. QED
    BY <2>1 DEF HandlerInv, TypeOK
<1>2. Ages'
  BY Zenon, AgesStep DEF HandlerInv
<1>3. ASSUME NEW o \in Orders PROVE CoverOf(o)'
  <2>1. CASE Touches(o)
    BY Zenon, <2>1, TouchCover
  <2>2. CASE Releases(o)
    BY Zenon, <2>2, ReleaseCover
  <2>3. CASE ~ Touches(o) /\ ~ Releases(o)
    BY Zenon, <1>1, <1>2, <2>3, UntouchedQuiet, UntouchedKeeps, CoverFrame DEF CoverInv
  <2>4. QED
    BY Zenon, <2>1, <2>2, <2>3
<1>4. QED
  BY Zenon, <1>3 DEF CoverInv

(* Whoever has a ticket for a seat has the key of the seat. *)
LEMMA TicketKey ==
  ASSUME IInv, CoverInv, NEW s \in Seats, NEW p \in Orders, <<s, p>> \in tickets
  PROVE  keys[s].order = p /\ status[p] \in Sold
<1>1. {r \in Seats : <<r, p>> \in tickets} = IF status[p] \in Sold THEN SeatsOf[p] ELSE {}
  BY Zenon DEF IInv, TableInv, TicketsMatchStatus
<1>2. s \in SeatsOf[p] /\ status[p] \in Sold
  BY Zenon, <1>1
<1>3. Confirmed(p) \/ \E t : Covered(p, t)
  BY Zenon, <1>2 DEF CoverInv, CoverOf
<1>4. QED
  BY Zenon, <1>2, <1>3 DEF Confirmed, Covered, SoldBy, HeldBy

(* So nobody else has a ticket for seats that are held. *)
LEMMA ConflictFree ==
  ASSUME IInv, CoverInv, NEW o \in Orders, status[o] \in {"HELD", "EXPIRED"}, NEW t, Covered(o, t)
  PROVE  ~ SeatConflict(o)
<1>1. SUFFICES ASSUME NEW row \in tickets, row[1] \in SeatsOf[o] PROVE FALSE
  BY Zenon DEF SeatConflict
<1>2. PICK s \in Seats, p \in Orders : row = <<s, p>>
  BY <1>1 DEF IInv, HandlerInv, TypeOK
<1>3. s \in SeatsOf[o]
  BY <1>1, <1>2
<1>4. keys[s].order = p /\ status[p] \in Sold
  BY Zenon, <1>1, <1>2, TicketKey
<1>5. keys[s].order = o
  BY Zenon, <1>3 DEF Covered, HeldBy
<1>6. QED
  BY <1>4, <1>5 DEF Sold

(* No payment of a HELD or EXPIRED order meets the ticket of another one. *)
LEMMA NoConflictStep ==
  ASSUME Quick, IInv, Ages, CoverInv, NoSeatConflictRefund, [Next]_vars
  PROVE  NoSeatConflictRefund'
<1>1. TypeOK /\ HandlerInv
  BY Zenon DEF IInv, HandlerInv
<1>2. CASE UNCHANGED refunds
  BY Zenon, <1>2 DEF NoSeatConflictRefund
<1>3. ASSUME NEW t \in Txns, NEW reason, reason # "SEAT_CONFLICT", RefundRequired(t, reason)
      PROVE  NoSeatConflictRefund'
  <2>1. \A u \in Txns : refunds'[u].reason = IF u = t THEN reason ELSE refunds[u].reason
    BY <1>1, <1>3 DEF RefundRequired, TypeOK
  <2>2. QED
    BY Zenon, <1>3, <2>1 DEF NoSeatConflictRefund
<1>4. ASSUME NEW t \in Txns, RefundNext(t) PROVE NoSeatConflictRefund'
  <2>1. CASE RefundComplete(t)
    <3>1. refunds' = [refunds EXCEPT ![t].status = "SUCCEEDED"]
      BY Zenon, <2>1 DEF RefundComplete
    <3>2. \A u \in Txns : refunds'[u].reason = refunds[u].reason
      BY <1>1, <3>1 DEF TypeOK, Refund
    <3>3. QED
      BY Zenon, <3>2 DEF NoSeatConflictRefund
  <2>2. QED
    BY Zenon, <1>2, <1>4, <2>1 DEF RefundNext, RefundCall, pgVars
<1>5. ASSUME NEW d \in Deliveries, WebhookDecide(d) \/ WebhookLateHold(d) \/ WebhookLateCommit(d)
      PROVE  NoSeatConflictRefund'
  <2>1. webhook[d].txn \in Txns
    BY Zenon, <1>1, <1>5, WebhookGoes DEF WebhookHandle, TypeOK
  <2>2. ASSUME SeatConflict(WebhookOrder(d)),
               \/ FirstDelivery(d) /\ Decision(d) = "onTime"
               \/ webhook[d].pc = "reheld"
        PROVE  FALSE
    BY Zenon, <1>1, <2>2, PaidInTime, ConflictFree
  <2>3. UNCHANGED refunds \/ \E reason : reason # "SEAT_CONFLICT" /\ RefundRequired(webhook[d].txn, reason)
    <3>1. CASE WebhookDecide(d)
      <4>1. \/ UNCHANGED refunds
            \/ \E reason \in {"DOUBLE_PAYMENT", "AMOUNT_MISMATCH", "PAID_AFTER_CANCEL"} :
                 RefundRequired(webhook[d].txn, reason)
        BY Zenon, <2>2, <3>1 DEF WebhookDecide, Pay, RefundOrder, WebhookOrder
      <4>2. QED
        BY Zenon, <4>1
    <3>2. CASE WebhookLateHold(d)
      BY Zenon, <3>2 DEF WebhookLateHold, RefundOrder, pgVars
    <3>3. CASE WebhookLateCommit(d)
      BY Zenon, <2>2, <3>3 DEF WebhookLateCommit, Pay, WebhookOrder
    <3>4. QED
      BY Zenon, <1>5, <3>1, <3>2, <3>3
  <2>4. QED
    BY Zenon, <1>2, <1>3, <2>1, <2>3
<1>6. QED
  BY Zenon, <1>2, <1>4, <1>5 DEF Next, CreateNext, CreateHold, CreateInsert, InsertHeld, CreateRelease, CreateFail,
     CancelNext, Cancel, CancelRelease, CancelFail, Issue, Charge, WebhookNext, WebhookHandle, WebhookBegin,
     WebhookUnknownOrder, WebhookDuplicate, WebhookConfirm, WebhookRelease, WebhookFail,
     SweepNext, Expire, SweepLock, SweepRelease, SweepDone, SweepFail, Tick, pgVars, vars

(* At first nobody relies on anything. *)
LEMMA TimedInit == Init => TimedInv
<1> SUFFICES ASSUME Init
             PROVE  TimedInv
  OBVIOUS
<1>1. /\ \A o \in Orders : create[o].pc = "idle" /\ status[o] = NoRow
      /\ \A d \in Deliveries : webhook[d].pc = "idle"
      /\ \A w \in Workers : sweep[w].batch = {}
      /\ \A t \in Txns : refunds[t].reason = "NONE"
      /\ cancelling = {}
  BY DEF Init, IdleCreate, IdleWebhook, IdleSweep, NoRefund
<1>2. NoRow # "HELD" /\ NoRow \notin Sold
  BY DEF NoRow, Sold
<1>3. CoverInv
  BY Zenon, <1>1, <1>2 DEF CoverInv, CoverOf, Relies, Reheld
<1>4. QED
  BY Zenon, <1>1, <1>3 DEF TimedInv, Ages, Duties, Sweeps, NoSeatConflictRefund

(* The invariant of the inventory: while nothing fails and no request      *)
(* outlives its share of HOLD_GRACE and of the late hold, an order that    *)
(* relies on its seats has them.                                           *)
THEOREM TimedInvariance == Quick /\ Spec => [](IInv /\ TimedInv)
<1>1. ASSUME Quick PROVE Init => TimedInv
  BY Zenon, TimedInit
<1>2. ASSUME Quick PROVE IInv /\ TimedInv /\ [Next]_vars => TimedInv'
  <2> SUFFICES ASSUME IInv, TimedInv, [Next]_vars
               PROVE  TimedInv'
    OBVIOUS
  <2>1. HandlerInv /\ HandlerInv'
    BY Zenon, Inductive DEF IInv
  <2>2. Ages' /\ Sweeps'
    BY Zenon, <2>1, AgesStep, SweepsStep DEF HandlerInv, TimedInv
  <2>3. Duties'
    BY Zenon, <1>2, <2>1, DutiesStep DEF TimedInv
  <2>4. CoverInv'
    BY Zenon, <1>2, <2>1, CoverStep DEF TimedInv
  <2>5. NoSeatConflictRefund'
    BY Zenon, <1>2, NoConflictStep DEF TimedInv
  <2>6. QED
    BY Zenon, <2>2, <2>3, <2>4, <2>5 DEF TimedInv
<1>3. Spec => []IInv
  BY Invariance
<1>4. CASE Quick
  <2>1. Init => TimedInv
    BY <1>1, <1>4
  <2>2. IInv /\ TimedInv /\ [Next]_vars => TimedInv'
    BY <1>2, <1>4
  <2>3. QED
    BY <1>3, <2>1, <2>2, PTL DEF Spec
<1>5. QED
  BY <1>4

(* SoldSeatsStayTaken: a seat with a ticket is never offered again, from   *)
(* the commit of the tickets through confirm.lua and ever after.           *)
THEOREM SoldStayTaken == Quick /\ Spec => []SoldSeatsStayTaken
<1>1. IInv /\ TimedInv => SoldSeatsStayTaken
  BY Zenon, TicketKey DEF TimedInv, SoldSeatsStayTaken
<1>2. QED
  BY <1>1, TimedInvariance, PTL

(* HoldCoversPayment: as long as PostgreSQL takes payment for an order,    *)
(* Redis holds its seats for it.                                           *)
THEOREM HoldsCoverPayment == Quick /\ Spec => []HoldCoversPayment
<1>1. ASSUME Quick, IInv, TimedInv, NEW o \in Orders, status[o] = "HELD", clock <= holdExpiresAt[o]
      PROVE  \A s \in SeatsOf[o] : HeldBy(keys[s], o)
  <2>1. CoverOf(o) /\ TypeOK
    BY Zenon, <1>1 DEF TimedInv, CoverInv, IInv, HandlerInv
  <2>2. CASE \A d \in Deliveries : ~ Reheld(d, o)
    <3>1. PICK t : t = holdExpiresAt[o] + HoldGrace - MaxDelay
      OBVIOUS
    <3>2. clock \in Nat /\ holdExpiresAt[o] \in Nat
      BY Zenon, <2>1 DEF TypeOK
    <3>3. t \in Int /\ clock <= t
      BY <1>1, <3>1, <3>2, TimesAssumption DEF Quick
    <3>4. Relies(o, t)
      BY Zenon, <1>1, <2>2, <3>1 DEF Relies
    <3>5. QED
      BY Zenon, <2>1, <3>3, <3>4 DEF CoverOf, Covered
  <2>3. ASSUME NEW d \in Deliveries, Reheld(d, o) PROVE \A s \in SeatsOf[o] : HeldBy(keys[s], o)
    <3>1. webhook[d].pc = "reheld" /\ WebhookOrder(d) = o /\ HandlerInv /\ Ages /\ CoverInv
      BY Zenon, <1>1, <2>3 DEF Reheld, IInv, TimedInv
    <3>2. Covered(o, webhook[d].now + MaxDelay)
      BY Zenon, <1>1, <3>1, PaidInTime
    <3>3. QED
      BY Zenon, <3>2 DEF Covered
  <2>4. QED
    BY Zenon, <2>2, <2>3
<1>2. Quick /\ IInv /\ TimedInv => HoldCoversPayment
  BY Zenon, <1>1 DEF HoldCoversPayment
<1>3. CASE Quick
  <2>1. IInv /\ TimedInv => HoldCoversPayment
    BY <1>2, <1>3
  <2>2. QED
    BY <1>3, <2>1, TimedInvariance, PTL
<1>4. QED
  BY <1>3

(* NoSeatConflictRefund: the branch that payment.go says should never      *)
(* happen is never taken.                                                  *)
THEOREM ConflictNeverRefunded == Quick /\ Spec => []NoSeatConflictRefund
<1>1. IInv /\ TimedInv => NoSeatConflictRefund
  BY Zenon DEF TimedInv
<1>2. QED
  BY <1>1, TimedInvariance, PTL

=============================================================================
