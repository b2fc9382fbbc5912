------------------------------- MODULE Booking -------------------------------
(***************************************************************************)
(* The core of the system: orders in PostgreSQL, seat keys in Redis, and   *)
(* the handlers that touch both (internal/order).  Every PostgreSQL        *)
(* transaction that makes no call outside the database is one step; a      *)
(* handler that leaves the database between two effects (Redis, the        *)
(* payment gateway) is several steps, and anything may run between them.   *)
(*                                                                         *)
(*   create   hold the seats in Redis, insert the HELD order, on an error  *)
(*            release the seats                        (Service.create)    *)
(*   cancel   HELD -> CANCELLED, then release          (Service.Cancel)    *)
(*   webhook  one transaction under the order lock, then confirm or        *)
(*            release; a late payment holds the seats again inside the     *)
(*            transaction                        (Service.ApplyPayment)    *)
(*   expiry   HELD -> EXPIRED in a batch, then lock the orders again and   *)
(*            release                                  (Expirer.RunOnce)   *)
(*   issue    PAID -> TICKETED                       (TicketIssuer.Issue)  *)
(*   refund   call the gateway, then complete (RefundProcessor.Process)    *)
(*                                                                         *)
(* An order id is drawn afresh by each create request, so Orders is also   *)
(* the set of create requests; the requests here carry distinct            *)
(* Idempotency-Keys.                                                       *)
(***************************************************************************)
EXTENDS Integers, FiniteSets, OrderState, SeatKeys

CONSTANTS
  Orders,        \* order ids, one for each create request
  Seats,         \* seats of the event, numbered in seat_id order
  Txns,          \* provider_txn_id of the gateway's transactions
  Deliveries,    \* webhook requests booking can process at the same time
  Workers,       \* expiry workers
  SeatsOf,       \* the seats of each order
  UserOf,        \* the buyer of each order
  OrderOf,       \* the order each transaction pays for
  HoldTTL,       \* HOLD_TTL
  HoldGrace,     \* HOLD_GRACE
  LateHoldTTL,   \* latePaymentHoldTTL
  BatchSize,     \* ExpiryBatchSize
  MaxDelay,      \* the longest a create or webhook request takes
  MaxClock,      \* the bound on the clock
  MayFail        \* whether processes crash and calls fail

ASSUME SeatsAssumption   == Seats \subseteq Nat
ASSUME RequestAssumption == /\ SeatsOf \in [Orders -> (SUBSET Seats) \ {{}}]
                            /\ OrderOf \in [Txns -> Orders]
ASSUME TimesAssumption   == /\ HoldTTL \in Nat /\ HoldGrace \in Nat /\ LateHoldTTL \in Nat
                            /\ MaxDelay \in Nat /\ MaxClock \in Nat /\ BatchSize \in Nat \ {0}
ASSUME NamesAssumption   == /\ None \notin Orders /\ None \notin Txns
                            /\ None \notin Deliveries /\ None \notin Workers
                            /\ Deliveries \cap Workers = {}
                            /\ MayFail \in BOOLEAN

VARIABLES
  clock,         \* the time, for PostgreSQL and Redis alike
  keys,          \* Redis: the seat keys
  status,        \* orders.status
  holdExpiresAt, \* orders.hold_expires_at
  tickets,       \* the tickets table: rows <<seat, order>>
  payments,      \* payments.outcome of each transaction
  refunds,       \* refunds.status and refunds.reason of each transaction
  outbox,        \* the events written to the outbox
  charge,        \* gateway: what became of each transaction
  returned,      \* gateway: the transactions whose money went back
  lock,          \* who holds the row lock of each order across steps
  create,        \* where each create request is
  cancelling,    \* the cancel requests that still have to release
  webhook,       \* where each webhook request is
  sweep          \* where each expiry worker is

pgVars  == <<status, holdExpiresAt, tickets, payments, refunds, outbox>>
vars    == <<clock, keys, pgVars, charge, returned, lock, create, cancelling, webhook, sweep>>

NoRefund == [status |-> "NO_ROW", reason |-> "NONE"]

Reasons == {"DOUBLE_PAYMENT", "AMOUNT_MISMATCH", "SEAT_CONFLICT", "LATE_PAYMENT_SEAT_TAKEN",
            "PAID_AFTER_CANCEL"}

IdleCreate  == [pc |-> "idle", at |-> 0]
IdleWebhook == [pc |-> "idle", txn |-> None, now |-> 0]
IdleSweep   == [pc |-> "idle", batch |-> {}]

OrderEvent(type, o)  == [type |-> type, order |-> o, txn |-> None]
RefundEvent(type, t) == [type |-> type, order |-> OrderOf[t], txn |-> t]

Init ==
  /\ clock = 0
  /\ keys = [s \in Seats |-> Absent]
  /\ status = [o \in Orders |-> NoRow]
  /\ holdExpiresAt = [o \in Orders |-> 0]
  /\ tickets = {}
  /\ payments = [t \in Txns |-> NoRow]
  /\ refunds = [t \in Txns |-> NoRefund]
  /\ outbox = {}
  /\ charge = [t \in Txns |-> "none"]
  /\ returned = {}
  /\ lock = [o \in Orders |-> None]
  /\ create = [o \in Orders |-> IdleCreate]
  /\ cancelling = {}
  /\ webhook = [d \in Deliveries |-> IdleWebhook]
  /\ sweep = [w \in Workers |-> IdleSweep]

-----------------------------------------------------------------------------
(* Pieces shared by the handlers.                                          *)

(* transition, run under the order lock: the conditional update.           *)
Transition(o, to) ==
  /\ CanTransition(status[o], to)
  /\ status' = [status EXCEPT ![o] = to]

Emit(events) == outbox' = outbox \cup events

Unlocked(by) == [o \in Orders |-> IF lock[o] = by THEN None ELSE lock[o]]

-----------------------------------------------------------------------------
(* POST /v1/orders.                                                        *)

(* Mutant: the seats are held for HOLD_TTL only. *)
CreateHoldNoGrace(o) ==
  /\ create[o].pc = "idle"
  /\ Taken(keys, SeatsOf[o], o) = {}
  /\ keys' = HoldSeats(keys, SeatsOf[o], o, clock + HoldTTL)
  /\ create' = [create EXCEPT ![o] = [pc |-> "held", at |-> clock]]
  /\ UNCHANGED <<clock, pgVars, charge, returned, lock, cancelling, webhook, sweep>>

(* Hold the seats for HOLD_TTL + HOLD_GRACE, or answer SEATS_UNAVAILABLE.  *)
CreateHold(o) ==
  /\ create[o].pc = "idle"
  /\ \/ /\ Taken(keys, SeatsOf[o], o) = {}
        /\ keys' = HoldSeats(keys, SeatsOf[o], o, clock + HoldTTL + HoldGrace)
        /\ create' = [create EXCEPT ![o] = [pc |-> "held", at |-> clock]]
     \/ /\ Taken(keys, SeatsOf[o], o) # {}
        /\ create' = [create EXCEPT ![o] = [pc |-> "done", at |-> 0]]
        /\ UNCHANGED keys
  /\ UNCHANGED <<clock, pgVars, charge, returned, lock, cancelling, webhook, sweep>>

(* orders_one_held_per_user: a buyer has at most one HELD order. *)
ActiveOrderExists(o) == \E p \in Orders : UserOf[p] = UserOf[o] /\ status[p] = "HELD"

(* The insertHeld transaction: the HELD order with its deadline, and       *)
(* order.held.  now() is when the transaction began, at some time since    *)
(* the seats were held.                                                    *)
InsertHeld(o) ==
  /\ ~ ActiveOrderExists(o)
  /\ status' = [status EXCEPT ![o] = "HELD"]
  /\ \E now \in create[o].at .. clock :
       holdExpiresAt' = [holdExpiresAt EXCEPT ![o] = now + HoldTTL]
  /\ Emit({OrderEvent("order.held", o)})
  /\ UNCHANGED <<tickets, payments, refunds>>

(* Insert the order.  The insert can be refused, by the constraint or by   *)
(* a failing database, and it can commit although the reply is lost;       *)
(* after any error the handler releases the seats.                         *)
CreateInsert(o) ==
  /\ create[o].pc = "held"
  /\ \/ /\ InsertHeld(o)
        /\ create' = [create EXCEPT ![o] = [pc |-> "done", at |-> 0]]
     \/ /\ ActiveOrderExists(o) \/ MayFail
        /\ create' = [create EXCEPT ![o] = [pc |-> "release", at |-> 0]]
        /\ UNCHANGED pgVars
     \/ /\ MayFail
        /\ InsertHeld(o)
        /\ create' = [create EXCEPT ![o] = [pc |-> "release", at |-> 0]]
  /\ UNCHANGED <<clock, keys, charge, returned, lock, cancelling, webhook, sweep>>

CreateRelease(o) ==
  /\ create[o].pc = "release"
  /\ keys' = ReleaseSeats(keys, SeatsOf[o], o)
  /\ create' = [create EXCEPT ![o] = [pc |-> "done", at |-> 0]]
  /\ UNCHANGED <<clock, pgVars, charge, returned, lock, cancelling, webhook, sweep>>

(* The process dies, the hold succeeds but its reply is lost (the handler  *)
(* returns without releasing), or the best-effort release fails.           *)
CreateFail(o) ==
  /\ MayFail
  /\ create[o].pc \in {"held", "release"}
  /\ create' = [create EXCEPT ![o] = [pc |-> "done", at |-> 0]]
  /\ UNCHANGED <<clock, keys, pgVars, charge, returned, lock, cancelling, webhook, sweep>>

-----------------------------------------------------------------------------
(* POST /v1/orders/{id}/cancel.  Any other status leaves the order alone.  *)

Cancel(o) ==
  /\ lock[o] = None
  /\ status[o] = "HELD"
  /\ Transition(o, "CANCELLED")
  /\ Emit({OrderEvent("order.cancelled", o)})
  /\ cancelling' = cancelling \cup {o}
  /\ UNCHANGED <<clock, keys, holdExpiresAt, tickets, payments, refunds, charge, returned, lock,
                 create, webhook, sweep>>

(* The release runs after the commit, without the order lock. *)
CancelRelease(o) ==
  /\ o \in cancelling
  /\ keys' = ReleaseSeats(keys, SeatsOf[o], o)
  /\ cancelling' = cancelling \ {o}
  /\ UNCHANGED <<clock, pgVars, charge, returned, lock, create, webhook, sweep>>

CancelFail(o) ==
  /\ MayFail
  /\ o \in cancelling
  /\ cancelling' = cancelling \ {o}
  /\ UNCHANGED <<clock, keys, pgVars, charge, returned, lock, create, webhook, sweep>>

-----------------------------------------------------------------------------
(* The gateway.                                                            *)

(* The buyer completes a payment: it fails, or it moves the order's total  *)
(* or some other amount.                                                   *)
Charge(t) ==
  /\ charge[t] = "none"
  /\ \E result \in {"failed", "exact", "wrong"} : charge' = [charge EXCEPT ![t] = result]
  /\ UNCHANGED <<clock, keys, pgVars, returned, lock, create, cancelling, webhook, sweep>>

-----------------------------------------------------------------------------
(* POST /v1/webhooks/fakepay.  A transaction is delivered any number of    *)
(* times, to several requests at once.                                     *)

(* The transaction begins; now() keeps this value until its end, however   *)
(* long the request then waits for the order lock.                         *)
WebhookBegin(d, t) ==
  /\ webhook[d].pc = "idle"
  /\ charge[t] # "none"
  /\ webhook' = [webhook EXCEPT ![d] = [pc |-> "begun", txn |-> t, now |-> clock]]
  /\ UNCHANGED <<clock, keys, pgVars, charge, returned, lock, create, cancelling, sweep>>

WebhookOrder(d) == OrderOf[webhook[d].txn]

(* The request goes on to pc, keeping the time it began. *)
WebhookGoto(d, pc) ==
  webhook' = [webhook EXCEPT ![d] = IF pc = "idle" THEN IdleWebhook ELSE [@ EXCEPT !.pc = pc]]

(* Mutant: InsertPayment does not notice a recorded transaction. *)
FirstDeliveryAlways(d) ==
  /\ webhook[d].pc = "begun"
  /\ status[WebhookOrder(d)] # NoRow
  /\ lock[WebhookOrder(d)] = None

(* LockOrderForPayment and InsertPayment: the order exists, nobody holds   *)
(* its row lock, and this transaction was not recorded before.             *)
FirstDelivery(d) ==
  /\ webhook[d].pc = "begun"
  /\ status[WebhookOrder(d)] # NoRow
  /\ lock[WebhookOrder(d)] = None
  /\ payments[webhook[d].txn] = NoRow

HoldActive(d) == webhook[d].now <= holdExpiresAt[WebhookOrder(d)]

(* Mutant: the amount is not compared with the total. *)
DecideAnyAmount(result, st, active) ==
  IF result = "failed" THEN "ignore"
  ELSE IF st \in {"PAID", "TICKETED", "REFUNDING", "REFUNDED"} THEN "double"
  ELSE IF st = "HELD" /\ active THEN "onTime"
  ELSE IF st \in {"HELD", "EXPIRED"} THEN "late"
  ELSE "cancelled"

(* The switch of paymentTx.decide, in its order. *)
Decide(result, st, active) ==
  IF result = "failed" THEN "ignore"
  ELSE IF st \in {"PAID", "TICKETED", "REFUNDING", "REFUNDED"} THEN "double"
  ELSE IF result = "wrong" THEN "mismatch"
  ELSE IF st = "HELD" /\ active THEN "onTime"
  ELSE IF st \in {"HELD", "EXPIRED"} THEN "late"
  ELSE "cancelled"

Decision(d) == Decide(charge[webhook[d].txn], status[WebhookOrder(d)], HoldActive(d))

(* Mutant: the outcome stays as InsertPayment wrote it. *)
SetOutcomeForgotten(t, outcome) == payments' = [payments EXCEPT ![t] = ""]

SetOutcome(t, outcome) == payments' = [payments EXCEPT ![t] = outcome]

(* Mutant: the refund is recorded but not announced. *)
RefundRequiredSilently(t, reason) ==
  /\ SetOutcome(t, "REFUND_REQUIRED")
  /\ refunds' = [refunds EXCEPT ![t] = [status |-> "PENDING", reason |-> reason]]
  /\ UNCHANGED outbox

(* paymentTx.refund: a PENDING refund of this transaction and its event.   *)
RefundRequired(t, reason) ==
  /\ SetOutcome(t, "REFUND_REQUIRED")
  /\ refunds' = [refunds EXCEPT ![t] = [status |-> "PENDING", reason |-> reason]]
  /\ Emit({RefundEvent("order.refund_requested", t)})

(* Mutant: tickets without UNIQUE (event_id, seat_id). *)
SeatConflictNever(o) == FALSE

(* insertTickets: UNIQUE (event_id, seat_id) admits the order's tickets    *)
(* together or, rolled back to the savepoint, none of them.                *)
SeatConflict(o) == \E row \in tickets : row[1] \in SeatsOf[o]

(* Mutant: ON CONFLICT DO NOTHING instead of the savepoint. *)
PaySomeSeats(t) ==
  LET o == OrderOf[t] IN
  /\ tickets' = tickets \cup {<<s, o>> : s \in {r \in SeatsOf[o] : \A row \in tickets : row[1] # r}}
  /\ Transition(o, "PAID")
  /\ SetOutcome(t, "APPLIED")
  /\ Emit({OrderEvent("order.paid", o)})
  /\ UNCHANGED <<holdExpiresAt, refunds>>

(* paymentTx.pay, with the tickets just inserted. *)
Pay(t) ==
  LET o == OrderOf[t] IN
  /\ ~ SeatConflict(o)
  /\ tickets' = tickets \cup {<<s, o>> : s \in SeatsOf[o]}
  /\ Transition(o, "PAID")
  /\ SetOutcome(t, "APPLIED")
  /\ Emit({OrderEvent("order.paid", o)})
  /\ UNCHANGED <<holdExpiresAt, refunds>>

(* The refund branches that move the order to REFUNDING. *)
RefundOrder(t, reason) ==
  /\ Transition(OrderOf[t], "REFUNDING")
  /\ RefundRequired(t, reason)
  /\ UNCHANGED <<holdExpiresAt, tickets>>

WebhookUnknownOrder(d) ==
  /\ webhook[d].pc = "begun"
  /\ status[WebhookOrder(d)] = NoRow
  /\ WebhookGoto(d, "idle")
  /\ UNCHANGED <<clock, keys, pgVars, charge, returned, lock, create, cancelling, sweep>>

(* A transaction already recorded changes nothing, but runs confirm.lua    *)
(* again for an order that was sold.                                       *)
WebhookDuplicate(d) ==
  /\ webhook[d].pc = "begun"
  /\ status[WebhookOrder(d)] # NoRow
  /\ lock[WebhookOrder(d)] = None
  /\ payments[webhook[d].txn] # NoRow
  /\ WebhookGoto(d, IF status[WebhookOrder(d)] \in Sold THEN "confirm" ELSE "idle")
  /\ UNCHANGED <<clock, keys, pgVars, charge, returned, lock, create, cancelling, sweep>>

(* The branches of decide that only write to the database. *)
WebhookDecide(d) ==
  LET t == webhook[d].txn IN
  /\ FirstDelivery(d)
  /\ \/ /\ Decision(d) = "ignore"
        /\ SetOutcome(t, "IGNORED_FAILED")
        /\ WebhookGoto(d, "idle")
        /\ UNCHANGED <<status, holdExpiresAt, tickets, refunds, outbox>>
     \/ /\ Decision(d) = "double"
        /\ RefundRequired(t, "DOUBLE_PAYMENT")
        /\ WebhookGoto(d, "idle")
        /\ UNCHANGED <<status, holdExpiresAt, tickets>>
     \/ /\ Decision(d) = "mismatch"
        /\ RefundOrder(t, "AMOUNT_MISMATCH")
        /\ WebhookGoto(d, IF status[OrderOf[t]] = "HELD" THEN "release" ELSE "idle")
     \/ /\ Decision(d) = "onTime"
        /\ Pay(t)
        /\ WebhookGoto(d, "confirm")
     \/ /\ Decision(d) = "onTime"
        /\ SeatConflict(OrderOf[t])
        /\ RefundOrder(t, "SEAT_CONFLICT")
        /\ WebhookGoto(d, "release")
     \/ /\ Decision(d) = "cancelled"
        /\ RefundOrder(t, "PAID_AFTER_CANCEL")
        /\ WebhookGoto(d, "idle")
  /\ UNCHANGED <<clock, keys, charge, returned, lock, create, cancelling, sweep>>

(* A late payment: hold the seats again under the order lock.  When they   *)
(* are taken the refund commits; otherwise the lock is kept.               *)
WebhookLateHold(d) ==
  LET t == webhook[d].txn
      o == OrderOf[t]
  IN
  /\ FirstDelivery(d)
  /\ Decision(d) = "late"
  /\ \/ /\ Taken(keys, SeatsOf[o], o) = {}
        /\ keys' = HoldSeats(keys, SeatsOf[o], o, clock + LateHoldTTL)
        /\ lock' = [lock EXCEPT ![o] = d]
        /\ WebhookGoto(d, "reheld")
        /\ UNCHANGED pgVars
     \/ /\ Taken(keys, SeatsOf[o], o) # {}
        /\ RefundOrder(t, "LATE_PAYMENT_SEAT_TAKEN")
        /\ WebhookGoto(d, "idle")
        /\ UNCHANGED <<keys, lock>>
  /\ UNCHANGED <<clock, charge, returned, create, cancelling, sweep>>

(* The rest of a late payment's transaction, once its seats are held.      *)
WebhookLateCommit(d) ==
  LET t == webhook[d].txn IN
  /\ webhook[d].pc = "reheld"
  /\ \/ /\ Pay(t)
        /\ WebhookGoto(d, "confirm")
     \/ /\ SeatConflict(OrderOf[t])
        /\ RefundOrder(t, "SEAT_CONFLICT")
        /\ WebhookGoto(d, "release")
  /\ lock' = Unlocked(d)
  /\ UNCHANGED <<clock, keys, charge, returned, create, cancelling, sweep>>

(* After the commit, without the order lock: confirm.lua or release.lua. *)
WebhookConfirm(d) ==
  /\ webhook[d].pc = "confirm"
  /\ keys' = ConfirmSeats(keys, SeatsOf[WebhookOrder(d)], WebhookOrder(d))
  /\ WebhookGoto(d, "idle")
  /\ UNCHANGED <<clock, pgVars, charge, returned, lock, create, cancelling, sweep>>

WebhookRelease(d) ==
  /\ webhook[d].pc = "release"
  /\ keys' = ReleaseSeats(keys, SeatsOf[WebhookOrder(d)], WebhookOrder(d))
  /\ WebhookGoto(d, "idle")
  /\ UNCHANGED <<clock, pgVars, charge, returned, lock, create, cancelling, sweep>>

(* The process dies or a call fails: an open transaction rolls back, the   *)
(* calls after a commit are lost; what Redis has done stays.               *)
WebhookFail(d) ==
  /\ MayFail
  /\ webhook[d].pc # "idle"
  /\ WebhookGoto(d, "idle")
  /\ lock' = Unlocked(d)
  /\ UNCHANGED <<clock, keys, pgVars, charge, returned, create, cancelling, sweep>>

-----------------------------------------------------------------------------
(* The expiry worker.                                                      *)

(* Mutant: the expiry query forgets status = 'HELD'. *)
DueAnyStatus == {o \in Orders : status[o] # NoRow /\ holdExpiresAt[o] < clock /\ lock[o] = None}

(* HELD orders past their deadline that no other transaction has locked.   *)
Due == {o \in Orders : status[o] = "HELD" /\ holdExpiresAt[o] < clock /\ lock[o] = None}

(* Mutant: the worker waits for a full batch. *)
BatchesFull(due) == {b \in SUBSET due : Cardinality(b) = BatchSize}

(* What ExpireDueOrders may return.  SKIP LOCKED also passes over orders   *)
(* that a transaction modelled as one step has locked for a moment, so     *)
(* that ORDER BY hold_expires_at LIMIT batch_size picks any small subset.  *)
Batches(due) == {b \in SUBSET due : b # {} /\ Cardinality(b) <= BatchSize}

Expire(w) ==
  /\ sweep[w].pc = "idle"
  /\ \E batch \in Batches(Due) :
       /\ CanTransition("HELD", "EXPIRED")
       /\ status' = [o \in Orders |-> IF o \in batch THEN "EXPIRED" ELSE status[o]]
       /\ Emit({OrderEvent("order.expired", o) : o \in batch})
       /\ sweep' = [sweep EXCEPT ![w] = [pc |-> "expired", batch |-> batch]]
  /\ UNCHANGED <<clock, keys, holdExpiresAt, tickets, payments, refunds, charge, returned, lock,
                 create, cancelling, webhook>>

(* Mutant: the seats are released whatever the order has become. *)
SweepLockKeepsAll(w) ==
  /\ sweep[w].pc = "expired"
  /\ \A o \in sweep[w].batch : lock[o] = None
  /\ lock' = [o \in Orders |-> IF o \in sweep[w].batch THEN w ELSE lock[o]]
  /\ sweep' = [sweep EXCEPT ![w].pc = "locked"]
  /\ UNCHANGED <<clock, keys, pgVars, charge, returned, create, cancelling, webhook>>

(* Mutant: the seats are released only while the order is still EXPIRED. *)
SweepLockExpiredOnly(w) ==
  /\ sweep[w].pc = "expired"
  /\ \A o \in sweep[w].batch : lock[o] = None
  /\ lock' = [o \in Orders |-> IF o \in sweep[w].batch THEN w ELSE lock[o]]
  /\ sweep' = [sweep EXCEPT ![w] =
                 [pc |-> "locked", batch |-> {o \in sweep[w].batch : status[o] = "EXPIRED"}]]
  /\ UNCHANGED <<clock, keys, pgVars, charge, returned, create, cancelling, webhook>>

(* releaseExpired: lock the orders again and keep those no late payment    *)
(* has turned PAID.                                                        *)
SweepLock(w) ==
  /\ sweep[w].pc = "expired"
  /\ \A o \in sweep[w].batch : lock[o] = None
  /\ lock' = [o \in Orders |-> IF o \in sweep[w].batch THEN w ELSE lock[o]]
  /\ sweep' = [sweep EXCEPT ![w] =
                 [pc |-> "locked", batch |-> {o \in sweep[w].batch : status[o] \notin Sold}]]
  /\ UNCHANGED <<clock, keys, pgVars, charge, returned, create, cancelling, webhook>>

(* One release of the batch; a release that fails is logged, and the next  *)
(* one follows.                                                            *)
SweepRelease(w) ==
  /\ sweep[w].pc = "locked"
  /\ \E o \in sweep[w].batch :
       /\ \/ keys' = ReleaseSeats(keys, SeatsOf[o], o)
          \/ MayFail /\ UNCHANGED keys
       /\ sweep' = [sweep EXCEPT ![w].batch = @ \ {o}]
  /\ UNCHANGED <<clock, pgVars, charge, returned, lock, create, cancelling, webhook>>

SweepDone(w) ==
  /\ sweep[w].pc = "locked"
  /\ sweep[w].batch = {}
  /\ lock' = Unlocked(w)
  /\ sweep' = [sweep EXCEPT ![w] = IdleSweep]
  /\ UNCHANGED <<clock, keys, pgVars, charge, returned, create, cancelling, webhook>>

(* The worker dies, or the second transaction fails: the batch is lost. *)
SweepFail(w) ==
  /\ MayFail
  /\ sweep[w].pc # "idle"
  /\ lock' = Unlocked(w)
  /\ sweep' = [sweep EXCEPT ![w] = IdleSweep]
  /\ UNCHANGED <<clock, keys, pgVars, charge, returned, create, cancelling, webhook>>

-----------------------------------------------------------------------------
(* The consumers.  An event of the outbox reaches its consumer at any      *)
(* later time, any number of times.                                        *)

(* TicketIssuer.Issue; an order that is not PAID is skipped. *)
Issue(o) ==
  /\ OrderEvent("order.paid", o) \in outbox
  /\ lock[o] = None
  /\ status[o] = "PAID"
  /\ Transition(o, "TICKETED")
  /\ Emit({OrderEvent("ticket.issued", o)})
  /\ UNCHANGED <<clock, keys, holdExpiresAt, tickets, payments, refunds, charge, returned, lock,
                 create, cancelling, webhook, sweep>>

(* RefundProcessor.Process up to the gateway's answer.  The gateway        *)
(* refunds a transaction once, however often it is asked.                  *)
RefundCall(t) ==
  /\ RefundEvent("order.refund_requested", t) \in outbox
  /\ refunds[t].status = "PENDING"
  /\ returned' = returned \cup {t}
  /\ UNCHANGED <<clock, keys, pgVars, charge, lock, create, cancelling, webhook, sweep>>

(* Mutant: the refund of a double payment moves the order as well. *)
RefundCompleteAnyReason(t) ==
  LET o == OrderOf[t] IN
  /\ t \in returned
  /\ refunds[t].status = "PENDING"
  /\ lock[o] = None
  /\ refunds' = [refunds EXCEPT ![t].status = "SUCCEEDED"]
  /\ status' = [status EXCEPT ![o] = IF @ = "REFUNDING" THEN "REFUNDED" ELSE @]
  /\ Emit({RefundEvent("order.refunded", t)})
  /\ UNCHANGED <<clock, keys, holdExpiresAt, tickets, payments, charge, returned, lock, create,
                 cancelling, webhook, sweep>>

(* Mutant: the order stays REFUNDING. *)
RefundCompleteKeepsOrder(t) ==
  /\ t \in returned
  /\ refunds[t].status = "PENDING"
  /\ lock[OrderOf[t]] = None
  /\ refunds' = [refunds EXCEPT ![t].status = "SUCCEEDED"]
  /\ Emit({RefundEvent("order.refunded", t)})
  /\ UNCHANGED <<clock, keys, status, holdExpiresAt, tickets, payments, charge, returned, lock,
                 create, cancelling, webhook, sweep>>

(* The second half, by the consumer that has the gateway's answer.  A      *)
(* consumer that died in between is replaced by one that asks again.       *)
RefundComplete(t) ==
  LET o == OrderOf[t] IN
  /\ t \in returned
  /\ refunds[t].status = "PENDING"
  /\ lock[o] = None
  /\ refunds' = [refunds EXCEPT ![t].status = "SUCCEEDED"]
  /\ \/ /\ refunds[t].reason # "DOUBLE_PAYMENT" /\ status[o] = "REFUNDING"
        /\ Transition(o, "REFUNDED")
     \/ /\ ~ (refunds[t].reason # "DOUBLE_PAYMENT" /\ status[o] = "REFUNDING")
        /\ UNCHANGED status
  /\ Emit({RefundEvent("order.refunded", t)})
  /\ UNCHANGED <<clock, keys, holdExpiresAt, tickets, payments, charge, returned, lock, create,
                 cancelling, webhook, sweep>>

-----------------------------------------------------------------------------
(* Time passes, unless a request would be older than MaxDelay.             *)
Tick ==
  /\ clock < MaxClock
  /\ \A o \in Orders : create[o].pc = "held" => clock < create[o].at + MaxDelay
  /\ \A d \in Deliveries : webhook[d].pc # "idle" => clock < webhook[d].now + MaxDelay
  /\ clock' = clock + 1
  /\ keys' = Lapse(keys, clock + 1)
  /\ UNCHANGED <<pgVars, charge, returned, lock, create, cancelling, webhook, sweep>>

CreateNext(o)  == CreateHold(o) \/ CreateInsert(o) \/ CreateRelease(o) \/ CreateFail(o)
CancelNext(o)  == Cancel(o) \/ CancelRelease(o) \/ CancelFail(o)
WebhookHandle(d) ==
  \/ WebhookUnknownOrder(d) \/ WebhookDuplicate(d) \/ WebhookDecide(d)
  \/ WebhookLateHold(d) \/ WebhookLateCommit(d)
  \/ WebhookConfirm(d) \/ WebhookRelease(d)
WebhookNext(d) == (\E t \in Txns : WebhookBegin(d, t)) \/ WebhookHandle(d) \/ WebhookFail(d)
SweepNext(w)   == Expire(w) \/ SweepLock(w) \/ SweepRelease(w) \/ SweepDone(w) \/ SweepFail(w)
RefundNext(t)  == RefundCall(t) \/ RefundComplete(t)

Next ==
  \/ \E o \in Orders : CreateNext(o) \/ CancelNext(o) \/ Issue(o)
  \/ \E t \in Txns : Charge(t) \/ RefundNext(t)
  \/ \E d \in Deliveries : WebhookNext(d)
  \/ \E w \in Workers : SweepNext(w)
  \/ Tick

Spec == Init /\ [][Next]_vars

(* A request that was accepted runs to its end, the expiry worker's loop   *)
(* goes round, a consumer gets the events of its group until it has        *)
(* handled them, and time passes.  The gateway sends a transaction again   *)
(* until it is answered; each request has a goroutine of its own, so that  *)
(* a transaction is not kept out by the requests for another one.          *)
Fairness ==
  /\ WF_vars(Tick)
  /\ \A o \in Orders : /\ WF_vars(CreateInsert(o) \/ CreateRelease(o))
                       /\ WF_vars(CancelRelease(o))
                       /\ WF_vars(Issue(o))
  /\ \A t \in Txns : /\ SF_vars(\E d \in Deliveries : WebhookBegin(d, t))
                     /\ WF_vars(RefundCall(t))
                     /\ WF_vars(RefundComplete(t))
  /\ \A d \in Deliveries : WF_vars(WebhookHandle(d))
  /\ \A w \in Workers : WF_vars(SweepNext(w))

FairSpec == Spec /\ Fairness

-----------------------------------------------------------------------------
(* Properties of PostgreSQL and the gateway, whatever fails and however    *)
(* long a request takes.                                                   *)

Event ==
  [type : {"order.held", "order.cancelled", "order.expired", "order.paid", "ticket.issued"},
   order : Orders, txn : {None}]
  \cup [type : {"order.refund_requested", "order.refunded"}, order : Orders, txn : Txns]

SeatKey == [kind : {"absent", "held", "sold"}, order : Orders \cup {None}, until : Nat]

Refund == [status : {"NO_ROW", "PENDING", "SUCCEEDED"}, reason : Reasons \cup {"NONE"}]

CreateState  == [pc : {"idle", "held", "release", "done"}, at : Nat]
WebhookState == [pc : {"idle", "begun", "reheld", "confirm", "release"},
                 txn : Txns \cup {None}, now : Nat]
SweepState   == [pc : {"idle", "expired", "locked"}, batch : SUBSET Orders]

(* Every variable keeps its type, and a webhook request that is running    *)
(* has a transaction.                                                      *)
TypeOK ==
  /\ clock \in Nat
  /\ keys \in [Seats -> SeatKey]
  /\ status \in [Orders -> Status \cup {NoRow}]
  /\ holdExpiresAt \in [Orders -> Nat]
  /\ tickets \subseteq Seats \X Orders
  /\ payments \in [Txns -> {NoRow, "APPLIED", "REFUND_REQUIRED", "IGNORED_FAILED"}]
  /\ refunds \in [Txns -> Refund]
  /\ outbox \subseteq Event
  /\ charge \in [Txns -> {"none", "failed", "exact", "wrong"}]
  /\ returned \subseteq Txns
  /\ lock \in [Orders -> Deliveries \cup Workers \cup {None}]
  /\ create \in [Orders -> CreateState]
  /\ cancelling \subseteq Orders
  /\ webhook \in [Deliveries -> WebhookState]
  /\ \A d \in Deliveries : webhook[d].pc # "idle" => webhook[d].txn \in Txns
  /\ sweep \in [Workers -> SweepState]

(* No seat is sold twice (SPEC.md 13.4, 1): two tickets for one seat       *)
(* belong to one order, whatever Redis said when the orders were held.     *)
NoDoubleSell == \A x, y \in tickets : x[1] = y[1] => x[2] = y[2]

(* A PAID or TICKETED order has a ticket for each of its seats, any other  *)
(* order has none (SPEC.md 13.4, 2 and 3): insertTickets is all or nothing *)
(* and commits with the status.                                            *)
TicketsMatchStatus ==
  \A o \in Orders :
    {s \in Seats : <<s, o>> \in tickets} = IF status[o] \in Sold THEN SeatsOf[o] ELSE {}

(* No money is kept without tickets and none is given back for them        *)
(* (SPEC.md 13.4, 4): each sold order was bought by exactly one recorded   *)
(* payment of its total, and the money of every other recorded payment has *)
(* a refund; the gateway gives back only money that has one.               *)
MoneyAccounted ==
  /\ \A o \in Orders : status[o] \in Sold =>
       \E t \in Txns : /\ OrderOf[t] = o /\ payments[t] = "APPLIED" /\ charge[t] = "exact"
                       /\ \A u \in Txns : OrderOf[u] = o /\ payments[u] = "APPLIED" => u = t
  /\ \A t \in Txns :
       /\ payments[t] = "APPLIED" => status[OrderOf[t]] \in Sold
       /\ payments[t] # NoRow /\ charge[t] # "failed" /\ payments[t] # "APPLIED"
            => refunds[t].status # "NO_ROW"
       /\ t \in returned => payments[t] = "REFUND_REQUIRED"
       /\ refunds[t].status = "SUCCEEDED" => t \in returned

(* An order being refunded has exactly one refund that will move it to     *)
(* REFUNDED, still PENDING and announced to the refunder; a REFUNDED order *)
(* has had it.  Double payments on top of it do not count.                 *)
RefundDecidesOrder ==
  \A o \in Orders :
    /\ status[o] = "REFUNDING" =>
         \E t \in Txns : /\ OrderOf[t] = o /\ refunds[t].status = "PENDING"
                         /\ refunds[t].reason # "DOUBLE_PAYMENT"
                         /\ RefundEvent("order.refund_requested", t) \in outbox
    /\ status[o] = "REFUNDED" =>
         \A t \in Txns : OrderOf[t] = o /\ refunds[t].status = "PENDING"
                          => refunds[t].reason = "DOUBLE_PAYMENT"

(* An order only moves along the edges of the state machine, the bulk      *)
(* update of the expiry worker included, and every move is announced by a  *)
(* new event of that order in the same transaction (ADR-002).              *)
MovesAreLegalAndAnnounced ==
  [][\A o \in Orders : status'[o] # status[o] =>
       /\ status[o] # NoRow => CanTransition(status[o], status'[o])
       /\ status[o] = NoRow => status'[o] = "HELD"
       /\ \E e \in outbox' \ outbox : e.order = o]_vars

-----------------------------------------------------------------------------
(* Properties of the inventory, while nothing fails and requests are       *)
(* quick enough.                                                           *)

(* A seat with a ticket is never on offer again: its key keeps naming the  *)
(* order that has the ticket, from the commit of the tickets through       *)
(* confirm.lua and ever after.                                             *)
SoldSeatsStayTaken ==
  \A s \in Seats, o \in Orders : <<s, o>> \in tickets => keys[s].order = o

(* While PostgreSQL takes payment for an order, its seats are held for it  *)
(* in Redis: nobody can hold them in the meantime.                         *)
HoldCoversPayment ==
  \A o \in Orders : status[o] = "HELD" /\ clock <= holdExpiresAt[o] =>
    \A s \in SeatsOf[o] : HeldBy(keys[s], o)

(* The comment on Config.HoldGrace (service.go:62): "no one can re-hold a  *)
(* seat before PostgreSQL considers the old order expired".                *)
NoRehold ==
  \A o, p \in Orders : status[o] = "HELD" /\ clock <= holdExpiresAt[o] /\ p # o =>
    \A s \in SeatsOf[o] : ~ HeldBy(keys[s], p)

(* The branch that "should never happen while the inventory is right"      *)
(* (payment.go:179) is never taken.                                        *)
NoSeatConflictRefund == \A t \in Txns : refunds[t].reason # "SEAT_CONFLICT"

-----------------------------------------------------------------------------
(* What must happen in the end.                                            *)

(* An order past its deadline does not stay HELD (SPEC.md 13.4, 5): it is  *)
(* expired, unless it is paid, refunded or cancelled first.  Until then    *)
(* orders_one_held_per_user keeps its buyer from ordering again.           *)
OverdueLeavesHeld ==
  \A o \in Orders : status[o] = "HELD" /\ holdExpiresAt[o] < clock ~> status[o] # "HELD"

(* Whoever pays for an order that exists gets the tickets with their QR    *)
(* codes, or the money back.                                               *)
PaymentSettled ==
  \A t \in Txns : charge[t] \in {"exact", "wrong"} /\ status[OrderOf[t]] # NoRow ~>
    \/ payments[t] = "APPLIED" /\ status[OrderOf[t]] = "TICKETED"
    \/ t \in returned /\ refunds[t].status = "SUCCEEDED"

(* REFUNDING is left: no refund that only was a double payment's, and no   *)
(* order of the two halves of the refund, keeps the order there.           *)
RefundingEnds == \A o \in Orders : status[o] = "REFUNDING" ~> status[o] = "REFUNDED"

(* The seats of an order that is not HELD come back, or are sold, without  *)
(* waiting for the hold to lapse: whichever of cancel, expiry, a wrong or  *)
(* a late payment and a refused insert ended the order, one of them is     *)
(* left to release the seats.                                              *)
SeatsComeBack ==
  \A o \in Orders, s \in Seats :
    HeldBy(keys[s], o) /\ status[o] # "HELD" ~> ~ HeldBy(keys[s], o) \/ status[o] = "HELD"

-----------------------------------------------------------------------------
(* The promise of TicketSale, as the tables and the gateway show it.       *)

SoldOrders == {o \in Orders : status[o] \in Sold}

MoneyOf(t) ==
  IF payments[t] = NoRow THEN "unseen"
  ELSE IF payments[t] = "IGNORED_FAILED" THEN "nothing"
  ELSE IF payments[t] = "APPLIED" THEN "bought"
  ELSE IF t \in returned THEN "repaid" ELSE "owed"

Sale == INSTANCE TicketSale WITH sold <- SoldOrders, money <- [t \in Txns |-> MoneyOf(t)]

(* Booking implements TicketSale: with holds that lapse, late and repeated *)
(* webhooks, expiry, cancellation, crashes and lost replies, a step sells  *)
(* one order for one payment, owes the money, gives owed money back, or    *)
(* changes nothing the buyer can see.                                      *)
ImplementsTicketSale == Sale!Spec

=============================================================================
