------------------------------- MODULE FakePay -------------------------------
(***************************************************************************)
(* The payment gateway (internal/fakepay) and how booking talks to it      *)
(* (internal/payment, and paymentURL, handleWebhook and the link cache of  *)
(* cmd/booking).  Booking registers an order and remembers the link until  *)
(* the hold ends; completing a payment starts a transaction whose webhook  *)
(* is sent in one or more copies, each with its own bounded resends.  What *)
(* the gateway knows is in memory.                                         *)
(***************************************************************************)
EXTENDS Integers, FiniteSets

CONSTANTS
  Orders,       \* order ids: those of booking, and others handleAuto is given
  Booked,       \* the ids that have a row in booking's database
  AmountOf,     \* the amount to pay for each id
  Txns,         \* provider_txn_id values
  Pollers,      \* requests for an order that run at the same time
  MaxLinks,     \* size of the link cache
  MaxCopies,    \* 1 + the duplicates deliver may add
  MaxResends,
  MaxOutages,   \* bound: posts of a transaction that booking cannot record
  MaxRestarts,  \* bound: restarts of the gateway
  None

ASSUME FakePayAssumption ==
  /\ Booked \subseteq Orders
  /\ AmountOf \in [Orders -> Int]
  /\ MaxLinks \in Nat \ {0} /\ MaxCopies \in Nat \ {0}
  /\ MaxResends \in Nat \ {0} /\ MaxOutages \in Nat
  /\ MaxRestarts \in Nat
  /\ None \notin [order : Orders, amount : Int, status : {"SUCCEEDED", "FAILED"}]

VARIABLES
  due,       \* the orders whose hold_expires_at has passed
  poll,      \* each poller: idle, or an order it "asks" the gateway for, or has the link of
  links,     \* the orders in the link cache
  payments,  \* the orders registered at the gateway
  txn,       \* transaction -> its webhook, or None
  copy,      \* the copies of each webhook: their phase and posts so far
  recorded,  \* transactions recorded by booking
  outages,   \* posts of each transaction that booking answered with an error
  refunds,   \* transactions in the gateway's refund table
  returned,  \* how often the money of each transaction was returned
  restarts

bookingVars == <<due, poll, links>>
deliveryVars == <<txn, copy, recorded, outages>>
refundVars == <<refunds, returned>>
vars == <<bookingVars, payments, deliveryVars, refundVars, restarts>>

Copies == 1..MaxCopies

MaxReturned == MaxRestarts + 2   \* bound: refunds of a transaction that are counted

Unused == [at |-> "none", posts |-> 0]
Idle == [at |-> "idle", order |-> None]

Init ==
  /\ due = {}
  /\ poll = [p \in Pollers |-> Idle]
  /\ links = {}
  /\ payments = {}
  /\ txn = [t \in Txns |-> None]
  /\ copy = [t \in Txns |-> [c \in Copies |-> Unused]]
  /\ recorded = {}
  /\ outages = [t \in Txns |-> 0]
  /\ refunds = {}
  /\ returned = [t \in Txns |-> 0]
  /\ restarts = 0

-----------------------------------------------------------------------------
(* Booking: the payment link of an order.                                   *)

HoldEnds(o) ==
  /\ o \in Booked \ due
  /\ due' = due \cup {o}
  /\ UNCHANGED <<poll, links, payments, deliveryVars, refundVars, restarts>>

(* paymentURL of an order that is still HELD, due or not; a cached link is *)
(* served until the hold ends, otherwise the gateway is asked.  An order   *)
(* that is no longer HELD is one nobody asks for any more.                 *)
PaymentURL(p, o) ==
  /\ poll[p] = Idle
  /\ o \in Booked /\ o \notin links \ due
  /\ poll' = [poll EXCEPT ![p] = [at |-> "asks", order |-> o]]
  /\ UNCHANGED <<due, links, payments, deliveryVars, refundVars, restarts>>

validCreate(o) == AmountOf[o] > 0

(* Mutant: an order that is refused is answered with a link. *)
RegisterUnchecked(p) ==
  LET o == poll[p].order IN
  /\ poll[p].at = "asks"
  /\ payments' = IF validCreate(o) THEN payments \cup {o} ELSE payments
  /\ poll' = [poll EXCEPT ![p].at = "told"]
  /\ UNCHANGED <<due, links, deliveryVars, refundVars, restarts>>

(* handleCreate: registering again keeps the first registration. *)
Register(p) ==
  LET o == poll[p].order IN
  /\ poll[p].at = "asks"
  /\ IF validCreate(o)
     THEN /\ payments' = payments \cup {o}
          /\ poll' = [poll EXCEPT ![p].at = "told"]
     ELSE poll' = [poll EXCEPT ![p] = Idle] /\ UNCHANGED payments
  /\ UNCHANGED <<due, links, deliveryVars, refundVars, restarts>>

(* paymentLinkTimeout, before or after the gateway has registered: the     *)
(* order is answered without a link.                                       *)
LinkFails(p) ==
  /\ poll[p] # Idle
  /\ poll' = [poll EXCEPT ![p] = Idle]
  /\ UNCHANGED <<due, links, payments, deliveryVars, refundVars, restarts>>

Expired(L) == L \cap due

(* Mutant: a full cache drops only links that have expired. *)
EvictedExpired(L) == {L \ Expired(L)}

(* A full cache drops expired links, then arbitrary ones until there is    *)
(* room.                                                                   *)
Evicted(L) ==
  LET live == L \ Expired(L) IN
  IF Cardinality(L) < MaxLinks THEN {L}
  ELSE IF Cardinality(live) < MaxLinks THEN {live}
  ELSE {K \in SUBSET live : Cardinality(K) = MaxLinks - 1}

(* paymentLinkCache.put. *)
Put(p) ==
  /\ poll[p].at = "told"
  /\ \E L \in Evicted(links) : links' = L \cup {poll[p].order}
  /\ poll' = [poll EXCEPT ![p] = Idle]
  /\ UNCHANGED <<due, payments, deliveryVars, refundVars, restarts>>

-----------------------------------------------------------------------------
(* The gateway: transactions and the delivery of their webhooks.            *)

(* complete: a new transaction, and deliver's choice of n copies. *)
NewTransaction(o, t, result, n) ==
  /\ txn[t] = None
  /\ txn' = [txn EXCEPT ![t] = [order |-> o, amount |-> AmountOf[o], status |-> result]]
  /\ copy' = [copy EXCEPT ![t] = [c \in Copies |-> IF c <= n THEN [at |-> "wait", posts |-> 0] ELSE Unused]]
  /\ UNCHANGED <<bookingVars, recorded, outages, refundVars, restarts>>

(* handleComplete. *)
Complete(o, t, result, n) == o \in payments /\ NewTransaction(o, t, result, n) /\ UNCHANGED payments

(* handleAuto registers and completes in one call, for any id. *)
AutoComplete(o, t, result, n) ==
  /\ validCreate(o)
  /\ payments' = payments \cup {o}
  /\ NewTransaction(o, t, result, n)

Post(t, c) ==
  /\ copy[t][c].at = "wait"
  /\ copy' = [copy EXCEPT ![t][c] = [at |-> "posted", posts |-> @.posts + 1]]
  /\ UNCHANGED <<bookingVars, payments, txn, recorded, outages, refundVars, restarts>>

(* Webhook.Validate: money that moved is never 0. *)
Validate(w) == w.amount >= 0 /\ (w.status = "SUCCEEDED" => w.amount > 0)

(* Mutant: an error of ApplyPayment is answered with 200. *)
AnswerAlways(ok) == "ok"

(* handleWebhook: an error status if the webhook is not valid or           *)
(* ApplyPayment fails, else 200.                                           *)
AnswerOf(ok) == IF ok THEN "ok" ELSE "error"

(* ApplyPayment inserts the payment, unless the order has no row to lock:  *)
(* UNKNOWN_ORDER, which is no error.                                       *)
Records(w) == Validate(w) /\ w.order \in Booked

Webhook(t, c) ==
  /\ copy[t][c].at = "posted"
  /\ \E up \in BOOLEAN :
       LET ok == up /\ Validate(txn[t]) IN
       /\ up \/ outages[t] < MaxOutages
       /\ outages' = IF up THEN outages ELSE [outages EXCEPT ![t] = @ + 1]
       /\ recorded' = IF up /\ Records(txn[t]) THEN recorded \cup {t} ELSE recorded
       /\ copy' = [copy EXCEPT ![t][c].at = AnswerOf(ok)]
  /\ UNCHANGED <<bookingVars, payments, txn, refundVars, restarts>>

(* Mutant: one resend too few. *)
LastPostEarly(posts) == posts >= MaxResends

(* posts > MaxResends in sendWithRetry. *)
LastPost(posts) == posts > MaxResends

Retry(t, c) ==
  copy' = [copy EXCEPT ![t][c].at = IF LastPost(copy[t][c].posts) THEN "given up" ELSE "wait"]

(* sendWithRetry: 200 ends the delivery, unless the gateway chooses to     *)
(* count it as failed; everything else is sent again.                      *)
SendWithRetry(t, c) ==
  /\ \/ /\ copy[t][c].at = "ok"
        /\ copy' = [copy EXCEPT ![t][c].at = "delivered"]
     \/ copy[t][c].at \in {"ok", "error"} /\ Retry(t, c)
  /\ UNCHANGED <<bookingVars, payments, txn, recorded, outages, refundVars, restarts>>

-----------------------------------------------------------------------------
(* Refunds, asked for by the refunder until a reply arrives.                *)

(* Mutant: a repeated refund pays again. *)
RepeatNever(t) == FALSE

Repeat(t) == t \in refunds

Refund(t) ==
  /\ t \in recorded
  /\ returned' = IF Repeat(t) \/ returned[t] = MaxReturned THEN returned ELSE [returned EXCEPT ![t] = @ + 1]
  /\ refunds' = refunds \cup {t}
  /\ UNCHANGED <<bookingVars, payments, deliveryVars, restarts>>

(* The gateway stops: deliveries are cancelled, its memory is lost.        *)
(* Booking may still record a post that has reached it.                    *)
Restart ==
  /\ restarts < MaxRestarts
  /\ restarts' = restarts + 1
  /\ payments' = {} /\ refunds' = {}
  /\ copy' = [t \in Txns |-> [c \in Copies |->
       IF copy[t][c].at \in {"wait", "posted", "ok", "error"} THEN [copy[t][c] EXCEPT !.at = "cancelled"]
                                                             ELSE copy[t][c]]]
  /\ \E late \in SUBSET {t \in Txns : (\E c \in Copies : copy[t][c].at = "posted") /\ Records(txn[t])} :
       recorded' = recorded \cup late
  /\ UNCHANGED <<bookingVars, txn, outages, returned>>

Deliver(t, c) == Post(t, c) \/ Webhook(t, c) \/ SendWithRetry(t, c)

Next ==
  \/ \E o \in Orders : HoldEnds(o)
  \/ \E p \in Pollers : Register(p) \/ LinkFails(p) \/ Put(p) \/ \E o \in Orders : PaymentURL(p, o)
  \/ \E o \in Orders, t \in Txns, r \in {"SUCCEEDED", "FAILED"}, n \in Copies :
       Complete(o, t, r, n) \/ AutoComplete(o, t, r, n)
  \/ \E t \in Txns, c \in Copies : Deliver(t, c)
  \/ \E t \in Txns : Refund(t)
  \/ Restart

Spec == Init /\ [][Next]_vars

(* The goroutine of a delivery goes on: a post has an answer or times out, *)
(* and a timer fires.                                                      *)
Fairness == \A t \in Txns, c \in Copies : WF_vars(Deliver(t, c))

FairSpec == Spec /\ Fairness

-----------------------------------------------------------------------------
(* Properties.                                                              *)

(* The variables have the types of the code, and the link cache keeps to   *)
(* its size in whatever order links are put, expire and are evicted.       *)
TypeOK ==
  /\ due \subseteq Orders
  /\ poll \in [Pollers -> {Idle} \cup [at : {"asks", "told"}, order : Orders]]
  /\ links \subseteq Orders /\ Cardinality(links) <= MaxLinks
  /\ payments \subseteq Orders
  /\ \A t \in Txns, c \in Copies : copy[t][c].posts \in 0..(MaxResends + 1)
  /\ recorded \subseteq {t \in Txns : txn[t] # None}
  /\ restarts \in 0..MaxRestarts

(* A link in the cache leads to a registered payment, although the cache,  *)
(* the gateway and the requests that fill the cache are separate and links *)
(* are evicted and put again in any order.  A restart of the gateway       *)
(* leaves dead links behind.                                               *)
LinkIsPayable == restarts = 0 => links \subseteq payments

(* The gateway stops sending a webhook as delivered only when booking has  *)
(* recorded the payment or has no such order, also when copies race,       *)
(* answers are counted as failures and the gateway restarts.  The money of *)
(* an unknown order stays with the gateway (handleWebhook answers 200 to   *)
(* UNKNOWN_ORDER as well).                                                 *)
DeliveredMeansRecorded ==
  \A t \in Txns :
    (\E c \in Copies : copy[t][c].at = "delivered") => t \in recorded \/ txn[t].order \notin Booked

(* The refund of a transaction is paid once however often it is asked for, *)
(* and once more at most for every time the gateway loses its memory.      *)
RefundedOnce == \A t \in Txns : returned[t] <= 1 + restarts

(* A payment for an order of booking is recorded in the end although       *)
(* booking fails to record as many posts of it as there are resends (the   *)
(* first post is not one), unless a restart of the gateway cancelled a     *)
(* copy of its webhook.                                                    *)
EventuallyRecorded ==
  \A t \in Txns :
    <>[](txn[t] # None /\ txn[t].order \in Booked =>
           t \in recorded \/ \E c \in Copies : copy[t][c].at = "cancelled")
=============================================================================
