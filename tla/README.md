# TicketRush in TLA+

TicketRush sells numbered seats. A buyer waits in a queue, holds seats for a few
minutes, pays at a gateway and gets tickets. PostgreSQL decides who owns what.
Redis keeps other buyers away from held and sold seats. Kafka carries what was
decided to the workers that finish it. This directory models that protocol in
TLA+, checks it with TLC on small instances, and proves the central properties
with TLAPS for every instance.

## The system

| Part | Source | Module |
|---|---|---|
| order state machine | `internal/order/state.go` | `OrderState` |
| seat keys in Redis, three Lua scripts | `internal/inventory/redis.go`, `lua/` | `SeatKeys` |
| cancel, payment webhook, expiry worker, ticket issuer, refunder | `internal/order` | `Booking` |
| what a buyer is promised | ADR-003 | `TicketSale` (abstract) |
| create: key lock, replay, admission, hold, insert | `internal/order/service.go`, `redisx/lock.go`, `queue/ledger.go` | `CreateOrder` |
| what `POST /v1/orders` promises | ADR-005 | `OrderDesk` (abstract) |
| outbox and relay | `internal/outbox`, `cmd/relay` | `Relay` |
| consumer group, notifier | `platform/kafka/consume.go`, `internal/notifier` | `Notify` (composed with `Relay`) |
| waiting room, admission worker | `internal/queue`, `cmd/waitingroom` | `WaitingRoom` |
| seat map, versions, ETags | `cmd/booking/seatmap_cache.go`, `internal/catalog` | `SeatMap` |
| PostgreSQL inventory backend | `internal/inventory/pg.go` | `PgHolds` |
| what an inventory promises | `internal/inventory/inventory.go` | `Inventory` (abstract) |
| payment links, gateway, webhook delivery | `cmd/booking/caches.go`, `internal/payment`, `internal/fakepay` | `FakePay` |

How the parts meet. The waiting room hands out admission tokens in join order.
`POST /v1/orders` claims the token, holds the seats in Redis and inserts a HELD
order with a deadline. The gateway's webhook locks the order row and decides:
sell, refund, or, for a late payment, try to hold the seats again and then sell or
refund. After the commit Redis is told. The expiry worker moves overdue orders to
EXPIRED and then releases their seats. Every status change writes an event to the
outbox in its own transaction; the relay publishes it. The ticket issuer, the
refunder and the notifier act on these events. Redis and PostgreSQL are never
changed in one atomic step, so most of what can go wrong is in the gap between
them.

`Booking` has the life of an order with its clock and payments. `CreateOrder` has
the same create request call by call with several requests of one buyer, and sees
the rest of an order's life as the single action `OrderEnds`. `Notify` extends
`Relay`: its behaviours are those of the outbox, the relay, the partitions and the
consumer group together. `SeatKeys` is shared by all modules that touch seats.

## Modules

### `OrderState`, `SeatKeys`

`OrderState` has the statuses and the edges of `transitions`. `SeatKeys` has one
operator for each Lua script. A script runs atomically in Redis, so it is a
function from the map of seat keys to the map it leaves. `Taken` and `HoldSeats`
are `hold.lua`, `ReleaseSeats` is `release.lua`, `ConfirmSeats` is `confirm.lua`
with its early stop at a foreign key, `Lapse` is key expiry. Seats are numbers
because `confirm.lua` walks them in order.

### `Booking`

The variables are the tables (`status`, `holdExpiresAt`, `tickets`, `payments`,
`refunds`, `outbox`), the Redis keys (`keys`), the gateway (`charge`, `returned`),
the clock, the row locks that outlive a step (`lock`), and where each handler is
(`create`, `cancelling`, `webhook`, `sweep`).

| Action | Code |
|---|---|
| `CreateHold`, `CreateInsert`, `CreateRelease`, `CreateFail` | the loop body of `Service.create`, `insertHeld`, `release` |
| `Cancel`, `CancelRelease`, `CancelFail` | `Service.Cancel` |
| `Charge` | `fakepay.complete` |
| `WebhookBegin` .. `WebhookFail` | `Service.ApplyPayment`, `paymentTx.decide`, `pay`, `refund`, `insertTickets` |
| `Expire`, `SweepLock`, `SweepRelease`, `SweepDone`, `SweepFail` | `Expirer.RunOnce`, `releaseExpired`, `Run` |
| `Issue` | `TicketIssuer.Issue` |
| `RefundCall`, `RefundComplete` | `RefundProcessor.Process` before and after the gateway's answer |
| `Tick` | time, and the expiry of Redis keys |

Grain of atomicity:

- A transaction that calls nothing outside PostgreSQL is one step. Row locks taken
  inside it commute with everything else.
- A handler that calls Redis or the gateway is cut at each call.
- The webhook's transaction is cut at the late hold, and keeps the order lock over
  the cut. It is also cut after BEGIN, because `now()` is the time of BEGIN while
  the lock may be granted much later.
- The expiry worker keeps the locks of its second transaction while it releases,
  one order per step. A release that fails is skipped and the next one follows.
- `insertTickets` in two transactions at once waits on the unique index, so the
  two transactions take effect one after the other.

Failures, allowed when `MayFail`: a process dies between any two steps, a call
fails, a call takes effect although its reply is lost. An open transaction rolls
back. What Redis has done stays done.

Time. PostgreSQL and Redis share one clock. A hold with time to live `n` exists
while `clock <= start + n`. A payment is on time while `now <= holdExpiresAt`, an
order is due once `holdExpiresAt < clock`. A time to live of 0 is one shorter than
a tick. `MaxDelay` bounds how long a create or webhook request may take. A value
above `MaxClock` means no bound.

Abstracted:

- A transaction's amount is the order's total (`exact`) or another one (`wrong`).
- Event payloads are reduced to type, order and transaction.
- An event reaches its consumer at any later time, any number of times.
- `ORDER BY hold_expires_at` in the expiry query picks any small subset, because
  `SKIP LOCKED` may pass over rows that a short transaction has locked.
- The gateway accepts payments for any order at any time (`/v1/payments/auto`).
  This includes an order whose row does not exist yet.
- QR payloads, prices and seat validation are pure functions and left out.

### `TicketSale`

The promise, without holds, clock, Redis or events. An order is sold at most once,
for one payment, while no sold order has any of its seats. Every other payment
that moved money is owed back. Only owed money is repaid. `Booking` maps to it
with `SoldOrders` (the PAID and TICKETED orders) and `MoneyOf` (the payment's
outcome together with what the gateway returned).

### `CreateOrder` and `OrderDesk`

One step for each call of `Service.create`: the checks before the lock (`Begin`),
`TryLock`, the lookup by key with and without the lock (`Find`, `FindBusy`), the
claim of the admission (`Claim`), `Hold`, `insertHeld`, the release after a failed
insert, the second round after a unique violation, and the two deferred calls
(`Unclaim`, `Unlock`) that run after every return. Keys expire on their own
(`LockLapses`, `ClaimLapses`, `HoldLapses`). The order a request creates has the
request's name, because each request draws a fresh id.

`Faults` names what may go wrong: the process dies, a call fails, a Redis reply is
lost, the reply of COMMIT is lost, a request outlives its lock. `hit` remembers
which request met which fault, so properties can speak of the requests beside it.

`OrderDesk` is the promise, without locks, claims or seats. A key creates at most
one order. An admission is used up by one order, unless the request of that order
was answered with ERROR. A success names the order of its key and needs the same
body. A definite refusal created nothing.

### `Relay` and `Notify`

`Write` and `EndTx` are a transaction that draws an outbox id and commits or rolls
back, so ids become visible out of order. `LockUnpublished`, `Produce`,
`MarkPublished` are `RunOnce`, one record at a time; `BatchFails` is a batch that
rolls back, `Crash` a dying process. With `LocksLinger`, PostgreSQL keeps the locks
of a dead session until `SessionEnds`. `Cleanup` deletes published rows.

`Notify` adds the group: `Join`, `Assign`, `Revoke`, `Evict`, `Leave` are
membership, `Poll`, `Process`, `Send`, `Mark` and `CommitUncommittedOffsets` the
loop of `Consume` with the handler inside. A member evicted in mid-batch goes on
with it. A send may reach the buyer although its answer is lost, and a mark may
fail; `blemishes` counts what may repeat a message.

### `WaitingRoom`

`Join`, `Status` and `JoinScript` are `Queue.Join`: read the user's key, ask for
the status of the place it names, run `join.lua` with what was found. `Status` is a
pipeline, not a transaction, so it may be cut between GET and ZRANK
(`StatusRank`). A stream repeats `Status` until the token is there or the place is
gone. A worker's tick is cut at each Redis command: lease, head, owners, each
token, ZREM, HDEL. It may break off at each cut (`Abort`); then the commands before
the cut have run and the others have not. Leases, admissions and user keys lapse at
any time.

`early` records that a live place was taken for gone (the cut `Status`), that an
admission ended while a worker still had it in hand, or that a user key ended
before the place it names. `OnePlace` speaks of behaviours without these.

### `SeatMap`

A script that succeeded and changed seats is followed by an INCR of the version
(`bumpVersion`), which may fail. A confirm that meets a foreign key is not: the
script has sold the seats before that key, and `Redis.Confirm` returns the mismatch
without a bump (`ConfirmBumps`). An instance reads the version, then the seats in
batches of one MGET, and stores the map with the tag of that version. A client gets
304 while its tag matches. `silent` is the version at the last change without an
INCR: a failed one, a hold that lapsed, or a confirm that stopped half way.

### `PgHolds` and `Inventory`

`Hold` of the PostgreSQL backend: a connection from the pool, the seats rows locked
one after the other in `seat_id` order, a second statement that looks for holds
and tickets, the upsert, the commit. A late payment does this while its own
transaction keeps another connection. Meanwhile the payment has its order locked, so
a copy of its webhook or a cancel takes a connection too and waits for the row
(`SecondBegins`, `queued`). It ends once it has the row or its request ends
(`SecondEnds`), or it goes on as the payment when the one before it was rolled back
(`BeginPayment`). `Inventory` is the contract in four lines:
hold all seats or none, free only one's own, sell what one holds. The mapping reads
a seat as `SeatStatuses` does: a ticket outranks a hold, an expired hold is none.

### `FakePay`

Booking's side: `PaymentURL`, `Register`, `LinkFails`, and `Put` with the eviction
of a full cache. The gateway's side: `Complete` and `AutoComplete` start a transaction whose
webhook is sent in one or more copies. Each copy is posted, answered by booking and
sent again up to `MaxResends` times; the gateway may count an accepted post as
failed. Booking records a valid webhook only for an order it has (`Booked`,
`Records`). For any other id, which `/v1/payments/auto` accepts, it answers 200 and
records nothing (`UNKNOWN_ORDER`). `Refund` is idempotent by transaction. `Restart`
loses the gateway's memory and cancels deliveries; booking may still record a post
that was on its way.

### MC modules and proof modules

`MCBooking` gives the constants values: order `o1` wants seats 1 and 2, `o2` wants
seat 2, `t1` and `t2` pay for `o1`, `t3` pays for `o2`. The other MC modules do the
same for their components; their comments say which case the values are for.
`BookingProofs`, `CreateOrderProofs`, `RelayProofs`, `DeliveryProofs`,
`WaitingRoomProofs`, `SeatMapProofs`, `PgHoldsProofs` and `FakePayProofs` hold the
theorems.

## Runs

| Run | Instance | Shows | Distinct states |
|---|---|---|---|
| `booking_faults` | 2 orders, 2 buyers, 1 payment each, failures, unbounded requests | `TypeOK`, `NoDoubleSell`, `TicketsMatchStatus`, `MoneyAccounted`, `MovesAreLegalAndAnnounced`, `ImplementsTicketSale` | 1.9 million |
| `booking_repeat` | 1 order, 2 payments, 2 webhook requests at once, failures | `RefundDecidesOrder`, `ImplementsTicketSale` | 0.9 million |
| `booking_timed` | 2 orders, 2 payments, 2 requests at once, no failures, `2 * MaxDelay <= HoldGrace` | `SoldSeatsStayTaken`, `HoldCoversPayment`, `NoSeatConflictRefund` | 2.8 million |
| `booking_settles` | 2 orders of one buyer, 2 payments for the first, fair | `PaymentSettled`, `RefundingEnds`, `OverdueLeavesHeld`, `SeatsComeBack` | 52 thousand |
| `booking_lost_reply` | as `booking_timed`, with failures | violates `NoRehold` | |
| `create_order` | 4 requests of a buyer, 2 keys, 2 admissions, one request hit by faults of any kind | `NoTrace`, `LoserBecomesReplay`, `NotOwnSeats`, `ImplementsDesk` | 2.0 million |
| `relay` | 2 relays, 2 orders, 3 events in batches of 2, 2 faults, lingering locks | `EventsExact`, `NoCopies`, `OrderKept` | 0.9 million |
| `notify` | 1 relay, 2 members, 2 events, 1 failure, 1 stop, fair | `CommittedMeansTold`, `RepeatsCounted`, `EventuallyTold` | 66 thousand |
| `waiting_room` | 1 buyer who may join again, 2 workers, batches of 2, 1 aborted tick, fair | `NobodyLost`, `FirstComeFirstServed`, `OnePlace`, `EventuallyServed`, `StreamEnds` | 1.1 million |
| `seat_map` | 2 seats in 2 batches, 2 orders, 3 changes, lapsing holds, failing INCRs and loads, fair | `NeverBehind`, `EventuallyCurrent` | 0.7 million |
| `pg_holds` | 3 orders whose seats form a ring, 2 of them may be late, a second request for one of these, pool of 4, 2 requests each, fair | `TypeOK`, `ImplementsInventory`, `RequestsEnd` | 0.2 million |
| `fake_pay` | 4 order ids (one of amount 0, one unknown to booking), cache of 1, 1 transaction in 2 copies, 1 resend, 1 outage, 1 restart, fair | `TypeOK`, `LinkIsPayable`, `DeliveredMeansRecorded`, `RefundedOnce`, `EventuallyRecorded` | 1.6 million |

### Bounds

`Booking`. Two orders that share one seat, of which one has a second seat, give
every conflict: all taken, partly taken, a confirm that stops half way. Two
payments for one order reach every branch of `decide`. One expiry worker with a
batch of two reaches a batch in which one order was paid meanwhile. The clock runs
far enough for a hold to lapse, for the order to expire and for a late payment's
hold to lapse as well. In `booking_faults` the times to live are 0, so every hold
may lapse at the next tick.

`booking_timed` answers how much grace is enough. A webhook that began on time may
finish `MaxDelay` later. The order's deadline may be `MaxDelay` later than the
moment the seats were held. So Redis must outlast PostgreSQL's deadline by
`2 * MaxDelay`. With a grace of one `MaxDelay` TLC finds a sold seat that is on
offer again. The default of 30 s suits requests of at most 15 s, which is the
server's write timeout. The configuration also admits a grace of 0.

`booking_settles` sets `HoldGrace` so high that no hold lapses. Seats come back
only if somebody releases them.

`create_order`. Requests 1 and 2 are one request sent twice with the seats in
another order, 3 reuses the key with another body and another admission, 4 is a new
key under the first admission. Together they reach the replay, the reused key, the
unique violation with its second round, and the race for an admission. One hit
request is enough for a fault to meet every healthy one.

`relay`. Three events of two orders fill more than one batch, and two faults allow
a failed batch and a dead relay. In `notify` the relay does not fail: what a relay
does to the partitions after a fault, a second copy of a record, is reached in
`relay`, and the group meets the same record twice through its own failures. The
proof of `RepeatsCounted` has both at once.

`waiting_room`. Two ids and two workers reach a late worker that admits beside its
successor, a buyer whose place is gone and who joins again, and a batch of which one
token is stored and the other is not. Several tabs of a user, and a queue longer than
a batch, are covered by the proofs of `OnePlace` and `FirstComeFirstServed`, not by
this run.

`seat_map`. The orders share a seat, and one of them wants two seats, so a confirm
may find the second one taken after it has sold the first. One instance and one client suffice for liveness, since an instance
shares nothing with another but Redis; any number of both is covered by the proof
of `NeverBehind`.

`pg_holds`. A ring of three overlapping pairs of seats is the smallest case in
which locking in another order would deadlock three ways. The pool has one
connection more than the late payments and the request that waits for an order of
theirs can keep. With one connection less, TLC finds them waiting for each other.

`fake_pay`. One cache entry and two payable orders make every `Put` of the second
link an eviction. The fourth id has no row in booking's database.

Deadlock is not checked: in every module the system has nothing left to do once all
requests are finished and the bounds are reached.

### Fairness

- `Booking`: a request that was accepted runs to its end, since `releaseTimeout`
  and the request timeouts bound every call. The loop of `Expirer.Run` goes round
  after success and failure alike. A consumer is handed an event until it has
  handled it: offsets are committed after handling, and `process` retries in place.
  The gateway delivers a transaction until it is answered; this fairness is strong
  because the model has few request slots and net/http has one goroutine for each
  request. The real gateway gives up after `MaxResends`, so these results are about
  outages shorter than that; `FakePay` has the bound itself. The run excludes
  failures: with failures, seats come back by time to live only.
- `Relay` and `Notify`: open transactions end, relays are restarted and go round,
  PostgreSQL ends dead sessions. A member joins, polls and handles; a send or a
  commit that is tried again and again succeeds in the end (strong fairness, since
  failures are bounded); Kafka assigns every partition.
- `WaitingRoom`: the sale opens, every instance ticks, and an open stream asks again.
  Leases need not end, and buyers need not join or stay.
- `SeatMap`: the INCR follows its script (weak fairness, so it may still fail),
  loads run, entries expire, and a client keeps polling (strong, because entries
  come and go).
- `PgHolds`: a call goes on. It is strong because PostgreSQL queues lock waiters and
  pgxpool queues connection waiters in order of arrival. Nobody need time out. A
  second request for an order goes on once the payment has left the row.
- `FakePay`: the goroutine of a delivery goes on. Nothing obliges a buyer to poll
  or pay.

### Finding

`booking_lost_reply`: `create` releases the seats after every error of
`insertHeld`. If the transaction committed and only the reply was lost, the order
is HELD and payable while another order holds its seats. The comment on
`Config.HoldGrace` (`service.go:62`) says that no one can re-hold a seat before
PostgreSQL considers the old order expired. Money and tickets stay right in this
case. `booking_faults` covers it, and the loser is refunded as `SEAT_CONFLICT`.

### What the conditions in the properties stand for

Some properties are stated with the condition under which the code keeps them.
Without it TLC finds a behaviour of the code that a comment or a document does not
mention:

- Admission after a lost commit (`ImplementsDesk`, `OrderDesk!UsedUp`). `create`
  gives the admission back after every error, also when COMMIT succeeded and only
  its reply was lost. When that order has ended, the same token can create a second
  order under a new key. `ledger.go:20` says that a token creates at most one order.
- Claims that end (`ImplementsDesk`, `NoTrace`, the guard of `ClaimLapses`). The claim
  is kept for ADMISSION_TTL from the moment it is made (`ledger.go:42`, `claim.lua:7`),
  while the token was checked earlier and is not checked again. So the claim may end
  while a request that presented the same token in time is still on its way to its own
  claim. This takes a request slower than the time between the issue and the first use
  of the token. The models leave such requests out: a claim ends when no request with
  its token is running.
- Order of events (`OrderKept`, `overlap`). When a relay dies and PostgreSQL keeps
  its locks for a while, its successor skips the locked rows and may publish a later
  event of the same order first. ADR-002 promises the order for a single relay.
- Second place (`OnePlace`, `early`). A buyer whose token is stored and whose entry
  is removed between the GET and the ZRANK of `Status` is in neither answer, and
  `Join` gives them a new place beside the token. `queue.go:60` says that joining
  again while waiting or admitted returns the same id. A wait longer than
  `userKeyTTL`, or a worker asleep for longer than `ADMISSION_TTL`, has the same
  effect.
- Silent changes (`NeverBehind`, `EventuallyCurrent`, `silent`). A hold that ends by
  its time to live moves no version, and the later release finds nothing and does
  not move it either. A confirm that stops at a foreign key has sold the seats before
  it and moves none (`confirm.lua:6-11`, `redis.go:119-121`). Clients with the current tag go on showing the seat as held
  until another seat of the event changes. `seatmap_cache.go:104` bounds this by
  the cache TTL, and `catalog.go:209` says that every change of a seat moves the
  version.
- Pool size (`RequestsEnd`). Late payments, and the requests that wait for the order
  rows these have locked, keep a connection each while the payments need one more.
  Once they have all the connections of the pool they wait for each other until their
  requests time out.
- Unknown orders (`DeliveredMeansRecorded`, `EventuallyRecorded`, `Booked`). A webhook
  for an id without a row is answered 200, so the gateway counts it as delivered, and
  nothing is recorded or returned (`payment.go:83`, `api.go:382`).
- Restart of the gateway (`LinkIsPayable`, `RefundedOnce`, `EventuallyRecorded`).
  Cached links are dead, a refund asked for again is paid again, and webhooks on
  their way are gone. The gateway is a stand-in that keeps its state in memory.
- Slow requests (`NotOwnSeats`). A request that outlives the 30 s of its lock may
  make a repetition of itself see its own seats as taken.

## Proofs

The theorems hold for any number of orders, seats, transactions, requests, workers,
relays, members, instances and tabs, and any times to live, under the named
assumptions of the modules. Those say that constants have the right types, that names
for "nobody" differ from real ones, in `Booking` that each order has at least one
seat and each transaction names an order, and in `Notify` that the members of the
consumer group are finitely many (`RepeatsCounted` counts them).

### Booking

`BookingProofs` has `TypeCorrect`, the safety theorems `NeverSoldTwice`,
`TicketsComplete`, `MoneyIsAccounted` and `RefundsDecide`, the action property
`MovesLegal`, the `Refinement` of `TicketSale`, and three theorems about the
inventory while nothing fails and no request is slow. Its parts are the types (one
step for each action, and lemmas that each Lua script keeps the key map well formed),
the invariant `HandlerInv` of the handlers between their steps, the kinds of steps
(`DbNext`, `StepKinds`), and the invariant `TableInv` of the tables, with one lemma
for each conjunct. `InsertEffect`, `PayEffect` and so on say entry by entry what a
kind of step does. Together they make the inductive invariant `IInv`.

The argument. Most actions change only Redis or a handler's progress. `DbNext`
names the few kinds of steps that touch the tables or the gateway: insert, move,
expire, pay, refund, double payment, ignored payment, gateway call, completed
refund. `StepKinds` shows that every step of `Next` is one of these or leaves the
tables alone. The rest of the proof is about `DbNext` only.

The properties are not inductive by themselves. `HandlerInv` adds what a handler
knows between its steps:

- `InsertOnce`: a create request that has not inserted yet has no row.
- `ChargedFirst`: a delivered transaction was charged before.
- `LateUnderLock`: a webhook that has re-held its seats still has the order lock,
  the order is still HELD or EXPIRED, and the payment is still unrecorded.

`LateUnderLock` is what makes the second half of a late payment safe. `TableInv`
adds the agreement of the tables:

- `Ledger`: payments, refunds and the gateway agree.
- `OneBuyer`: one applied payment for each sold order.
- `OneRefund`: one refund that decides a refunded order.
- `Announced`: an event tells of something that has happened. `MovesLegal` needs
  it, because an event is new only if it was not written before.

The refinement proof maps the steps of `DbNext` to `Buy`, `Owe`, `Ignore`, `Repay`
or a stutter. The guard of `Buy` (no sold order has any of these seats) follows
from the UNIQUE constraint together with `TicketsMatchStatus`.

`SoldStayTaken`, `HoldsCoverPayment` and `ConflictNeverRefunded` are about Redis and
the clock, and they have a hypothesis, `Quick`: nothing fails, `2 * MaxDelay` is at
most `HoldGrace`, and `MaxDelay` is at most `LateHoldTTL`. The instance of
`booking_timed` satisfies it, and so do the defaults of the code for requests of at
most 15 s. It cannot be dropped: the behaviour of `booking_lost_reply`, with failures,
has a seat of an order that can still be paid in another order's hold, and with a
grace of one `MaxDelay` a sold seat is on offer again. The invariant of these
theorems, `TimedInv`, has these parts:

- `Ages`: no create or webhook request is older than `MaxDelay`.
- `Duties`: a handler that still has to release the seats does so for an order that
  has ended or was never inserted, and one that has to confirm does so for a sold
  order.
- `Sweeps`: the expiry worker has locked the orders it releases, and none of them is
  sold.
- `CoverInv`: an order that relies on its seats until time `t` (`Relies`) holds all of
  them until `t`. It relies on them while it waits for its insert, while it is HELD,
  up to `HoldGrace - MaxDelay` past its deadline, and while a late payment is under
  way. The seats of a sold order are sold in Redis, or held until the request that
  will confirm them has ended.

The Lua scripts take no seats from other orders (`HoldKeeps`, `ReleaseKeeps`,
`ConfirmKeeps`), and a hold does not lapse before its time (`LapseKeeps`). So a step
can only hurt the order it acts for. There are a few such steps: those that give the
order something new to rely on (`Touches`) and those that release (`Releases`). Each
has a lemma. That the conflict branch is never taken follows: a seat that the order
holds has no other order's ticket, since that order would have the key.

### The other components

- `CreateOrderProofs`: `CreateNoTrace`, `CreateLoserReplays`, the action property
  `CreateNotOwnSeats` and `CreateRefinesDesk`, the refinement of `OrderDesk`. The
  inductive invariant `CreateInv` has one formula `RequestInv(r)` for each request,
  which ties the place of `r` in the handler to what it has in Redis and PostgreSQL:
  who has its lock (`LockInv`), whether its admission is claimed (`ClaimInv`), which
  seats it holds (`SeatInv`), whether its row is there (`RowInv`), and what a second
  round may rely on (`RoundInv`). Faults weaken only the parts of the request they
  hit, and that is why the requests beside it still leave no trace. In the refinement
  every call maps to an answer of the desk or to a stutter.
- `RelayProofs`: `RelayEventsExact`, `RelayNoCopies` and `NotifyCommittedTold`.
  `EventsExact` alone is not inductive: that a row marked as published is on Kafka
  depends on what the relay did before it marked. `RelayInv` says for each relay that
  its batch consists of unpublished rows of its own and that what it no longer has to
  send was sent. `CopyInv` adds that, while nothing has failed, an unpublished row
  that is on Kafka is still locked by the relay that sent it. For the consumer group,
  `NotifyInv` says that everything below a committed offset, everything a member has
  already passed in its batch, every key marked as sent, and the record a member is
  about to mark, was told. It holds under every step of the outbox too, because
  those only append to the logs (`Kept`).
- `DeliveryProofs`: `RelayOrderKept` and `NotifyRepeatsCounted`, which need facts
  about finite sets. For the order of events, `SequenceInv` says that an order has
  one open transaction at a time, so that its rows commit in the order of their ids
  (`Serial`). As long as no two batches overlapped it also says that a batch leaves
  out no older unpublished row of an order (`OldestFirst`) and that each copy of an
  event has a copy of every earlier event of its order before it (`InOrder`). The
  property itself, about first copies only, is not inductive. For the repeats,
  `BudgetInv` says that the messages already sent for a key, and the members that may
  still send one without another failure (`Senders`), are together no more than one
  and the failures: the owner of the partition counts, and so does a member that lost
  the partition and goes on with its batch.
- `WaitingRoomProofs`: `RoomLosesNobody`, `RoomServesInOrder`, `RoomOnePlace`.
  `OrderInv` says what a worker's batch of heads and owners has to do with the
  queue between two commands, also when another worker is at the same entries.
  `PlaceInv` holds while `early` is false. It says that a live place is the one its
  user's key names, that what a worker has in its head is live, and that what a
  tab is about to replace is spent.
- `SeatMapProofs`: `SeatMapNeverBehind`. The claim also has to be made for a load
  half way through its MGETs, about the batches it has read (`LoadsPassed`). A change
  without an INCR is excused only as long as the version has not moved since.
- `PgHoldsProofs`: `PgImplementsInventory` and `PgTypeCorrect`. The invariant says
  what a transaction knows after its second statement and may rely on until it
  commits, because it has the seats rows locked: none of its seats is sold or held by
  another (`Checked`). A late payment that got its seats keeps them until it sells
  (`PaidHold`). `PgTypeCorrect` counts the connections: holds, late payments and the
  requests that wait for their orders together never take more than the pool has.
- `FakePayProofs`: `GatewayTypeCorrect`, `GatewayLinkPayable`,
  `GatewayDeliveredRecorded` and `GatewayRefundedOnce`. `GatewayInv` adds to the four
  properties what is on its way: a link that a request was told but has not cached
  yet (`LinkInv`), an answer that a copy of a webhook has got but not counted yet
  (`DeliveryInv`; `Settled` says that booking has recorded the payment or has no such
  order), and which refunds the gateway remembers (`RefundInv`).

The shapes of the variables (`RelayShape`, `Shape`, `PgShape` and the like) are
proved as parts of these invariants.

### Only model-checked

All liveness. Liveness under fairness, and ENABLED, are outside what TLAPS 1.4.5
proves. Every invariant and every action property of a passing run is proved.

## Not modelled

- HTTP decoding, validation messages, error bodies and routing
  (`internal/httpx`, the handlers around the modelled calls), configuration, logging,
  health checks and shutdown of servers (`internal/platform`): they hold no state of
  the protocol.
- Token and webhook signatures, QR payloads and the cache of their images: pure
  functions of their inputs. A token in the models is valid or not, as `CreateOrder` and `WaitingRoom` need it.
- The read-only handlers (`GET` of orders, tickets and events): one query each. The
  seat map is the one read with a protocol of its own, and `SeatMap` has it.
- Generated query code: the queries are modelled where they are called.
- The seed tool, the load-test data and the browser page.
- Redis commands of booking that are still on their way when their request has
  given up: in the models a call takes effect before its caller goes on, or not at
  all, or with its reply lost.
- A command that Redis refuses inside a pipeline. The pipeline of `Worker.Admit` is no
  transaction, so a SET NX that is answered with an error does not keep the ZREM and
  HDEL behind it from running; the buyer would be out of the queue without a token.
  `NobodyLost` is about ticks that break off, not about single refused commands.
- The end of the notifier's mark after 7 days: an event handled again later than that
  would be told again.
- `cmd/reconcile` and `tools/invariants`, named in SPEC.md, are not in the
  repository.
