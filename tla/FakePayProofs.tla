---------------------------- MODULE FakePayProofs ----------------------------
(***************************************************************************)
(* Proofs about the payment gateway and booking's link cache (FakePay),    *)
(* for any orders, transactions and concurrent requests, any cache size,   *)
(* any number of copies and resends of a webhook and of restarts.          *)
(*                                                                         *)
(* Four facts carry the properties: a copy knows how often it was posted   *)
(* and what a yes of booking means (CopyInv); until the first restart a       *)
(* request that was told a link leaves with a registered order (LinkInv);  *)
(* the cache is a finite set below its size (CacheInv); and the gateway    *)
(* returns money again only after it forgot that it had (RefundInv).       *)
(***************************************************************************)
EXTENDS FakePay, TLAPS, FiniteSetTheorems

Phases == {"none", "wait", "posted", "ok", "error", "delivered", "given up", "cancelled"}

Webhooks == [order : Orders, amount : Int, status : {"SUCCEEDED", "FAILED"}]

Shape ==
  /\ due \subseteq Orders
  /\ poll \in [Pollers -> {Idle} \cup [at : {"asks", "told"}, order : Orders]]
  /\ payments \subseteq Orders
  /\ txn \in [Txns -> Webhooks \cup {None}]
  /\ copy \in [Txns -> [Copies -> [at : Phases, posts : Nat]]]
  /\ recorded \subseteq Txns
  /\ refunds \subseteq Txns
  /\ returned \in [Txns -> Nat]
  /\ restarts \in 0..MaxRestarts

CacheInv == links \subseteq Orders /\ IsFiniteSet(links) /\ Cardinality(links) <= MaxLinks

(* Nothing is left for booking to record: it has, or has no such order. *)
Settled(t) == t \in recorded \/ txn[t].order \notin Booked

(* What is known of copy c of the webhook of transaction t. *)
CopyInv(t, c) ==
  /\ copy[t][c].posts <= MaxResends + 1
  /\ copy[t][c].at = "wait" => copy[t][c].posts <= MaxResends
  /\ copy[t][c].at # "none" => txn[t] # None
  /\ copy[t][c].at \in {"ok", "delivered"} => Settled(t)

DeliveryInv ==
  /\ \A t \in Txns, c \in Copies : CopyInv(t, c)
  /\ \A t \in recorded : txn[t] # None

LinkInv ==
  restarts = 0 =>
    /\ links \subseteq payments
    /\ \A p \in Pollers : poll[p].at = "told" => poll[p].order \in payments

RefundInv == \A t \in Txns : returned[t] <= restarts + (IF t \in refunds THEN 1 ELSE 0)

GatewayInv == Shape /\ CacheInv /\ DeliveryInv /\ LinkInv /\ RefundInv

LEMMA GatewayInvInit == Init => GatewayInv
  <1> SUFFICES ASSUME Init PROVE GatewayInv
    OBVIOUS
  <1>1. Shape
    BY FakePayAssumption DEF Init, Shape, Unused, Phases
  <1>2. CacheInv
    BY FakePayAssumption, FS_EmptySet DEF Init, CacheInv
  <1>3. DeliveryInv
    <2>1. ASSUME NEW t \in Txns, NEW c \in Copies PROVE CopyInv(t, c)
      BY FakePayAssumption DEF Init, CopyInv, Settled, Unused
    <2> QED
      BY Zenon, <2>1 DEF DeliveryInv, Init
  <1>4. LinkInv
    BY DEF Init, LinkInv, Idle
  <1>5. RefundInv
    BY DEF Init, RefundInv
  <1> QED
    BY Zenon, <1>1, <1>2, <1>3, <1>4, <1>5 DEF GatewayInv

-----------------------------------------------------------------------------
(* Booking's side: requests for a link, and the cache.                     *)

LEMMA PollTypes ==
  ASSUME Shape, NEW p \in Pollers
  PROVE  /\ poll[p].at \in {"idle", "asks", "told"}
         /\ poll[p].at # "idle" => poll[p].order \in Orders /\ poll[p] = [at |-> poll[p].at, order |-> poll[p].order]
  BY DEF Shape, Idle

(* Evicting makes room for one more link, whatever it drops. *)
LEMMA EvictedMakesRoom ==
  ASSUME CacheInv, NEW L \in Evicted(links), NEW o
  PROVE  L \subseteq links /\ IsFiniteSet(L \cup {o}) /\ Cardinality(L \cup {o}) <= MaxLinks
  <1> DEFINE live == links \ Expired(links)
  <1>1. IsFiniteSet(links) /\ IsFiniteSet(live) /\ live \subseteq links
    BY Zenon, FS_Subset DEF CacheInv
  <1>2. L \subseteq links /\ Cardinality(L) <= MaxLinks - 1 /\ IsFiniteSet(L)
    <2>1. CASE Cardinality(links) < MaxLinks
      <3>1. L = links
        BY <2>1 DEF Evicted
      <3>2. Cardinality(links) \in Nat
        BY Zenon, <1>1, FS_CardinalityType
      <3> QED
        BY <1>1, <2>1, <3>1, <3>2, FakePayAssumption
    <2>2. CASE ~(Cardinality(links) < MaxLinks) /\ Cardinality(live) < MaxLinks
      <3>1. L = live
        BY <2>2 DEF Evicted
      <3>2. Cardinality(live) \in Nat
        BY Zenon, <1>1, FS_CardinalityType
      <3> HIDE DEF live
      <3> QED
        BY <1>1, <2>2, <3>1, <3>2, FakePayAssumption
    <2>3. CASE ~(Cardinality(links) < MaxLinks) /\ ~(Cardinality(live) < MaxLinks)
      <3>1. L \in SUBSET live /\ Cardinality(L) = MaxLinks - 1
        BY <2>3 DEF Evicted
      <3>2. IsFiniteSet(L)
        BY Zenon, <1>1, <3>1, FS_Subset
      <3> HIDE DEF live
      <3> QED
        BY <1>1, <3>1, <3>2, FakePayAssumption
    <2> QED
      BY Zenon, <2>1, <2>2, <2>3
  <1>3. IsFiniteSet(L \cup {o}) /\ Cardinality(L \cup {o}) = IF o \in L THEN Cardinality(L) ELSE Cardinality(L) + 1
    BY Zenon, <1>2, FS_AddElement
  <1>4. Cardinality(L) \in Nat
    BY Zenon, <1>2, FS_CardinalityType
  <1> QED
    BY <1>2, <1>3, <1>4, FakePayAssumption

(* What no request for a link touches. *)
LEMMA BookingKeeps ==
  ASSUME GatewayInv, UNCHANGED <<deliveryVars, refundVars, restarts>>
  PROVE  DeliveryInv' /\ RefundInv'
  <1>1. UNCHANGED <<txn, copy, recorded, outages, refunds, returned, restarts>>
    BY Zenon DEF deliveryVars, refundVars
  <1>2. \A t \in Txns, c \in Copies : CopyInv(t, c)' <=> CopyInv(t, c)
    BY Zenon, <1>1 DEF CopyInv, Settled
  <1>3. Copies' = Copies
    BY Zenon DEF Copies
  <1>4. DeliveryInv'
    BY Zenon, <1>1, <1>2, <1>3 DEF GatewayInv, DeliveryInv
  <1>5. RefundInv'
    BY Zenon, <1>1 DEF GatewayInv, RefundInv
  <1> QED
    BY Zenon, <1>4, <1>5

LEMMA PollStep ==
  ASSUME GatewayInv, NEW p \in Pollers,
         Register(p) \/ LinkFails(p) \/ Put(p) \/ (\E o \in Orders : PaymentURL(p, o))
  PROVE  GatewayInv'
  <1>0. Shape /\ CacheInv /\ LinkInv
    BY Zenon DEF GatewayInv
  <1>1. UNCHANGED <<due, txn, copy, recorded, refunds, returned, restarts>>
    BY Zenon DEF Register, LinkFails, Put, PaymentURL, deliveryVars, refundVars
  <1>2. DeliveryInv' /\ RefundInv'
    BY Zenon, BookingKeeps DEF Register, LinkFails, Put, PaymentURL
  <1>3. ASSUME NEW v \in {Idle} \cup [at : {"asks", "told"}, order : Orders], poll' = [poll EXCEPT ![p] = v],
               payments \subseteq payments', payments' \subseteq Orders,
               v.at = "told" => v.order \in payments'
        PROVE  /\ Shape'
               /\ links' = links => CacheInv' /\ LinkInv'
               /\ CacheInv' /\ (restarts = 0 => links' \subseteq payments') => LinkInv'
    <2>1. poll' \in [Pollers -> {Idle} \cup [at : {"asks", "told"}, order : Orders]]
      BY Zenon, <1>0, <1>3 DEF Shape
    <2>2. Shape'
      BY Zenon, <1>0, <1>1, <1>3, <2>1 DEF Shape, Idle, Webhooks, Phases
    <2>3. poll'[p] = v /\ \A q \in Pollers \ {p} : poll'[q] = poll[q]
      BY Zenon, <1>0, <1>3 DEF Shape
    <2>4. restarts = 0 => \A q \in Pollers : poll'[q].at = "told" => poll'[q].order \in payments'
      BY Zenon, <1>0, <1>3, <2>3 DEF LinkInv
    <2> QED
      BY Zenon, <1>0, <1>1, <1>3, <2>2, <2>4 DEF LinkInv, CacheInv
  <1>4. CASE Register(p) /\ validCreate(poll[p].order)
    <2> DEFINE v == [at |-> "told", order |-> poll[p].order]
    <2>1. poll[p].order \in Orders /\ poll[p] = [at |-> "asks", order |-> poll[p].order]
      BY Zenon, <1>0, <1>4, PollTypes DEF Register
    <2>2. [poll[p] EXCEPT !.at = "told"] = v
      BY <2>1
    <2>3. poll' = [poll EXCEPT ![p] = v] /\ payments' = payments \cup {poll[p].order} /\ links' = links
      BY Zenon, <1>4, <2>2 DEF Register
    <2>4. v \in [at : {"asks", "told"}, order : Orders] /\ v.order \in payments'
      BY <2>1, <2>3
    <2>5. payments \subseteq payments' /\ payments' \subseteq Orders
      BY Zenon, <1>0, <2>1, <2>3 DEF Shape
    <2> HIDE DEF v
    <2> QED
      BY Zenon, <1>2, <1>3, <2>3, <2>4, <2>5 DEF GatewayInv
  <1>5. CASE poll' = [poll EXCEPT ![p] = Idle] /\ UNCHANGED <<payments, links>>
    <2>1. Idle.at # "told"
      BY DEF Idle
    <2>2. payments \subseteq payments' /\ payments' \subseteq Orders
      BY Zenon, <1>0, <1>5 DEF Shape
    <2> QED
      BY Zenon, <1>2, <1>3, <1>5, <2>1, <2>2 DEF GatewayInv
  <1>6. ASSUME NEW o \in Orders, PaymentURL(p, o) PROVE GatewayInv'
    <2> DEFINE v == [at |-> "asks", order |-> o]
    <2>1. poll' = [poll EXCEPT ![p] = v] /\ payments' = payments /\ links' = links
      BY Zenon, <1>6 DEF PaymentURL
    <2>2. v \in [at : {"asks", "told"}, order : Orders] /\ v.at # "told"
      OBVIOUS
    <2>3. payments \subseteq payments' /\ payments' \subseteq Orders
      BY Zenon, <1>0, <2>1 DEF Shape
    <2> HIDE DEF v
    <2> QED
      BY Zenon, <1>2, <1>3, <2>1, <2>2, <2>3 DEF GatewayInv
  <1>7. CASE Put(p)
    <2>1. poll[p].at = "told" /\ poll' = [poll EXCEPT ![p] = Idle] /\ payments' = payments
      BY Zenon, <1>7 DEF Put
    <2>2. PICK L \in Evicted(links) : links' = L \cup {poll[p].order}
      BY Zenon, <1>7 DEF Put
    <2>3. L \subseteq links /\ IsFiniteSet(links') /\ Cardinality(links') <= MaxLinks
      BY Zenon, <1>0, <2>2, EvictedMakesRoom
    <2>4. poll[p].order \in Orders
      BY Zenon, <1>0, <2>1, PollTypes
    <2>5. CacheInv'
      BY Zenon, <1>0, <2>2, <2>3, <2>4 DEF CacheInv
    <2>6. restarts = 0 => links' \subseteq payments'
      BY Zenon, <1>0, <2>1, <2>2, <2>3 DEF LinkInv
    <2>7. Idle.at # "told"
      BY DEF Idle
    <2>8. payments \subseteq payments' /\ payments' \subseteq Orders
      BY Zenon, <1>0, <2>1 DEF Shape
    <2> QED
      BY Zenon, <1>2, <1>3, <2>1, <2>5, <2>6, <2>7, <2>8 DEF GatewayInv
  <1> QED
    BY Zenon, <1>4, <1>5, <1>6, <1>7 DEF Register, LinkFails

LEMMA HoldEndsStep ==
  ASSUME GatewayInv, NEW o \in Orders, HoldEnds(o)
  PROVE  GatewayInv'
  <1>1. UNCHANGED <<poll, links, payments, txn, copy, recorded, refunds, returned, restarts>> /\ due' \subseteq Orders
    BY Zenon DEF HoldEnds, deliveryVars, refundVars, GatewayInv, Shape
  <1>2. DeliveryInv' /\ RefundInv'
    BY Zenon, BookingKeeps DEF HoldEnds
  <1>3. Shape'
    BY Zenon, <1>1 DEF GatewayInv, Shape, Idle, Webhooks, Phases, Copies
  <1>4. CacheInv' /\ LinkInv'
    BY Zenon, <1>1 DEF GatewayInv, CacheInv, LinkInv
  <1> QED
    BY Zenon, <1>2, <1>3, <1>4 DEF GatewayInv

-----------------------------------------------------------------------------
(* The gateway's side: webhooks.                                           *)

(* What a webhook's way to booking does not touch. *)
LEMMA GatewayKeeps ==
  ASSUME GatewayInv, UNCHANGED <<bookingVars, refundVars, restarts>>,
         payments \subseteq payments', payments' \subseteq Orders,
         txn' \in [Txns -> Webhooks \cup {None}],
         copy' \in [Txns -> [Copies -> [at : Phases, posts : Nat]]],
         recorded' \subseteq Txns
  PROVE  Shape' /\ CacheInv' /\ LinkInv' /\ RefundInv'
  <1>1. UNCHANGED <<due, poll, links, refunds, returned, restarts>>
    BY Zenon DEF bookingVars, refundVars
  <1>2. Shape'
    BY Zenon, <1>1 DEF GatewayInv, Shape, Idle, Webhooks, Phases, Copies
  <1>3. CacheInv' /\ LinkInv'
    BY Zenon, <1>1 DEF GatewayInv, CacheInv, LinkInv
  <1>4. RefundInv'
    BY Zenon, <1>1 DEF GatewayInv, RefundInv
  <1> QED
    BY Zenon, <1>2, <1>3, <1>4

LEMMA CompleteStep ==
  ASSUME GatewayInv, NEW o \in Orders, NEW t \in Txns, NEW result \in {"SUCCEEDED", "FAILED"}, NEW n \in Copies,
         Complete(o, t, result, n) \/ AutoComplete(o, t, result, n)
  PROVE  GatewayInv'
  <1> DEFINE w == [order |-> o, amount |-> AmountOf[o], status |-> result]
  <1> DEFINE cs == [c \in Copies |-> IF c <= n THEN [at |-> "wait", posts |-> 0] ELSE Unused]
  <1>0. Shape /\ DeliveryInv
    BY Zenon DEF GatewayInv
  <1>1. /\ txn[t] = None /\ txn' = [txn EXCEPT ![t] = w] /\ copy' = [copy EXCEPT ![t] = cs] /\ recorded' = recorded
        /\ payments' = payments \/ payments' = payments \cup {o}
        /\ UNCHANGED <<bookingVars, refundVars, restarts>>
    BY Zenon DEF Complete, AutoComplete, NewTransaction
  <1>2. w \in Webhooks /\ w # None
    BY FakePayAssumption DEF Webhooks
  <1>3. cs \in [Copies -> [at : Phases, posts : Nat]] /\ \A c \in Copies : cs[c].posts = 0 /\ cs[c].at \in {"wait", "none"}
    BY DEF Unused, Phases
  <1> HIDE DEF w, cs
  <1>4. txn' \in [Txns -> Webhooks \cup {None}] /\ txn'[t] = w /\ \A u \in Txns \ {t} : txn'[u] = txn[u]
    BY Zenon, <1>0, <1>1, <1>2 DEF Shape
  <1>5. /\ copy' \in [Txns -> [Copies -> [at : Phases, posts : Nat]]]
        /\ copy'[t] = cs /\ \A u \in Txns \ {t} : copy'[u] = copy[u]
    BY Zenon, <1>0, <1>1, <1>3 DEF Shape
  <1>6. recorded' \subseteq Txns /\ payments \subseteq payments' /\ payments' \subseteq Orders
    BY Zenon, <1>0, <1>1 DEF Shape
  <1>7. ASSUME NEW u \in Txns, NEW c \in Copies PROVE CopyInv(u, c)'
    <2>1. CASE u = t
      BY <1>2, <1>3, <1>4, <1>5, <2>1, FakePayAssumption DEF CopyInv
    <2>2. CASE u # t
      BY Zenon, <1>0, <1>1, <1>4, <1>5, <2>2 DEF CopyInv, Settled, DeliveryInv
    <2> QED
      BY Zenon, <2>1, <2>2
  <1>8. \A u \in recorded' : txn'[u] # None
    BY Zenon, <1>0, <1>1, <1>2, <1>4 DEF DeliveryInv, Shape
  <1>9. DeliveryInv'
    BY Zenon, <1>7, <1>8 DEF DeliveryInv, Copies
  <1> QED
    BY Zenon, <1>1, <1>4, <1>5, <1>6, <1>9, GatewayKeeps DEF GatewayInv

(* Copy c of the webhook of t moves on to v, and no other copy does. *)
Moves(t, c, v) ==
  /\ copy' \in [Txns -> [Copies -> [at : Phases, posts : Nat]]]
  /\ copy'[t][c] = v
  /\ \A u \in Txns, d \in Copies : u # t \/ d # c => copy'[u][d] = copy[u][d]

LEMMA MovesFacts ==
  ASSUME Shape, NEW t \in Txns, NEW c \in Copies, NEW v \in [at : Phases, posts : Nat],
         copy' = [copy EXCEPT ![t] = [copy[t] EXCEPT ![c] = v]]
  PROVE  Moves(t, c, v)
  <1>1. copy \in [Txns -> [Copies -> [at : Phases, posts : Nat]]]
    BY Zenon DEF Shape
  <1>2. [copy[t] EXCEPT ![c] = v] \in [Copies -> [at : Phases, posts : Nat]]
    BY Zenon, <1>1
  <1>3. copy' \in [Txns -> [Copies -> [at : Phases, posts : Nat]]]
    BY Zenon, <1>1, <1>2
  <1>4. copy'[t] = [copy[t] EXCEPT ![c] = v] /\ \A u \in Txns \ {t} : copy'[u] = copy[u]
    BY Zenon, <1>1
  <1>5. copy'[t][c] = v /\ \A d \in Copies \ {c} : copy'[t][d] = copy[t][d]
    BY Zenon, <1>1, <1>4
  <1> QED
    BY Zenon, <1>3, <1>4, <1>5 DEF Moves

LEMMA CopyStep ==
  ASSUME GatewayInv, NEW t \in Txns, NEW c \in Copies, NEW v \in [at : Phases, posts : Nat], Moves(t, c, v),
         copy[t][c].at # "none", v.posts <= MaxResends + 1, v.at = "wait" => v.posts <= MaxResends,
         v.at \in {"ok", "delivered"} => Settled(t)',
         recorded' = recorded \/ recorded' = recorded \cup {t},
         UNCHANGED <<bookingVars, payments, txn, refundVars, restarts>>
  PROVE  GatewayInv'
  <1>0. Shape /\ DeliveryInv
    BY Zenon DEF GatewayInv
  <1>1. txn[t] # None
    BY Zenon, <1>0 DEF DeliveryInv, CopyInv
  <1>2. recorded' \subseteq Txns /\ recorded \subseteq recorded' /\ \A u \in recorded' : txn[u] # None
    BY Zenon, <1>0, <1>1 DEF DeliveryInv, Shape
  <1>3. CopyInv(t, c)'
    BY Zenon, <1>1 DEF CopyInv, Moves
  <1>4. ASSUME NEW u \in Txns, NEW d \in Copies, u # t \/ d # c PROVE CopyInv(u, d)'
    <2>1. copy'[u][d] = copy[u][d] /\ CopyInv(u, d)
      BY Zenon, <1>0, <1>4 DEF Moves, DeliveryInv
    <2> QED
      BY Zenon, <1>2, <2>1 DEF CopyInv, Settled
  <1>5. DeliveryInv'
    BY Zenon, <1>2, <1>3, <1>4 DEF DeliveryInv, Copies
  <1>6. payments \subseteq payments' /\ payments' \subseteq Orders /\ txn' \in [Txns -> Webhooks \cup {None}]
    BY Zenon, <1>0 DEF Shape
  <1> QED
    BY Zenon, <1>2, <1>5, <1>6, GatewayKeeps DEF GatewayInv, Moves

LEMMA PostStep ==
  ASSUME GatewayInv, NEW t \in Txns, NEW c \in Copies, Post(t, c)
  PROVE  GatewayInv'
  <1> DEFINE v == [at |-> "posted", posts |-> copy[t][c].posts + 1]
  <1>0. Shape /\ CopyInv(t, c) /\ copy[t][c] \in [at : Phases, posts : Nat]
    BY Zenon DEF GatewayInv, DeliveryInv, Shape
  <1>1. copy[t][c].at = "wait" /\ copy[t][c].posts \in Nat /\ copy[t][c].posts <= MaxResends
    BY <1>0 DEF Post, CopyInv
  <1>2. v \in [at : Phases, posts : Nat] /\ v.posts <= MaxResends + 1 /\ v.at = "posted"
    BY <1>1, FakePayAssumption DEF Phases
  <1>3. copy' = [copy EXCEPT ![t] = [copy[t] EXCEPT ![c] = v]]
    BY Zenon DEF Post
  <1> HIDE DEF v
  <1>4. Moves(t, c, v)
    BY Zenon, <1>0, <1>2, <1>3, MovesFacts
  <1> QED
    BY Zenon, <1>1, <1>2, <1>4, CopyStep DEF Post

LEMMA WebhookStep ==
  ASSUME GatewayInv, NEW t \in Txns, NEW c \in Copies, Webhook(t, c)
  PROVE  GatewayInv'
  <1>0. Shape /\ CopyInv(t, c) /\ copy[t][c] \in [at : Phases, posts : Nat]
    BY Zenon DEF GatewayInv, DeliveryInv, Shape
  <1>1. PICK up \in BOOLEAN :
          /\ recorded' = IF up /\ Records(txn[t]) THEN recorded \cup {t} ELSE recorded
          /\ txn' = txn
          /\ copy' = [copy EXCEPT ![t][c].at = AnswerOf(up /\ Validate(txn[t]))]
    BY Zenon DEF Webhook
  <1>2. PICK l \in {"ok", "error"} :
          /\ l = "ok" => Settled(t)'
          /\ copy' = [copy EXCEPT ![t] = [copy[t] EXCEPT ![c] = [copy[t][c] EXCEPT !.at = l]]]
    <2>1. CASE up /\ Validate(txn[t])
      <3>1. Settled(t)'
        BY Zenon, <1>1, <2>1 DEF Settled, Records
      <3> QED
        BY Zenon, <1>1, <2>1, <3>1 DEF AnswerOf
    <2>2. CASE ~(up /\ Validate(txn[t]))
      BY Zenon, <1>1, <2>2 DEF AnswerOf
    <2> QED
      BY Zenon, <2>1, <2>2
  <1> DEFINE v == [copy[t][c] EXCEPT !.at = l]
  <1>3. v \in [at : Phases, posts : Nat] /\ v.posts = copy[t][c].posts /\ v.at = l
    BY Zenon, <1>0 DEF Phases
  <1>4. v.posts <= MaxResends + 1
    BY Zenon, <1>0, <1>3 DEF CopyInv
  <1>5. Moves(t, c, v)
    BY Zenon, <1>0, <1>2, <1>3, MovesFacts
  <1>6. v.at # "wait" /\ (v.at \in {"ok", "delivered"} => Settled(t)')
    BY Zenon, <1>2, <1>3
  <1>7. copy[t][c].at # "none" /\ UNCHANGED <<bookingVars, payments, txn, refundVars, restarts>>
    BY Zenon DEF Webhook
  <1>8. recorded' = recorded \/ recorded' = recorded \cup {t}
    BY Zenon, <1>1
  <1> HIDE DEF v
  <1> QED
    BY Zenon, <1>3, <1>4, <1>5, <1>6, <1>7, <1>8, CopyStep

LEMMA SendStep ==
  ASSUME GatewayInv, NEW t \in Txns, NEW c \in Copies, SendWithRetry(t, c)
  PROVE  GatewayInv'
  <1>0. Shape /\ CopyInv(t, c) /\ copy[t][c] \in [at : Phases, posts : Nat]
    BY Zenon DEF GatewayInv, DeliveryInv, Shape
  <1>1. PICK l \in {"delivered", "given up", "wait"} :
          /\ copy' = [copy EXCEPT ![t] = [copy[t] EXCEPT ![c] = [copy[t][c] EXCEPT !.at = l]]]
          /\ l = "wait" => ~LastPost(copy[t][c].posts)
          /\ l = "delivered" => Settled(t)
    <2>1. CASE copy[t][c].at = "ok" /\ copy' = [copy EXCEPT ![t][c].at = "delivered"]
      BY Zenon, <1>0, <2>1 DEF CopyInv
    <2>2. CASE Retry(t, c) /\ LastPost(copy[t][c].posts)
      BY Zenon, <2>2 DEF Retry
    <2>3. CASE Retry(t, c) /\ ~LastPost(copy[t][c].posts)
      BY Zenon, <2>3 DEF Retry
    <2> QED
      BY Zenon, <2>1, <2>2, <2>3 DEF SendWithRetry
  <1> DEFINE v == [copy[t][c] EXCEPT !.at = l]
  <1>2. v \in [at : Phases, posts : Nat] /\ v.posts = copy[t][c].posts /\ v.at = l
    BY Zenon, <1>0 DEF Phases
  <1>3. v.posts <= MaxResends + 1 /\ (v.at = "wait" => v.posts <= MaxResends)
    <2>1. copy[t][c].posts \in Nat /\ copy[t][c].posts <= MaxResends + 1
      BY Zenon, <1>0 DEF CopyInv
    <2>2. l = "wait" => copy[t][c].posts <= MaxResends
      BY <1>1, <2>1, FakePayAssumption DEF LastPost
    <2> QED
      BY Zenon, <1>2, <2>1, <2>2
  <1>4. Moves(t, c, v)
    BY Zenon, <1>0, <1>1, <1>2, MovesFacts
  <1>5. /\ copy[t][c].at # "none" /\ recorded' = recorded
        /\ UNCHANGED <<bookingVars, payments, txn, refundVars, restarts>>
    BY Zenon DEF SendWithRetry
  <1>6. v.at \in {"ok", "delivered"} => Settled(t)'
    BY Zenon, <1>1, <1>2, <1>5 DEF Settled
  <1> HIDE DEF v
  <1> QED
    BY Zenon, <1>2, <1>3, <1>4, <1>5, <1>6, CopyStep

-----------------------------------------------------------------------------
(* Refunds and restarts.                                                   *)

LEMMA RefundStep ==
  ASSUME GatewayInv, NEW t \in Txns, Refund(t)
  PROVE  GatewayInv'
  <1>0. Shape /\ RefundInv
    BY Zenon DEF GatewayInv
  <1>1. UNCHANGED <<due, poll, links, payments, txn, copy, recorded, restarts>> /\ refunds' = refunds \cup {t}
    BY Zenon DEF Refund, bookingVars, deliveryVars
  <1>2. returned' = returned \/ (t \notin refunds /\ returned' = [returned EXCEPT ![t] = @ + 1])
    BY Zenon DEF Refund, Repeat
  <1>3. returned' \in [Txns -> Nat] /\ refunds' \subseteq Txns
    BY <1>0, <1>1, <1>2 DEF Shape
  <1>4. Shape'
    BY Zenon, <1>0, <1>1, <1>3 DEF Shape, Idle, Webhooks, Phases, Copies
  <1>5. CacheInv' /\ LinkInv'
    BY Zenon, <1>1 DEF GatewayInv, CacheInv, LinkInv
  <1>6. DeliveryInv'
    BY Zenon, <1>1 DEF GatewayInv, DeliveryInv, CopyInv, Settled, Copies
  <1>7. RefundInv'
    <2>1. returned \in [Txns -> Nat] /\ restarts \in Nat /\ restarts' = restarts
      BY <1>0, <1>1 DEF Shape
    <2>2. ASSUME NEW u \in Txns PROVE returned'[u] <= restarts + (IF u \in refunds' THEN 1 ELSE 0)
      BY <1>0, <1>1, <1>2, <2>1 DEF RefundInv
    <2> QED
      BY Zenon, <2>1, <2>2 DEF RefundInv
  <1> QED
    BY Zenon, <1>4, <1>5, <1>6, <1>7 DEF GatewayInv

LEMMA RestartStep ==
  ASSUME GatewayInv, Restart
  PROVE  GatewayInv'
  <1>0. Shape /\ RefundInv /\ DeliveryInv
    BY Zenon DEF GatewayInv
  <1>1. /\ UNCHANGED <<due, poll, links, txn, returned>>
        /\ payments' = {} /\ refunds' = {} /\ restarts' = restarts + 1 /\ restarts < MaxRestarts
    BY Zenon DEF Restart, bookingVars
  <1>r. recorded \subseteq recorded' /\ recorded' \subseteq Txns /\ \A t \in recorded' : txn[t] # None
    <2>1. PICK late \in SUBSET {t \in Txns : (\E c \in Copies : copy[t][c].at = "posted") /\ Records(txn[t])} :
            recorded' = recorded \cup late
      BY Zenon DEF Restart
    <2>2. ASSUME NEW t \in late PROVE t \in Txns /\ txn[t] # None
      <3>1. t \in Txns /\ \E c \in Copies : copy[t][c].at = "posted"
        BY Zenon, <2>2
      <3> QED
        BY Zenon, <1>0, <3>1 DEF DeliveryInv, CopyInv
    <2> QED
      BY Zenon, <1>0, <2>1, <2>2 DEF DeliveryInv, Shape
  <1>2. restarts \in Nat /\ restarts' \in 0..MaxRestarts /\ restarts' # 0
    BY <1>0, <1>1, FakePayAssumption DEF Shape
  <1>3. ASSUME NEW t \in Txns, NEW c \in Copies
        PROVE  \/ copy'[t][c] = copy[t][c]
               \/ copy[t][c].at # "none" /\ copy'[t][c] = [copy[t][c] EXCEPT !.at = "cancelled"]
    BY Zenon DEF Restart
  <1>4. copy' \in [Txns -> [Copies -> [at : Phases, posts : Nat]]]
    <2>1. ASSUME NEW t \in Txns, NEW c \in Copies PROVE copy'[t][c] \in [at : Phases, posts : Nat]
      <3>1. copy[t][c] \in [at : Phases, posts : Nat]
        BY Zenon, <1>0 DEF Shape
      <3>2. "cancelled" \in Phases
        BY Zenon DEF Phases
      <3>3. [copy[t][c] EXCEPT !.at = "cancelled"] \in [at : Phases, posts : Nat]
        BY Zenon, <3>1, <3>2
      <3> QED
        BY Zenon, <1>3, <3>1, <3>3
    <2> QED
      BY Zenon, <2>1 DEF Restart
  <1>5. Shape'
    BY Zenon, <1>0, <1>1, <1>r, <1>2, <1>4 DEF Shape, Idle, Webhooks, Phases, Copies
  <1>6. CacheInv' /\ LinkInv'
    BY Zenon, <1>1, <1>2 DEF GatewayInv, CacheInv, LinkInv
  <1>7. ASSUME NEW t \in Txns, NEW c \in Copies PROVE CopyInv(t, c)'
    <2>1. copy[t][c] \in [at : Phases, posts : Nat] /\ CopyInv(t, c)
      BY Zenon, <1>0 DEF Shape, DeliveryInv
    <2>2. CASE copy'[t][c] = copy[t][c]
      BY Zenon, <1>1, <1>r, <2>1, <2>2 DEF CopyInv, Settled
    <2>3. CASE copy[t][c].at # "none" /\ copy'[t][c] = [copy[t][c] EXCEPT !.at = "cancelled"]
      <3>1. copy'[t][c].at = "cancelled" /\ copy'[t][c].posts = copy[t][c].posts
        BY <2>1, <2>3
      <3> QED
        BY Zenon, <1>1, <2>1, <2>3, <3>1 DEF CopyInv
    <2> QED
      BY Zenon, <1>3, <2>2, <2>3
  <1>8. DeliveryInv'
    BY Zenon, <1>r, <1>1, <1>7 DEF DeliveryInv, Copies
  <1>9. RefundInv'
    <2>1. returned \in [Txns -> Nat]
      BY Zenon, <1>0 DEF Shape
    <2>2. ASSUME NEW t \in Txns PROVE returned[t] <= restarts + 1
      BY <1>0, <1>2, <2>1 DEF RefundInv
    <2> QED
      BY <1>1, <1>2, <2>1, <2>2 DEF RefundInv
  <1> QED
    BY Zenon, <1>5, <1>6, <1>8, <1>9 DEF GatewayInv

LEMMA GatewayInvStep == GatewayInv /\ [Next]_vars => GatewayInv'
  <1> SUFFICES ASSUME GatewayInv, [Next]_vars PROVE GatewayInv'
    OBVIOUS
  <1>1. ASSUME NEW t \in Txns, NEW c \in Copies, Deliver(t, c) PROVE GatewayInv'
    BY Zenon, <1>1, PostStep, WebhookStep, SendStep DEF Deliver
  <1>2. CASE UNCHANGED vars
    <2>1. UNCHANGED <<due, poll, links, payments, txn, copy, recorded, outages, refunds, returned, restarts>>
      BY Zenon, <1>2 DEF vars, bookingVars, deliveryVars, refundVars
    <2>2. Shape'
      BY Zenon, <2>1 DEF GatewayInv, Shape, Idle, Webhooks, Phases, Copies
    <2>3. CacheInv' /\ LinkInv'
      BY Zenon, <2>1 DEF GatewayInv, CacheInv, LinkInv
    <2>4. DeliveryInv' /\ RefundInv'
      BY Zenon, <2>1, BookingKeeps DEF deliveryVars, refundVars
    <2> QED
      BY Zenon, <2>2, <2>3, <2>4 DEF GatewayInv
  <1> QED
    BY Zenon, <1>1, <1>2, HoldEndsStep, PollStep, CompleteStep, RefundStep, RestartStep DEF Next

LEMMA GatewayInvAlways == Spec => []GatewayInv
  BY GatewayInvInit, GatewayInvStep, PTL DEF Spec

-----------------------------------------------------------------------------
(* Types, and bounds that hold whatever the order of puts, evictions and   *)
(* resends: the cache never outgrows its size (paymentLinkCache.put), and  *)
(* a copy is posted at most once more than it is resent (sendWithRetry).   *)
THEOREM GatewayTypeCorrect == Spec => []TypeOK
  <1>1. GatewayInv => TypeOK
    <2> SUFFICES ASSUME GatewayInv PROVE TypeOK
      OBVIOUS
    <2>1. ASSUME NEW t \in Txns, NEW c \in Copies PROVE copy[t][c].posts \in 0..(MaxResends + 1)
      <3>1. copy[t][c] \in [at : Phases, posts : Nat] /\ CopyInv(t, c)
        BY Zenon DEF GatewayInv, Shape, DeliveryInv
      <3>2. copy[t][c].posts \in Nat /\ copy[t][c].posts <= MaxResends + 1
        BY Zenon, <3>1 DEF CopyInv
      <3> QED
        BY <3>2, FakePayAssumption
    <2> QED
      BY Zenon, <2>1 DEF GatewayInv, Shape, CacheInv, DeliveryInv, TypeOK
  <1> QED
    BY <1>1, GatewayInvAlways, PTL

(* Until the gateway restarts, every cached link leads to a registered     *)
(* payment (paymentURL and handleCreate).                                  *)
THEOREM GatewayLinkPayable == Spec => []LinkIsPayable
  <1>1. GatewayInv => LinkIsPayable
    BY Zenon DEF GatewayInv, LinkInv, LinkIsPayable
  <1> QED
    BY <1>1, GatewayInvAlways, PTL

(* A webhook that counts as delivered was recorded by booking, or names an *)
(* order booking does not have (handleWebhook, ApplyPayment and            *)
(* sendWithRetry).                                                         *)
THEOREM GatewayDeliveredRecorded == Spec => []DeliveredMeansRecorded
  <1>1. GatewayInv => DeliveredMeansRecorded
    BY Zenon DEF GatewayInv, DeliveryInv, CopyInv, Settled, DeliveredMeansRecorded
  <1> QED
    BY <1>1, GatewayInvAlways, PTL

(* Money is returned once, and once more at most for every restart (the    *)
(* refund table of the gateway).                                           *)
THEOREM GatewayRefundedOnce == Spec => []RefundedOnce
  <1>1. GatewayInv => RefundedOnce
    BY DEF GatewayInv, Shape, RefundInv, RefundedOnce
  <1> QED
    BY <1>1, GatewayInvAlways, PTL
=============================================================================
