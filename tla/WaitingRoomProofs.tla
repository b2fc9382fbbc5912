-------------------------- MODULE WaitingRoomProofs --------------------------
(***************************************************************************)
(* Proofs about the waiting room, for any tabs, users, workers and batch   *)
(* size.                                                                   *)
(***************************************************************************)
EXTENDS WaitingRoom, FiniteSetTheorems, TLAPS

-----------------------------------------------------------------------------
(* Nobody is lost (NobodyLost) and admission follows the join order        *)
(* (FirstComeFirstServed), even with two workers that believe to hold the  *)
(* lease.                                                                  *)
(*                                                                         *)
(* Neither property needs the lease.  What carries them is what a worker   *)
(* knows of the head it has read: everyone before an id of the head is in  *)
(* the head too or has been served, and the ids of the head that are not   *)
(* to be stored any more have been served.                                 *)

RoomShape ==
  /\ clock \in Nat
  /\ queue \subseteq Qids /\ served \subseteq Qids
  /\ score \in [Qids -> Nat]
  /\ buyer \in [Qids -> Users \cup {NoUser}]
  /\ owner \in [Qids -> Users \cup {NoUser}]
  /\ worker \in [Workers -> {"idle", "leased", "owners", "storing", "removed"}]
  /\ head \in [Workers -> SUBSET Qids] /\ rest \in [Workers -> SUBSET Qids]

(* Only ids that were drawn are queued, served or in a head, scores are of *)
(* the past, and an owner is forgotten only after the token is stored.     *)
Drawn ==
  /\ \A q \in queue \cup served : Joined(q)
  /\ \A w \in Workers : \A q \in head[w] : Joined(q)
  /\ \A q \in Qids : score[q] <= clock
  /\ \A q \in Qids : Joined(q) /\ owner[q] = NoUser => q \in served

(* What a worker knows of its head. *)
HeadInv(w) ==
  /\ rest[w] \subseteq head[w]
  /\ worker[w] = "storing" => head[w] \ rest[w] \subseteq served
  /\ worker[w] = "removed" => head[w] \subseteq served
  /\ worker[w] \in {"owners", "storing"} =>
       \A q \in head[w] : \A p \in Qids :
         Joined(p) /\ score[p] < score[q] => p \in head[w] \cup served

Heads == \A w \in Workers : HeadInv(w)

OrderInv == RoomShape /\ Drawn /\ Heads /\ NobodyLost /\ FirstComeFirstServed

-----------------------------------------------------------------------------
LEMMA OrderInvInit == Init => OrderInv
  BY DEF Init, OrderInv, RoomShape, Drawn, Heads, HeadInv, NobodyLost, FirstComeFirstServed, Joined

(* Before orders the ids of the queue. *)
LEMMA BeforeTransitive ==
  ASSUME RoomShape, NEW p \in Qids, NEW q \in Qids, NEW r \in Qids,
         Before(p, q), Before(q, r)
  PROVE  Before(p, r)
  <1>1. p \in Nat /\ q \in Nat /\ r \in Nat
    BY Zenon, WaitingRoomAssumption
  <1>2. score[p] \in Nat /\ score[q] \in Nat /\ score[r] \in Nat
    BY Zenon DEF RoomShape
  <1> QED
    BY <1>1, <1>2 DEF Before

(* ZRANGE 0 Batch-1: whoever is before one of the first is one of them. *)
LEMMA FirstClosed ==
  ASSUME RoomShape, NEW q \in First, NEW p \in queue, Before(p, q)
  PROVE  p \in First
  <1> DEFINE P == {r \in queue : Before(r, p)}
             Q == {r \in queue : Before(r, q)}
  <1>1. q \in queue /\ Cardinality(Q) < Batch
    BY Zenon DEF First
  <1>2. P \subseteq Q
    BY Zenon, <1>1, BeforeTransitive DEF RoomShape
  <1>3. IsFiniteSet(Q)
    BY Zenon, FS_Subset, WaitingRoomAssumption DEF RoomShape
  <1>4. IsFiniteSet(P) /\ Cardinality(P) <= Cardinality(Q)
    BY Zenon, <1>2, <1>3, FS_Subset
  <1>5. Cardinality(P) \in Nat /\ Cardinality(Q) \in Nat
    BY Zenon, <1>3, <1>4, FS_CardinalityType
  <1>6. Cardinality(P) < Batch
    BY <1>1, <1>4, <1>5, WaitingRoomAssumption
  <1> QED
    BY Zenon, <1>6 DEF First

(* Steps that change neither the queue nor a worker. *)
LEMMA OtherStep ==
  ASSUME OrderInv, UNCHANGED <<clock, queue, score, buyer, owner, served, worker, head, rest>>
  PROVE  OrderInv'
  BY Zenon DEF OrderInv, RoomShape, Drawn, Heads, HeadInv, NobodyLost, FirstComeFirstServed, Joined

(* join.lua: the new place is behind everyone's. *)
LEMMA JoinStep ==
  ASSUME OrderInv, NEW t \in Tabs, JoinScript(t), ~UNCHANGED redis
  PROVE  OrderInv'
  <1>1. PICK q \in Qids, now \in {clock, clock + 1} :
          /\ ~Joined(q)
          /\ clock' = now
          /\ queue' = queue \cup {q}
          /\ score' = [score EXCEPT ![q] = now]
          /\ buyer' = [buyer EXCEPT ![q] = UserOf[t]]
          /\ owner' = [owner EXCEPT ![q] = UserOf[t]]
    BY Zenon DEF JoinScript
  <1>2. UNCHANGED <<served, worker, head, rest>>
    BY Zenon DEF JoinScript, workers, redis
  <1>3. UserOf[t] \in Users /\ UserOf[t] # NoUser
    BY Zenon, WaitingRoomAssumption DEF Users
  <1>4. RoomShape'
    BY <1>1, <1>2, <1>3 DEF OrderInv, RoomShape
  <1>5. \A p \in Qids : Joined(p)' <=> p = q \/ Joined(p)
    BY Zenon, <1>1, <1>3 DEF OrderInv, RoomShape, Joined
  <1>6. \A p \in Qids : p # q => score'[p] = score[p] /\ owner'[p] = owner[p]
    BY Zenon, <1>1 DEF OrderInv, RoomShape
  <1>7. score'[q] = now /\ owner'[q] # NoUser /\ now \in Nat /\ clock <= now
    BY <1>1, <1>3 DEF OrderInv, RoomShape
  <1>8. Drawn'
    <2>1. \A p \in (queue \cup served)' : Joined(p)'
      BY Zenon, <1>1, <1>2, <1>5 DEF OrderInv, RoomShape, Drawn
    <2>2. \A w \in Workers : \A p \in head'[w] : Joined(p)'
      BY Zenon, <1>2, <1>5 DEF OrderInv, RoomShape, Drawn
    <2>3. \A p \in Qids : score'[p] <= clock'
      BY <1>1, <1>6, <1>7 DEF OrderInv, RoomShape, Drawn
    <2>4. \A p \in Qids : Joined(p)' /\ owner'[p] = NoUser => p \in served'
      BY Zenon, <1>2, <1>5, <1>6, <1>7 DEF OrderInv, RoomShape, Drawn
    <2> QED
      BY Zenon, <2>1, <2>2, <2>3, <2>4 DEF Drawn
  <1>9. \A p \in Qids : Joined(p) => p # q /\ ~(score'[q] < score'[p])
    BY <1>1, <1>6, <1>7 DEF OrderInv, RoomShape, Drawn
  <1>10. Heads'
    <2> SUFFICES ASSUME NEW w \in Workers, worker[w] \in {"owners", "storing"},
                        NEW r \in head[w], NEW p \in Qids, Joined(p)', score'[p] < score'[r]
                 PROVE  p \in head[w] \cup served
      BY Zenon, <1>2 DEF OrderInv, Heads, HeadInv
    <2>1. r \in Qids /\ Joined(r)
      BY Zenon DEF OrderInv, RoomShape, Drawn
    <2>2. Joined(p) /\ p # q
      BY Zenon, <1>5, <1>9, <2>1
    <2>3. score[p] < score[r]
      BY Zenon, <1>6, <1>9, <2>1, <2>2
    <2> QED
      BY Zenon, <2>1, <2>2, <2>3 DEF OrderInv, Heads, HeadInv
  <1>11. NobodyLost'
    BY Zenon, <1>1, <1>2, <1>5 DEF OrderInv, NobodyLost
  <1>12. FirstComeFirstServed'
    <2> SUFFICES ASSUME NEW p \in Qids, NEW r \in Qids, Joined(p)', score'[p] < score'[r], r \in served
                 PROVE  p \in served
      BY Zenon, <1>2 DEF FirstComeFirstServed
    <2>1. Joined(r)
      BY Zenon DEF OrderInv, Drawn
    <2>2. Joined(p) /\ p # q
      BY Zenon, <1>5, <1>9, <2>1
    <2>3. score[p] < score[r]
      BY Zenon, <1>6, <1>9, <2>1, <2>2
    <2> QED
      BY Zenon, <2>2, <2>3 DEF OrderInv, FirstComeFirstServed
  <1> QED
    BY Zenon, <1>4, <1>8, <1>10, <1>11, <1>12 DEF OrderInv

(* A step of one worker that adds to the served, and touches neither the   *)
(* queue nor an owner: its own head is all there is to look at.            *)
LEMMA WorkerStep ==
  ASSUME OrderInv, NEW w \in Workers,
         NEW s \in {"idle", "leased", "owners", "storing", "removed"},
         NEW h \in SUBSET Qids, NEW r \in SUBSET Qids, Step(w, s, h, r),
         UNCHANGED <<clock, score, buyer, owner>>,
         queue' \subseteq queue, served \subseteq served', served' \subseteq Qids,
         \A q \in h \cup served' : Joined(q),
         HeadInv(w)', NobodyLost', FirstComeFirstServed'
  PROVE  OrderInv'
  <1>1. /\ worker' \in [Workers -> {"idle", "leased", "owners", "storing", "removed"}]
        /\ head' \in [Workers -> SUBSET Qids] /\ rest' \in [Workers -> SUBSET Qids]
        /\ worker'[w] = s /\ head'[w] = h /\ rest'[w] = r
        /\ \A v \in Workers \ {w} : worker'[v] = worker[v] /\ head'[v] = head[v] /\ rest'[v] = rest[v]
    BY Zenon DEF OrderInv, RoomShape, Step
  <1>2. RoomShape'
    BY Zenon, <1>1 DEF OrderInv, RoomShape
  <1>3. Drawn'
    BY Zenon, <1>1 DEF OrderInv, Drawn, Joined
  <1>4. \A v \in Workers \ {w} : HeadInv(v)'
    BY Zenon, <1>1 DEF OrderInv, Heads, HeadInv, Joined
  <1> QED
    BY Zenon, <1>2, <1>3, <1>4 DEF OrderInv, Heads

(* A worker that has read nothing, or has nothing left to do. *)
LEMMA BlankStep ==
  ASSUME OrderInv, NEW w \in Workers, NEW s \in {"idle", "leased"}, Step(w, s, {}, {}),
         UNCHANGED <<clock, queue, score, buyer, owner, served>>
  PROVE  OrderInv'
  <1>1. worker'[w] = s /\ head'[w] = {} /\ rest'[w] = {}
    BY Zenon DEF OrderInv, RoomShape, Step
  <1>2. HeadInv(w)'
    BY Zenon, <1>1 DEF HeadInv
  <1>3. NobodyLost' /\ FirstComeFirstServed' /\ \A q \in served' : Joined(q)
    BY Zenon DEF OrderInv, NobodyLost, FirstComeFirstServed, Joined, Drawn
  <1>4. /\ queue' \subseteq queue /\ served \subseteq served' /\ served' \subseteq Qids
        /\ {} \in SUBSET Qids /\ s \in {"idle", "leased", "owners", "storing", "removed"}
        /\ \A q \in {} \cup served' : Joined(q)
    BY Zenon, <1>3 DEF OrderInv, RoomShape
  <1> QED
    BY Zenon, <1>2, <1>3, <1>4, WorkerStep

LEMMA ReadHeadStep ==
  ASSUME OrderInv, NEW w \in Workers, ReadHead(w)
  PROVE  OrderInv'
  <1>0. UNCHANGED <<clock, queue, score, buyer, owner, served>>
    BY Zenon DEF ReadHead, redis
  <1>1. CASE First = {}
    BY Zenon, <1>0, <1>1, BlankStep DEF ReadHead
  <1>2. CASE First # {}
    <2>1. Step(w, "owners", First, {}) /\ First \subseteq queue
      BY Zenon, <1>2 DEF ReadHead, First
    <2>2. worker'[w] = "owners" /\ head'[w] = First /\ rest'[w] = {}
      BY Zenon, <2>1 DEF OrderInv, RoomShape, Step
    <2>3. \A q \in First : \A p \in Qids :
            Joined(p) /\ score[p] < score[q] => p \in First \cup served
      <3> SUFFICES ASSUME NEW q \in First, NEW p \in Qids, Joined(p), score[p] < score[q], p \in queue
                   PROVE  p \in First
        BY Zenon DEF OrderInv, NobodyLost
      <3> QED
        BY Zenon, FirstClosed DEF OrderInv, Before
    <2>4. HeadInv(w)'
      BY Zenon, <1>0, <2>2, <2>3 DEF HeadInv, Joined
    <2>5. NobodyLost' /\ FirstComeFirstServed' /\ \A q \in First \cup served' : Joined(q)
      BY Zenon, <1>0, <2>1 DEF OrderInv, NobodyLost, FirstComeFirstServed, Joined, Drawn
    <2>6. /\ queue' \subseteq queue /\ served \subseteq served' /\ served' \subseteq Qids
          /\ {} \in SUBSET Qids /\ First \in SUBSET Qids
      BY Zenon, <1>0, <2>1 DEF OrderInv, RoomShape
    <2> QED
      BY Zenon, <1>0, <2>1, <2>4, <2>5, <2>6, WorkerStep
  <1> QED
    BY Zenon, <1>1, <1>2

LEMMA ReadOwnersStep ==
  ASSUME OrderInv, NEW w \in Workers, ReadOwners(w)
  PROVE  OrderInv'
  <1> DEFINE r == {q \in head[w] : owner[q] # NoUser}
  <1>0. UNCHANGED <<clock, queue, score, buyer, owner, served>> /\ Step(w, "storing", head[w], r)
    BY Zenon DEF ReadOwners, redis
  <1>1. head[w] \in SUBSET Qids /\ r \in SUBSET Qids /\ r \subseteq head[w]
    BY Zenon DEF OrderInv, RoomShape
  <1>2. head[w] \ r \subseteq served
    BY Zenon, <1>1 DEF OrderInv, Drawn
  <1> HIDE DEF r
  <1>3. worker'[w] = "storing" /\ head'[w] = head[w] /\ rest'[w] = r
    BY Zenon, <1>0 DEF OrderInv, RoomShape, Step
  <1>4. HeadInv(w)'
    BY Zenon, <1>0, <1>1, <1>2, <1>3 DEF ReadOwners, HeadInv, OrderInv, Heads, Joined
  <1>5. NobodyLost' /\ FirstComeFirstServed' /\ \A q \in head[w] \cup served' : Joined(q)
    BY Zenon, <1>0 DEF OrderInv, NobodyLost, FirstComeFirstServed, Joined, Drawn
  <1> QED
    BY Zenon, <1>0, <1>1, <1>4, <1>5, WorkerStep DEF OrderInv, RoomShape

(* A token is stored: everyone before its id has one. *)
LEMMA StoreTokenStep ==
  ASSUME OrderInv, NEW w \in Workers, StoreToken(w)
  PROVE  OrderInv'
  <1>0. PICK q \in rest[w] : /\ \A p \in rest[w] : ~Before(p, q)
                             /\ Step(w, "storing", head[w], rest[w] \ {q})
                             /\ served' = served \cup {q}
    BY Zenon DEF StoreToken, NextToken
  <1>1. UNCHANGED <<clock, queue, score, buyer, owner>> /\ worker[w] = "storing"
    BY Zenon DEF StoreToken
  <1>2. /\ head[w] \in SUBSET Qids /\ rest[w] \ {q} \in SUBSET Qids /\ rest[w] \subseteq head[w]
        /\ head[w] \ rest[w] \subseteq served
    BY Zenon, <1>1 DEF OrderInv, RoomShape, Heads, HeadInv
  <1>3. q \in Qids /\ Joined(q)
    BY Zenon, <1>2 DEF OrderInv, Drawn
  <1>4. worker'[w] = "storing" /\ head'[w] = head[w] /\ rest'[w] = rest[w] \ {q}
    BY Zenon, <1>0 DEF OrderInv, RoomShape, Step
  <1>5. HeadInv(w)'
    BY Zenon, <1>0, <1>1, <1>2, <1>4 DEF HeadInv, OrderInv, Heads, Joined
  <1>6. NobodyLost' /\ served' \subseteq Qids /\ \A p \in head[w] \cup served' : Joined(p)
    BY Zenon, <1>0, <1>1, <1>3 DEF OrderInv, RoomShape, NobodyLost, Joined, Drawn
  <1>7. ASSUME NEW p \in Qids, Joined(p), score[p] < score[q] PROVE p \in served
    <2>1. p \in head[w] \cup served
      BY Zenon, <1>1, <1>2, <1>7 DEF OrderInv, Heads, HeadInv
    <2>2. p \notin rest[w]
      BY Zenon, <1>0, <1>7 DEF Before
    <2> QED
      BY Zenon, <1>2, <2>1, <2>2
  <1>8. FirstComeFirstServed'
    BY Zenon, <1>0, <1>1, <1>7 DEF OrderInv, FirstComeFirstServed, Joined
  <1> QED
    BY <1>0, <1>1, <1>2, <1>5, <1>6, <1>8, WorkerStep

LEMMA RemoveStep ==
  ASSUME OrderInv, NEW w \in Workers, Remove(w)
  PROVE  OrderInv'
  <1>0. /\ worker[w] = "storing" /\ rest[w] = {}
        /\ queue' = queue \ head[w] /\ Step(w, "removed", head[w], rest[w])
        /\ UNCHANGED <<clock, score, buyer, owner, served>>
    BY Zenon DEF Remove, MayRemove
  <1>1. head[w] \in SUBSET Qids /\ head[w] \subseteq served
    BY Zenon, <1>0 DEF OrderInv, RoomShape, Heads, HeadInv
  <1>2. worker'[w] = "removed" /\ head'[w] = head[w] /\ rest'[w] = {}
    BY Zenon, <1>0 DEF OrderInv, RoomShape, Step
  <1>3. HeadInv(w)'
    BY Zenon, <1>0, <1>1, <1>2 DEF HeadInv
  <1>4. NobodyLost' /\ FirstComeFirstServed' /\ \A q \in head[w] \cup served' : Joined(q)
    BY Zenon, <1>0, <1>1 DEF OrderInv, NobodyLost, FirstComeFirstServed, Joined, Drawn
  <1> QED
    BY Zenon, <1>0, <1>1, <1>3, <1>4, WorkerStep DEF OrderInv, RoomShape

(* HDEL: the owners of a head are forgotten after its tokens are stored. *)
LEMMA RemoveOwnersStep ==
  ASSUME OrderInv, NEW w \in Workers, RemoveOwners(w)
  PROVE  OrderInv'
  <1>0. /\ worker[w] = "removed" /\ Step(w, "idle", {}, {})
        /\ owner' = [q \in Qids |-> IF q \in head[w] THEN NoUser ELSE owner[q]]
        /\ UNCHANGED <<clock, queue, score, buyer, served>>
    BY Zenon DEF RemoveOwners
  <1>1. head[w] \subseteq served
    BY Zenon, <1>0 DEF OrderInv, Heads, HeadInv
  <1>2. /\ worker' \in [Workers -> {"idle", "leased", "owners", "storing", "removed"}]
        /\ head' \in [Workers -> SUBSET Qids] /\ rest' \in [Workers -> SUBSET Qids]
        /\ worker'[w] = "idle" /\ head'[w] = {} /\ rest'[w] = {}
        /\ \A v \in Workers \ {w} : worker'[v] = worker[v] /\ head'[v] = head[v] /\ rest'[v] = rest[v]
    BY Zenon, <1>0 DEF OrderInv, RoomShape, Step
  <1>3. RoomShape'
    BY Zenon, <1>0, <1>2 DEF OrderInv, RoomShape
  <1>4. Drawn'
    BY Zenon, <1>0, <1>1, <1>2 DEF OrderInv, Drawn, Joined
  <1>5. Heads'
    BY Zenon, <1>0, <1>2 DEF OrderInv, Heads, HeadInv, Joined
  <1>6. NobodyLost' /\ FirstComeFirstServed'
    BY Zenon, <1>0 DEF OrderInv, NobodyLost, FirstComeFirstServed, Joined
  <1> QED
    BY Zenon, <1>3, <1>4, <1>5, <1>6 DEF OrderInv

LEMMA OrderInvStep == OrderInv /\ [Next]_vars => OrderInv'
  <1> SUFFICES ASSUME OrderInv, [Next]_vars PROVE OrderInv'
    OBVIOUS
  <1>1. ASSUME NEW t \in Tabs, Join(t) \/ Status(t) \/ StatusRank(t) \/ Close(t) PROVE OrderInv'
    BY Zenon, <1>1, OtherStep DEF Join, Status, StatusRank, Close, redis, workers
  <1>2. ASSUME NEW t \in Tabs, JoinScript(t) PROVE OrderInv'
    <2>1. CASE UNCHANGED redis
      BY Zenon, <1>2, <2>1, OtherStep DEF JoinScript, redis, workers
    <2> QED
      BY Zenon, <1>2, <2>1, JoinStep
  <1>3. ASSUME NEW w \in Workers, TakeLease(w) PROVE OrderInv'
    BY Zenon, <1>3, BlankStep DEF TakeLease, redis
  <1>4. ASSUME NEW w \in Workers, Abort(w) PROVE OrderInv'
    BY Zenon, <1>4, BlankStep DEF Abort, redis
  <1>5. ASSUME NEW w \in Workers, Tick(w) PROVE OrderInv'
    BY Zenon, <1>3, <1>5, ReadHeadStep, ReadOwnersStep, StoreTokenStep, RemoveStep, RemoveOwnersStep DEF Tick
  <1>6. CASE SaleOpens \/ LeaseLapses
    BY Zenon, <1>6, OtherStep DEF SaleOpens, LeaseLapses, redis, workers
  <1>7. CASE \/ \E q \in Qids : AdmissionLapses(q)
             \/ \E u \in Users : UserKeyLapses(u)
    BY Zenon, <1>7, OtherStep DEF AdmissionLapses, UserKeyLapses, workers
  <1>8. CASE UNCHANGED vars
    BY Zenon, <1>8, OtherStep DEF vars, redis, workers
  <1> QED
    BY Zenon, <1>1, <1>2, <1>4, <1>5, <1>6, <1>7, <1>8 DEF Next

LEMMA OrderInvariant == Spec => []OrderInv
  BY OrderInvInit, OrderInvStep, PTL DEF Spec

(* Whoever has joined is in the queue or has had a token, wherever a tick  *)
(* of whichever worker breaks off (Worker.Admit, worker.go).               *)
THEOREM RoomLosesNobody == Spec => []NobodyLost
  <1>1. OrderInv => NobodyLost
    BY Zenon DEF OrderInv
  <1> QED
    BY <1>1, OrderInvariant, PTL

(* Tokens go out in the order of joining (Worker.Admit, join.lua), with or *)
(* without a second worker that still believes to hold the lease.          *)
THEOREM RoomServesInOrder == Spec => []FirstComeFirstServed
  <1>1. OrderInv => FirstComeFirstServed
    BY Zenon DEF OrderInv
  <1> QED
    BY <1>1, OrderInvariant, PTL

-----------------------------------------------------------------------------
(* A user has one place, and one token for it, at a time (OnePlace), as    *)
(* long as no live place was taken for gone and no key of it ended too     *)
(* early (~early).                                                         *)
(*                                                                         *)
(* The argument: a place that is neither queued nor admitted never comes   *)
(* back, so what Join found spent is still spent when join.lua replaces    *)
(* it; and every live place is the one its user's key names.               *)

PlaceShape ==
  /\ queue \subseteq Qids
  /\ buyer \in [Qids -> Users \cup {NoUser}]
  /\ owner \in [Qids -> Users \cup {NoUser}]
  /\ user \in [Users -> Qids \cup {NoQid}]
  /\ tokens \in [Qids -> {0, 1}]
  /\ tab \in [Tabs -> {"closed", "join", "join_rank", "script", "stream", "stream_rank", "told", "expired"}]
  /\ place \in [Tabs -> Qids \cup {NoQid}]
  /\ worker \in [Workers -> {"idle", "leased", "owners", "storing", "removed"}]
  /\ head \in [Workers -> SUBSET Qids] /\ rest \in [Workers -> SUBSET Qids]

(* A live place is its user's. *)
LivesNamed == \A q \in Qids : Live(q) => Joined(q) /\ user[buyer[q]] = q

Owned == \A q \in queue : owner[q] # NoUser

(* What a worker has in its head is still live, what it has stored is      *)
(* admitted, what it has removed is no longer queued.                      *)
HeadLive(w) ==
  /\ rest[w] \subseteq head[w]
  /\ \A q \in head[w] : Live(q)
  /\ worker[w] = "storing" => \A q \in head[w] \ rest[w] : Admitted(q)
  /\ worker[w] = "removed" => \A q \in head[w] : Admitted(q) /\ q \notin queue

(* What a tab is about to replace is spent. *)
Spent(t) == tab[t] = "script" /\ place[t] # NoQid => ~Live(place[t])

KnownDrawn ==
  /\ \A u \in Users : user[u] # NoQid => Joined(user[u])
  /\ \A t \in Tabs : place[t] # NoQid => Joined(place[t])

PlaceInv ==
  /\ PlaceShape /\ LivesNamed /\ Owned /\ KnownDrawn
  /\ \A w \in Workers : HeadLive(w)
  /\ \A t \in Tabs : Spent(t)

-----------------------------------------------------------------------------
LEMMA PlaceInvInit == Init => PlaceInv
  <1> SUFFICES ASSUME Init PROVE PlaceInv
    OBVIOUS
  <1>1. PlaceShape
    BY Zenon DEF Init, PlaceShape
  <1>2. \A q \in Qids : ~Live(q)
    BY DEF Init, Live, Admitted
  <1> QED
    BY Zenon, <1>1, <1>2 DEF Init, PlaceInv, LivesNamed, Owned, HeadLive, Spent, KnownDrawn

(* A tab's own step: Join, Status and Close. *)
LEMMA PlaceTabStep ==
  ASSUME PlaceInv, NEW t \in Tabs,
         NEW s \in {"closed", "join", "join_rank", "script", "stream", "stream_rank", "told", "expired"},
         NEW q \in Qids \cup {NoQid}, Goto(t, s, q),
         q # NoQid => Joined(q),
         s = "script" /\ q # NoQid => ~Live(q),
         UNCHANGED <<redis, workers>>
  PROVE  PlaceInv'
  <1>1. UNCHANGED <<queue, buyer, owner, user, tokens, worker, head, rest>>
    BY Zenon DEF redis, workers
  <1>2. /\ tab' \in [Tabs -> {"closed", "join", "join_rank", "script", "stream", "stream_rank", "told", "expired"}]
        /\ place' \in [Tabs -> Qids \cup {NoQid}]
        /\ tab'[t] = s /\ place'[t] = q
        /\ \A v \in Tabs \ {t} : tab'[v] = tab[v] /\ place'[v] = place[v]
    BY Zenon DEF Goto, PlaceInv, PlaceShape
  <1>3. \A p : (Live(p)' <=> Live(p)) /\ (Admitted(p)' <=> Admitted(p)) /\ (Joined(p)' <=> Joined(p))
    BY Zenon, <1>1 DEF Live, Admitted, Joined
  <1>4. PlaceShape'
    BY Zenon, <1>1, <1>2 DEF PlaceInv, PlaceShape
  <1>5. LivesNamed' /\ Owned'
    BY Zenon, <1>1, <1>3 DEF PlaceInv, LivesNamed, Owned
  <1>6. \A w \in Workers : HeadLive(w)'
    BY Zenon, <1>1, <1>3 DEF PlaceInv, HeadLive
  <1>7. KnownDrawn'
    BY Zenon, <1>1, <1>2, <1>3 DEF PlaceInv, KnownDrawn
  <1>8. \A v \in Tabs : Spent(v)'
    BY Zenon, <1>2, <1>3 DEF PlaceInv, Spent
  <1> QED
    BY Zenon, <1>4, <1>5, <1>6, <1>7, <1>8 DEF PlaceInv

(* Join, Status and Close. *)
LEMMA PlaceTabsStep ==
  ASSUME PlaceInv, ~early', NEW t \in Tabs, Join(t) \/ Status(t) \/ StatusRank(t) \/ Close(t)
  PROVE  PlaceInv'
  <1>0. UNCHANGED <<redis, workers>>
    BY Zenon DEF Join, Status, StatusRank, Close
  <1>1. CASE Join(t)
    <2> DEFINE cur == user[UserOf[t]]
    <2>1. cur \in Qids \cup {NoQid} /\ (cur # NoQid => Joined(cur))
      BY Zenon DEF PlaceInv, PlaceShape, KnownDrawn, Users
    <2>2. Goto(t, IF cur = NoQid THEN "script" ELSE "join", cur)
      BY Zenon, <1>1 DEF Join
    <2> HIDE DEF cur
    <2>3. CASE cur = NoQid
      BY Zenon, <1>0, <2>1, <2>2, <2>3, PlaceTabStep
    <2>4. CASE cur # NoQid
      <3>1. Goto(t, "join", cur)
        BY Zenon, <2>2, <2>4
      <3> QED
        BY Zenon, <1>0, <2>1, <3>1, PlaceTabStep
    <2> QED
      BY Zenon, <2>3, <2>4
  <1>2. CASE Status(t)
    <2>1. tab[t] \in {"join", "stream"} /\ place[t] \in Qids \cup {NoQid}
          /\ (place[t] # NoQid => Joined(place[t]))
      BY Zenon, <1>2 DEF Status, PlaceInv, PlaceShape, KnownDrawn
    <2>2. CASE Admitted(place[t]) /\ Heard(t, "admitted")
      <3>1. \E s \in {"stream", "told"} : Goto(t, s, place[t])
        BY Zenon, <2>2 DEF Heard
      <3> QED
        BY Zenon, <1>0, <2>1, <3>1, PlaceTabStep
    <2>3. CASE ~Admitted(place[t]) /\ Heard(t, Rank(place[t]))
      <3>1. CASE place[t] \in queue
        <4>1. Goto(t, "stream", place[t])
          BY Zenon, <2>3, <3>1 DEF Heard, Rank
        <4> QED
          BY Zenon, <1>0, <2>1, <4>1, PlaceTabStep
      <3>2. CASE place[t] \notin queue
        <4>1. \E s \in {"script", "expired"} : Goto(t, s, place[t])
          BY Zenon, <2>3, <3>2 DEF Heard, Rank
        <4>2. ~Live(place[t])
          BY Zenon, <2>3, <3>2 DEF Live
        <4> QED
          BY Zenon, <1>0, <2>1, <4>1, <4>2, PlaceTabStep
      <3> QED
        BY Zenon, <3>1, <3>2
    <2>4. CASE \E s \in {"join_rank", "stream_rank"} : Goto(t, s, place[t])
      BY Zenon, <1>0, <2>1, <2>4, PlaceTabStep
    <2>5. \/ Admitted(place[t]) /\ Heard(t, "admitted")
          \/ ~Admitted(place[t]) /\ Heard(t, Rank(place[t]))
          \/ \E s \in {"join_rank", "stream_rank"} : Goto(t, s, place[t])
      BY Zenon, <1>2 DEF Status
    <2> QED
      BY Zenon, <2>2, <2>3, <2>4, <2>5
  <1>3. CASE StatusRank(t)
    <2>1. /\ tab[t] \in {"join_rank", "stream_rank"} /\ Heard(t, Rank(place[t]))
          /\ place[t] \in Qids \cup {NoQid} /\ (place[t] # NoQid => Joined(place[t]))
      BY Zenon, <1>3 DEF StatusRank, PlaceInv, PlaceShape, KnownDrawn
    <2>2. ~Admitted(place[t]) \/ place[t] \in queue
      BY Zenon, <1>3 DEF StatusRank
    <2>3. CASE place[t] \in queue
      <3>1. Goto(t, "stream", place[t])
        BY Zenon, <2>1, <2>3 DEF Heard, Rank
      <3> QED
        BY Zenon, <1>0, <2>1, <3>1, PlaceTabStep
    <2>4. CASE place[t] \notin queue
      <3>1. \E s \in {"script", "expired"} : Goto(t, s, place[t])
        BY Zenon, <2>1, <2>4 DEF Heard, Rank
      <3>2. ~Live(place[t])
        BY Zenon, <2>2, <2>4 DEF Live
      <3> QED
        BY Zenon, <1>0, <2>1, <3>1, <3>2, PlaceTabStep
    <2> QED
      BY Zenon, <2>3, <2>4
  <1>4. CASE Close(t)
    BY Zenon, <1>0, <1>4, PlaceTabStep DEF Close
  <1> QED
    BY Zenon, <1>1, <1>2, <1>3, <1>4

(* join.lua: the place it replaces is still spent. *)
LEMMA PlaceScriptStep ==
  ASSUME PlaceInv, NEW t \in Tabs, JoinScript(t)
  PROVE  PlaceInv'
  <1> DEFINE u == UserOf[t]
  <1>0. u \in Users /\ u # NoUser /\ NoQid \notin Qids
    BY Zenon, WaitingRoomAssumption DEF Users
  <1>1. CASE ~MayReplace(t) /\ Goto(t, "stream", user[u]) /\ UNCHANGED redis
    <2>1. user[u] \in Qids \cup {NoQid} /\ (user[u] # NoQid => Joined(user[u]))
      BY Zenon, <1>0 DEF PlaceInv, PlaceShape, KnownDrawn
    <2>2. UNCHANGED <<redis, workers>>
      BY Zenon, <1>1 DEF JoinScript
    <2> QED
      BY Zenon, <1>1, <2>1, <2>2, PlaceTabStep
  <1>2. CASE MayReplace(t)
    <2>1. PICK q \in Qids : /\ ~Joined(q)
                            /\ queue' = queue \cup {q}
                            /\ buyer' = [buyer EXCEPT ![q] = u]
                            /\ owner' = [owner EXCEPT ![q] = u]
                            /\ user' = [user EXCEPT ![u] = q]
                            /\ Goto(t, "stream", q)
      BY Zenon, <1>2 DEF JoinScript
    <2>2. UNCHANGED <<tokens, worker, head, rest>>
      BY Zenon, <1>2 DEF JoinScript, workers, redis
    <2>3. /\ tab' \in [Tabs -> {"closed", "join", "join_rank", "script", "stream", "stream_rank", "told", "expired"}]
          /\ place' \in [Tabs -> Qids \cup {NoQid}]
          /\ tab'[t] = "stream" /\ place'[t] = q
          /\ \A v \in Tabs \ {t} : tab'[v] = tab[v] /\ place'[v] = place[v]
      BY Zenon, <2>1 DEF Goto, PlaceInv, PlaceShape
    <2>4. PlaceShape'
      BY Zenon, <1>0, <2>1, <2>2, <2>3 DEF PlaceInv, PlaceShape
    <2>5. \A p \in Qids : /\ p # q => (Live(p)' <=> Live(p)) /\ (Joined(p)' <=> Joined(p))
                          /\ p # q => buyer'[p] = buyer[p] /\ owner'[p] = owner[p]
                          /\ Admitted(p)' <=> Admitted(p)
      BY Zenon, <2>1, <2>2 DEF PlaceInv, PlaceShape, Live, Admitted, Joined
    <2>6. Joined(q)' /\ buyer'[q] = u /\ owner'[q] = u /\ user'[u] = q /\ ~Live(q)
      BY Zenon, <1>0, <2>1 DEF PlaceInv, PlaceShape, Joined, LivesNamed
    <2>7. ASSUME NEW p \in Qids, Live(p) PROVE buyer[p] # u
      <3>1. Joined(p) /\ user[buyer[p]] = p
        BY Zenon, <2>7 DEF PlaceInv, LivesNamed
      <3>2. user[u] \in {NoQid, place[t]} /\ tab[t] = "script"
        BY Zenon, <1>2 DEF MayReplace, JoinScript
      <3> QED
        BY Zenon, <1>0, <2>7, <3>1, <3>2 DEF PlaceInv, Spent
    <2>8. LivesNamed'
      <3> SUFFICES ASSUME NEW p \in Qids, Live(p)' PROVE Joined(p)' /\ user'[buyer'[p]] = p
        BY Zenon DEF LivesNamed
      <3>1. CASE p = q
        BY Zenon, <2>6, <3>1
      <3>2. CASE p # q
        <4>1. Live(p) /\ buyer'[p] = buyer[p] /\ (Joined(p)' <=> Joined(p))
          BY Zenon, <2>5, <3>2
        <4>2. buyer[p] # u /\ Joined(p) /\ user[buyer[p]] = p /\ buyer[p] \in Users
          BY <2>7, <4>1 DEF PlaceInv, PlaceShape, LivesNamed, Joined
        <4> QED
          BY Zenon, <2>1, <4>1, <4>2 DEF PlaceInv, PlaceShape
      <3> QED
        BY Zenon, <3>1, <3>2
    <2>9. Owned'
      BY Zenon, <1>0, <2>1, <2>5, <2>6 DEF PlaceInv, PlaceShape, Owned
    <2>10. KnownDrawn'
      <3>1. \A v \in Users : user'[v] # NoQid => Joined(user[v])'
        BY <2>1, <2>5, <2>6 DEF PlaceInv, PlaceShape, KnownDrawn
      <3>2. \A v \in Tabs : place'[v] # NoQid => Joined(place[v])'
        BY <2>3, <2>5, <2>6 DEF PlaceInv, PlaceShape, KnownDrawn
      <3> QED
        BY Zenon, <3>1, <3>2 DEF KnownDrawn
    <2>11. ASSUME NEW w \in Workers PROVE HeadLive(w)'
      <3>1. \A p \in head[w] : p \in Qids /\ Live(p) /\ p # q
        BY Zenon, <2>6 DEF PlaceInv, PlaceShape, HeadLive
      <3> QED
        BY Zenon, <2>1, <2>2, <2>5, <3>1 DEF PlaceInv, HeadLive
    <2>12. ASSUME NEW v \in Tabs PROVE Spent(v)'
      <3> SUFFICES ASSUME v # t, tab[v] = "script", place[v] # NoQid PROVE ~Live(place[v])'
        BY Zenon, <2>3 DEF Spent
      <3>1. place[v] \in Qids /\ Joined(place[v]) /\ ~Live(place[v])
        BY Zenon DEF PlaceInv, PlaceShape, KnownDrawn, Spent
      <3>2. place[v] # q /\ place'[v] = place[v]
        BY Zenon, <2>1, <2>3, <3>1
      <3> QED
        BY Zenon, <2>5, <3>1, <3>2
    <2> QED
      BY Zenon, <2>4, <2>8, <2>9, <2>10, <2>11, <2>12 DEF PlaceInv
  <1> QED
    BY Zenon, <1>1, <1>2 DEF JoinScript

(* Redis steps of workers and of time: whatever happens to the heads, live *)
(* places stay what they are or end for good.                              *)
LEMMA PlaceRedisStep ==
  ASSUME PlaceInv, PlaceShape', UNCHANGED <<buyer, tab, place>>,
         \A q \in Qids : Live(q)' => Live(q),
         \A q \in Qids : Live(q) => user'[buyer[q]] = user[buyer[q]],
         \A u \in Users : user'[u] \in {user[u], NoQid},
         Owned', \A w \in Workers : HeadLive(w)'
  PROVE  PlaceInv'
  <1>1. \A q : Joined(q)' <=> Joined(q)
    BY Zenon DEF Joined
  <1>2. LivesNamed'
    BY Zenon, <1>1 DEF PlaceInv, LivesNamed
  <1>3. KnownDrawn'
    BY Zenon, <1>1 DEF PlaceInv, KnownDrawn
  <1>4. \A t \in Tabs : Spent(t)'
    BY Zenon DEF PlaceInv, PlaceShape, Spent
  <1> QED
    BY Zenon, <1>2, <1>3, <1>4 DEF PlaceInv

(* A worker's step that leaves Redis alone. *)
LEMMA PlaceQuietStep ==
  ASSUME PlaceInv, NEW w \in Workers,
         NEW s \in {"idle", "leased", "owners", "storing", "removed"},
         NEW h \in SUBSET Qids, NEW r \in SUBSET Qids, Step(w, s, h, r),
         UNCHANGED <<queue, buyer, owner, user, tokens, tab, place>>,
         r \subseteq h, \A q \in h : Live(q),
         s = "storing" => \A q \in h \ r : Admitted(q),
         s # "removed"
  PROVE  PlaceInv'
  <1>1. /\ worker' \in [Workers -> {"idle", "leased", "owners", "storing", "removed"}]
        /\ head' \in [Workers -> SUBSET Qids] /\ rest' \in [Workers -> SUBSET Qids]
        /\ worker'[w] = s /\ head'[w] = h /\ rest'[w] = r
        /\ \A v \in Workers \ {w} : worker'[v] = worker[v] /\ head'[v] = head[v] /\ rest'[v] = rest[v]
    BY Zenon DEF PlaceInv, PlaceShape, Step
  <1>2. \A p : (Live(p)' <=> Live(p)) /\ (Admitted(p)' <=> Admitted(p))
    BY Zenon DEF Live, Admitted
  <1>3. PlaceShape' /\ Owned'
    BY Zenon, <1>1 DEF PlaceInv, PlaceShape, Owned
  <1>4. HeadLive(w)'
    BY Zenon, <1>1, <1>2 DEF HeadLive
  <1>5. \A v \in Workers \ {w} : HeadLive(v)'
    BY Zenon, <1>1, <1>2 DEF PlaceInv, HeadLive
  <1>6. \A v \in Workers : HeadLive(v)'
    BY Zenon, <1>4, <1>5
  <1>7. \A u \in Users : user'[u] \in {user[u], NoQid}
    OBVIOUS
  <1> QED
    BY Zenon, <1>2, <1>3, <1>6, <1>7, PlaceRedisStep

LEMMA PlaceReadStep ==
  ASSUME PlaceInv, NEW w \in Workers,
         TakeLease(w) \/ Abort(w) \/ ReadHead(w) \/ ReadOwners(w)
  PROVE  PlaceInv'
  <1>0. UNCHANGED <<queue, buyer, owner, user, tokens, tab, place>>
    BY Zenon DEF TakeLease, Abort, ReadHead, ReadOwners, redis, tabs
  <1>a. {} \in SUBSET Qids /\ {} \subseteq {} /\ (\A q \in {} : Live(q)) /\ (\A q \in {} \ {} : Admitted(q))
    OBVIOUS
  <1>1. CASE TakeLease(w) \/ Abort(w)
    <2>1. \E s \in {"idle", "leased"} : Step(w, s, {}, {})
      BY Zenon, <1>1 DEF TakeLease, Abort
    <2> QED
      BY Zenon, <1>0, <1>a, <2>1, PlaceQuietStep
  <1>2. CASE ReadHead(w)
    <2>1. PICK s \in {"idle", "owners"} : Step(w, s, First, {})
      BY Zenon, <1>2 DEF ReadHead
    <2>2. First \in SUBSET Qids /\ {} \subseteq First /\ \A q \in First : Live(q)
      BY Zenon DEF First, Live, PlaceInv, PlaceShape
    <2> QED
      BY Zenon, <1>0, <1>a, <2>1, <2>2, PlaceQuietStep
  <1>3. CASE ReadOwners(w)
    <2> DEFINE r == {q \in head[w] : owner[q] # NoUser}
    <2>1. Step(w, "storing", head[w], r)
      BY Zenon, <1>3 DEF ReadOwners
    <2>2. head[w] \in SUBSET Qids /\ r \in SUBSET Qids /\ r \subseteq head[w] /\ \A q \in head[w] : Live(q)
      BY Zenon DEF PlaceInv, PlaceShape, HeadLive
    <2>3. \A q \in head[w] \ r : Admitted(q)
      BY Zenon, <2>2 DEF PlaceInv, Owned, Live
    <2> HIDE DEF r
    <2> QED
      BY Zenon, <1>0, <2>1, <2>2, <2>3, PlaceQuietStep
  <1> QED
    BY Zenon, <1>1, <1>2, <1>3

(* SET NX: the id it stores is live already, and keeps its first token. *)
LEMMA PlaceStoreStep ==
  ASSUME PlaceInv, NEW w \in Workers, StoreToken(w)
  PROVE  PlaceInv'
  <1>1. PICK q \in rest[w] : /\ Step(w, "storing", head[w], rest[w] \ {q})
                             /\ tokens' = [tokens EXCEPT ![q] = SetNX(@)]
    BY Zenon DEF StoreToken, NextToken
  <1>2. UNCHANGED <<queue, buyer, owner, user, tab, place>> /\ worker[w] = "storing"
    BY Zenon DEF StoreToken, tabs
  <1>3. q \in Qids /\ q \in head[w] /\ Live(q) /\ rest[w] \subseteq head[w]
    BY Zenon DEF PlaceInv, PlaceShape, HeadLive
  <1>4. /\ worker' \in [Workers -> {"idle", "leased", "owners", "storing", "removed"}]
        /\ head' \in [Workers -> SUBSET Qids] /\ rest' \in [Workers -> SUBSET Qids]
        /\ worker'[w] = "storing" /\ head'[w] = head[w] /\ rest'[w] = rest[w] \ {q}
        /\ \A v \in Workers \ {w} : worker'[v] = worker[v] /\ head'[v] = head[v] /\ rest'[v] = rest[v]
    BY Zenon, <1>1 DEF PlaceInv, PlaceShape, Step
  <1>5. tokens' \in [Qids -> {0, 1}] /\ tokens'[q] = 1 /\ \A p \in Qids \ {q} : tokens'[p] = tokens[p]
    BY Zenon, <1>1, <1>3 DEF PlaceInv, PlaceShape, SetNX
  <1>6. \A p \in Qids : /\ Admitted(p)' <=> p = q \/ Admitted(p)
                        /\ Live(p)' <=> Live(p)
    BY <1>2, <1>3, <1>5 DEF Admitted, Live
  <1>7. PlaceShape' /\ Owned'
    BY Zenon, <1>2, <1>4, <1>5 DEF PlaceInv, PlaceShape, Owned
  <1>8. \A v \in Workers : HeadLive(v)'
    BY Zenon, <1>2, <1>4, <1>6 DEF PlaceInv, PlaceShape, HeadLive
  <1> QED
    BY Zenon, <1>2, <1>6, <1>7, <1>8, PlaceRedisStep

(* ZREM: everyone it removes is admitted. *)
LEMMA PlaceRemoveStep ==
  ASSUME PlaceInv, NEW w \in Workers, Remove(w)
  PROVE  PlaceInv'
  <1>1. /\ worker[w] = "storing" /\ rest[w] = {}
        /\ queue' = queue \ head[w] /\ Step(w, "removed", head[w], rest[w])
        /\ UNCHANGED <<buyer, owner, user, tokens, tab, place>>
    BY Zenon DEF Remove, MayRemove, tabs
  <1>2. \A q \in head[w] : q \in Qids /\ Admitted(q)
    BY Zenon, <1>1 DEF PlaceInv, PlaceShape, HeadLive
  <1>3. /\ worker' \in [Workers -> {"idle", "leased", "owners", "storing", "removed"}]
        /\ head' \in [Workers -> SUBSET Qids] /\ rest' \in [Workers -> SUBSET Qids]
        /\ worker'[w] = "removed" /\ head'[w] = head[w] /\ rest'[w] = {}
        /\ \A v \in Workers \ {w} : worker'[v] = worker[v] /\ head'[v] = head[v] /\ rest'[v] = rest[v]
    BY Zenon, <1>1 DEF PlaceInv, PlaceShape, Step
  <1>4. \A p : Admitted(p)' <=> Admitted(p)
    BY Zenon, <1>1 DEF Admitted
  <1>5. \A p : Live(p)' <=> Live(p)
    BY Zenon, <1>1, <1>2, <1>4 DEF Live
  <1>6. PlaceShape' /\ Owned'
    BY Zenon, <1>1, <1>3 DEF PlaceInv, PlaceShape, Owned
  <1>7. HeadLive(w)'
    BY Zenon, <1>1, <1>2, <1>3, <1>4, <1>5 DEF PlaceInv, HeadLive
  <1>8. \A v \in Workers \ {w} : HeadLive(v)'
    BY Zenon, <1>1, <1>3, <1>4, <1>5 DEF PlaceInv, HeadLive
  <1>9. \A v \in Workers : HeadLive(v)'
    BY Zenon, <1>7, <1>8
  <1> QED
    BY Zenon, <1>1, <1>5, <1>6, <1>9, PlaceRedisStep

(* HDEL: nobody it forgets is queued any more. *)
LEMMA PlaceRemoveOwnersStep ==
  ASSUME PlaceInv, NEW w \in Workers, RemoveOwners(w)
  PROVE  PlaceInv'
  <1>1. /\ worker[w] = "removed" /\ Step(w, "idle", {}, {})
        /\ owner' = [q \in Qids |-> IF q \in head[w] THEN NoUser ELSE owner[q]]
        /\ UNCHANGED <<queue, buyer, user, tokens, tab, place>>
    BY Zenon DEF RemoveOwners, tabs
  <1>2. \A q \in head[w] : q \notin queue
    BY Zenon, <1>1 DEF PlaceInv, HeadLive
  <1>3. /\ worker' \in [Workers -> {"idle", "leased", "owners", "storing", "removed"}]
        /\ head' \in [Workers -> SUBSET Qids] /\ rest' \in [Workers -> SUBSET Qids]
        /\ worker'[w] = "idle" /\ head'[w] = {} /\ rest'[w] = {}
        /\ \A v \in Workers \ {w} : worker'[v] = worker[v] /\ head'[v] = head[v] /\ rest'[v] = rest[v]
    BY Zenon, <1>1 DEF PlaceInv, PlaceShape, Step
  <1>4. \A p : (Live(p)' <=> Live(p)) /\ (Admitted(p)' <=> Admitted(p))
    BY Zenon, <1>1 DEF Live, Admitted
  <1>5. PlaceShape'
    BY Zenon, <1>1, <1>3 DEF PlaceInv, PlaceShape
  <1>6. Owned'
    BY Zenon, <1>1, <1>2 DEF PlaceInv, PlaceShape, Owned
  <1>7. \A v \in Workers : HeadLive(v)'
    BY Zenon, <1>1, <1>3, <1>4 DEF PlaceInv, HeadLive
  <1> QED
    BY Zenon, <1>1, <1>4, <1>5, <1>6, <1>7, PlaceRedisStep

(* Time: an admission ends that no worker has in hand, or a user key that  *)
(* names no live place.                                                    *)
LEMMA PlaceLapseStep ==
  ASSUME PlaceInv, ~early',
         (\E q \in Qids : AdmissionLapses(q)) \/ (\E u \in Users : UserKeyLapses(u))
  PROVE  PlaceInv'
  <1>1. ASSUME NEW q \in Qids, AdmissionLapses(q) PROVE PlaceInv'
    <2>1. /\ tokens' = [tokens EXCEPT ![q] = 0] /\ \A w \in Workers : q \notin head[w]
          /\ UNCHANGED <<queue, buyer, owner, user, tab, place, worker, head, rest>>
      BY Zenon, <1>1 DEF AdmissionLapses, tabs, workers
    <2>2. \A p \in Qids : /\ p # q => (Admitted(p)' <=> Admitted(p)) /\ (Live(p)' <=> Live(p))
                          /\ Live(p)' => Live(p)
      BY <2>1 DEF PlaceInv, PlaceShape, Admitted, Live
    <2>3. PlaceShape' /\ Owned'
      BY Zenon, <2>1 DEF PlaceInv, PlaceShape, Owned
    <2>4. \A w \in Workers : HeadLive(w)'
      BY Zenon, <2>1, <2>2 DEF PlaceInv, PlaceShape, HeadLive
    <2> QED
      BY Zenon, <2>1, <2>2, <2>3, <2>4, PlaceRedisStep
  <1>2. ASSUME NEW u \in Users, UserKeyLapses(u) PROVE PlaceInv'
    <2>1. /\ ~Live(user[u]) /\ user' = [user EXCEPT ![u] = NoQid]
          /\ UNCHANGED <<queue, buyer, owner, tokens, tab, place, worker, head, rest>>
      BY Zenon, <1>2 DEF UserKeyLapses, tabs, workers
    <2>2. \A p : (Live(p)' <=> Live(p)) /\ (Admitted(p)' <=> Admitted(p))
      BY Zenon, <2>1 DEF Live, Admitted
    <2>3. PlaceShape' /\ Owned'
      BY Zenon, <2>1 DEF PlaceInv, PlaceShape, Owned
    <2>4. \A w \in Workers : HeadLive(w)'
      BY Zenon, <2>1, <2>2 DEF PlaceInv, HeadLive
    <2>5. \A v \in Users : user'[v] \in {user[v], NoQid} /\ (v # u => user'[v] = user[v])
      BY Zenon, <2>1 DEF PlaceInv, PlaceShape
    <2>6. ASSUME NEW p \in Qids, Live(p) PROVE user'[buyer[p]] = user[buyer[p]]
      <3>1. buyer[p] \in Users /\ user[buyer[p]] = p
        BY Zenon, <2>6 DEF PlaceInv, PlaceShape, LivesNamed, Joined
      <3> QED
        BY Zenon, <2>1, <2>5, <2>6, <3>1
    <2> QED
      BY Zenon, <2>1, <2>2, <2>3, <2>4, <2>5, <2>6, PlaceRedisStep
  <1> QED
    BY Zenon, <1>1, <1>2

LEMMA PlaceIdleStep ==
  ASSUME PlaceInv, UNCHANGED <<queue, buyer, owner, user, tokens, tab, place, worker, head, rest>>
  PROVE  PlaceInv'
  <1>1. \A p : (Live(p)' <=> Live(p)) /\ (Admitted(p)' <=> Admitted(p))
    BY Zenon DEF Live, Admitted
  <1>2. PlaceShape' /\ Owned' /\ \A w \in Workers : HeadLive(w)'
    BY Zenon, <1>1 DEF PlaceInv, PlaceShape, Owned, HeadLive
  <1> QED
    BY Zenon, <1>1, <1>2, PlaceRedisStep

LEMMA PlaceInvStep == ASSUME PlaceInv, [Next]_vars, ~early' PROVE PlaceInv'
  <1>1. ASSUME NEW t \in Tabs, Join(t) \/ Status(t) \/ StatusRank(t) \/ JoinScript(t) \/ Close(t)
        PROVE  PlaceInv'
    BY Zenon, <1>1, PlaceTabsStep, PlaceScriptStep
  <1>2. ASSUME NEW w \in Workers, Tick(w) \/ Abort(w) PROVE PlaceInv'
    BY Zenon, <1>2, PlaceReadStep, PlaceStoreStep, PlaceRemoveStep, PlaceRemoveOwnersStep DEF Tick
  <1>3. CASE SaleOpens \/ LeaseLapses \/ UNCHANGED vars
    BY Zenon, <1>3, PlaceIdleStep DEF SaleOpens, LeaseLapses, vars, redis, tabs, workers
  <1>4. CASE (\E q \in Qids : AdmissionLapses(q)) \/ (\E u \in Users : UserKeyLapses(u))
    BY Zenon, <1>4, PlaceLapseStep
  <1> QED
    BY Zenon, <1>1, <1>2, <1>3, <1>4 DEF Next

(* Once early, always early. *)
LEMMA EarlyStays == ASSUME [Next]_vars, early PROVE early'
  <1>1. CASE UNCHANGED early
    BY Zenon, <1>1
  <1>2. CASE \E t \in Tabs : StatusRank(t)
    BY Zenon, <1>2 DEF StatusRank
  <1>3. CASE (\E q \in Qids : AdmissionLapses(q)) \/ (\E u \in Users : UserKeyLapses(u))
    BY Zenon, <1>3 DEF AdmissionLapses, UserKeyLapses
  <1>4. ASSUME NEW t \in Tabs, Join(t) \/ Status(t) \/ JoinScript(t) \/ Close(t) PROVE UNCHANGED early
    BY Zenon, <1>4 DEF Join, Status, JoinScript, Close
  <1>5. ASSUME NEW w \in Workers, Tick(w) \/ Abort(w) PROVE UNCHANGED early
    BY Zenon, <1>5 DEF Tick, Abort, TakeLease, ReadHead, ReadOwners, StoreToken, Remove, RemoveOwners
  <1>6. CASE SaleOpens \/ LeaseLapses \/ UNCHANGED vars
    BY Zenon, <1>6 DEF SaleOpens, LeaseLapses, vars
  <1> QED
    BY Zenon, <1>1, <1>2, <1>3, <1>4, <1>5, <1>6 DEF Next

(* Joining again while waiting or admitted returns the same place, and a   *)
(* place has one token (Queue.Join, join.lua, Worker.Admit), from however  *)
(* many tabs a user joins and however many workers admit.                  *)
THEOREM RoomOnePlace == Spec => []OnePlace
  <1> DEFINE I == ~early => PlaceInv
  <1>1. Init => I
    BY Zenon, PlaceInvInit
  <1>2. I /\ [Next]_vars => I'
    BY Zenon, PlaceInvStep, EarlyStays
  <1>3. I => OnePlace
    BY DEF PlaceInv, PlaceShape, LivesNamed, OnePlace
  <1> QED
    BY <1>1, <1>2, <1>3, PTL DEF Spec
=============================================================================
