----------------------------- MODULE WaitingRoom -----------------------------
(***************************************************************************)
(* The waiting room (internal/queue, cmd/waitingroom): buyers join the     *)
(* queue of one event from several tabs and follow their place on a        *)
(* stream; workers on several instances admit the head of the queue under  *)
(* a lease.                                                                *)
(*                                                                         *)
(* Every step is one Redis command or script.  Queue ids are UUIDv7: drawn *)
(* fresh, and ordered in no particular way between instances, which        *)
(* decides the order of joins in the same millisecond.                     *)
(***************************************************************************)
EXTENDS Naturals, FiniteSets

CONSTANTS
  Tabs,        \* browser tabs
  UserOf,      \* the user logged in in each tab
  Workers,     \* waiting room instances
  Qids,        \* bound: the queue ids that are drawn, naturals
  NoQid, NoUser, NoWorker,
  Batch,       \* ADMIT_BATCH
  MaxAborts    \* bound: ticks cut short

ASSUME WaitingRoomAssumption ==
  /\ Qids \subseteq Nat /\ IsFiniteSet(Qids) /\ NoQid \notin Qids
  /\ NoUser \notin {UserOf[t] : t \in Tabs} /\ NoWorker \notin Workers
  /\ Batch \in Nat \ {0} /\ MaxAborts \in Nat

Users == {UserOf[t] : t \in Tabs}

VARIABLES
  open,       \* has the event's sale opened?
  clock,      \* Redis' clock in ms, as far as joins tell it apart
  queue,      \* queue:{eid}: the members
  score,      \*   and the score each one was added with
  buyer,      \* who drew each queue id
  owner,      \* queue:{eid}:owner
  user,       \* queue:{eid}:user:<uid>
  tokens,     \* unexpired tokens of each id that admitted:<qid> has held
  served,     \* the ids that ever had one
  tab,        \* what each tab's request is doing
  place,      \* the id it is doing it with
  lease,      \* admit:lock:{eid}
  worker,     \* what each worker is doing
  head,       \* the ids of its tick
  rest,       \* those whose token is still to be stored
  aborts,
  early       \* was a live place taken for gone, or a key of it gone too early?

redis == <<clock, queue, score, buyer, owner, user, tokens, served>>
tabs == <<tab, place>>
workers == <<lease, worker, head, rest, aborts>>
vars == <<open, redis, tabs, workers, early>>

Init ==
  /\ open = FALSE
  /\ clock = 0
  /\ queue = {} /\ served = {}
  /\ score = [q \in Qids |-> 0]
  /\ buyer = [q \in Qids |-> NoUser]
  /\ owner = [q \in Qids |-> NoUser]
  /\ user = [u \in Users |-> NoQid]
  /\ tokens = [q \in Qids |-> 0]
  /\ tab = [t \in Tabs |-> "closed"]
  /\ place = [t \in Tabs |-> NoQid]
  /\ lease = NoWorker
  /\ worker = [w \in Workers |-> "idle"]
  /\ head = [w \in Workers |-> {}]
  /\ rest = [w \in Workers |-> {}]
  /\ aborts = 0
  /\ early = FALSE

Joined(q) == buyer[q] # NoUser

(* admitted:<qid> exists. *)
Admitted(q) == q \in Qids /\ tokens[q] > 0

Live(q) == q \in queue \/ Admitted(q)

(* The order of the sorted set: by score, then by member. *)
Before(p, q) == score[p] < score[q] \/ (score[p] = score[q] /\ p < q)

-----------------------------------------------------------------------------
(* Queue.Join and handleStream.                                             *)

Goto(t, step, q) ==
  /\ tab' = [tab EXCEPT ![t] = step]
  /\ place' = [place EXCEPT ![t] = q]

(* Join reads the user's entry. *)
Join(t) ==
  /\ tab[t] \in {"closed", "expired"}
  /\ LET cur == user[UserOf[t]] IN
       Goto(t, IF cur = NoQid THEN "script" ELSE "join", cur)
  /\ UNCHANGED <<open, early, redis, workers>>

(* What a tab does with the answer of Status: Join returns a live entry    *)
(* and takes any other for spent, the stream goes on or ends.              *)
Heard(t, answer) ==
  Goto(t, CASE answer = "gone" -> IF tab[t] \in {"join", "join_rank"} THEN "script" ELSE "expired"
            [] answer = "admitted" /\ tab[t] \in {"stream", "stream_rank"} -> "told"
            [] OTHER -> "stream",
       place[t])

(* Mutant: a missing rank read as position 0. *)
RankZero(q) == "waiting"

Rank(q) == IF q \in queue THEN "waiting" ELSE "gone"

(* Status: GET admitted:<qid> and, in the same pipeline, ZRANK; other      *)
(* clients may run between the two.                                        *)
Status(t) ==
  /\ tab[t] \in {"join", "stream"}
  /\ \/ Admitted(place[t]) /\ Heard(t, "admitted")
     \/ ~Admitted(place[t]) /\ Heard(t, Rank(place[t]))
     \/ /\ ~Admitted(place[t])
        /\ Goto(t, IF tab[t] = "join" THEN "join_rank" ELSE "stream_rank", place[t])
  /\ UNCHANGED <<open, early, redis, workers>>

StatusRank(t) ==
  /\ tab[t] \in {"join_rank", "stream_rank"}
  /\ Heard(t, Rank(place[t]))
  /\ early' = (early \/ (Admitted(place[t]) /\ place[t] \notin queue))
  /\ UNCHANGED <<open, redis, workers>>

(* join.lua: no entry, or the one the caller found spent. *)
MayReplace(t) == user[UserOf[t]] \in {NoQid, place[t]}

(* join.lua: returns the user's other entry, or adds one behind all        *)
(* entries of earlier milliseconds.                                        *)
JoinScript(t) ==
  /\ tab[t] = "script"
  /\ LET u == UserOf[t] IN
       \/ /\ ~MayReplace(t)
          /\ Goto(t, "stream", user[u])
          /\ UNCHANGED redis
       \/ /\ MayReplace(t)
          /\ \E q \in {p \in Qids : ~Joined(p)}, now \in {clock, clock + 1} :
               /\ clock' = now
               /\ queue' = queue \cup {q}
               /\ score' = [score EXCEPT ![q] = now]
               /\ buyer' = [buyer EXCEPT ![q] = u]
               /\ owner' = [owner EXCEPT ![q] = u]
               /\ user' = [user EXCEPT ![u] = q]
               /\ Goto(t, "stream", q)
          /\ UNCHANGED <<tokens, served>>
  /\ UNCHANGED <<open, early, workers>>

(* The tab is closed, its connection breaks, the instance shuts down or    *)
(* Redis fails during Join.                                                *)
Close(t) ==
  /\ tab[t] # "closed"
  /\ Goto(t, "closed", NoQid)
  /\ UNCHANGED <<open, early, redis, workers>>

-----------------------------------------------------------------------------
(* Worker.Tick and Worker.Admit.                                            *)

Step(w, step, h, r) ==
  /\ worker' = [worker EXCEPT ![w] = step]
  /\ head' = [head EXCEPT ![w] = h]
  /\ rest' = [rest EXCEPT ![w] = r]

(* lease.lua: renew one's own lease or take a free one. *)
TakeLease(w) ==
  /\ worker[w] = "idle"
  /\ open
  /\ lease \in {NoWorker, w}
  /\ lease' = w
  /\ Step(w, "leased", {}, {})
  /\ UNCHANGED <<open, early, redis, tabs, aborts>>

(* ZRANGE 0 Batch-1. *)
First == {q \in queue : Cardinality({p \in queue : Before(p, q)}) < Batch}

ReadHead(w) ==
  /\ worker[w] = "leased"
  /\ Step(w, IF First = {} THEN "idle" ELSE "owners", First, {})
  /\ UNCHANGED <<open, early, redis, tabs, lease, aborts>>

(* HMGET: entries without owner get no token. *)
ReadOwners(w) ==
  /\ worker[w] = "owners"
  /\ Step(w, "storing", head[w], {q \in head[w] : owner[q] # NoUser})
  /\ UNCHANGED <<open, early, redis, tabs, lease, aborts>>

(* Mutant: SET without NX. *)
SetOver(n) == n + 1

(* SET NX keeps the first token. *)
SetNX(n) == IF n = 0 THEN 1 ELSE n

(* Mutant: the tokens are kept in a map, which Go walks in any order. *)
NextTokenAny(w) == rest[w]

(* The pipeline stores the tokens in the order of the head. *)
NextToken(w) == {q \in rest[w] : \A p \in rest[w] : ~Before(p, q)}

StoreToken(w) ==
  /\ worker[w] = "storing"
  /\ \E q \in NextToken(w) :
       /\ Step(w, "storing", head[w], rest[w] \ {q})
       /\ tokens' = [tokens EXCEPT ![q] = SetNX(@)]
       /\ served' = served \cup {q}
  /\ UNCHANGED <<open, early, clock, queue, score, buyer, owner, user, tabs, lease, aborts>>

(* Mutant: the head is taken off before the tokens are stored. *)
MayRemoveEarly(w) == worker[w] = "storing"

MayRemove(w) == worker[w] = "storing" /\ rest[w] = {}

(* ZREM, queued after the tokens. *)
Remove(w) ==
  /\ MayRemove(w)
  /\ queue' = queue \ head[w]
  /\ Step(w, "removed", head[w], rest[w])
  /\ UNCHANGED <<open, early, clock, score, buyer, owner, user, tokens, served, tabs, lease, aborts>>

(* HDEL. *)
RemoveOwners(w) ==
  /\ worker[w] = "removed"
  /\ owner' = [q \in Qids |-> IF q \in head[w] THEN NoUser ELSE owner[q]]
  /\ Step(w, "idle", {}, {})
  /\ UNCHANGED <<open, early, clock, queue, score, buyer, user, tokens, served, tabs, lease, aborts>>

Tick(w) ==
  \/ TakeLease(w) \/ ReadHead(w) \/ ReadOwners(w)
  \/ StoreToken(w) \/ Remove(w) \/ RemoveOwners(w)

(* A lost connection or the end of the process cuts a tick short: the      *)
(* commands up to there have run, the others never will.                   *)
Abort(w) ==
  /\ worker[w] # "idle"
  /\ aborts < MaxAborts
  /\ aborts' = aborts + 1
  /\ Step(w, "idle", {}, {})
  /\ UNCHANGED <<open, early, redis, tabs, lease>>

-----------------------------------------------------------------------------
(* Time.                                                                    *)

SaleOpens ==
  /\ ~open
  /\ open' = TRUE
  /\ UNCHANGED <<redis, tabs, workers, early>>

(* The holder is late, or gone: leaseTTL. *)
LeaseLapses ==
  /\ lease # NoWorker
  /\ lease' = NoWorker
  /\ UNCHANGED <<open, early, redis, tabs, worker, head, rest, aborts>>

(* ADMISSION_TTL, a hundred times leaseTTL: too early only for a worker    *)
(* that slept that long over its head.                                     *)
AdmissionLapses(q) ==
  /\ Admitted(q)
  /\ tokens' = [tokens EXCEPT ![q] = 0]
  /\ early' = (early \/ \E w \in Workers : q \in head[w])
  /\ UNCHANGED <<open, clock, queue, score, buyer, owner, user, served, tabs, workers>>

(* userKeyTTL; meant to outlast any place in the queue and its admission.  *)
UserKeyLapses(u) ==
  /\ user[u] # NoQid
  /\ user' = [user EXCEPT ![u] = NoQid]
  /\ early' = (early \/ Live(user[u]))
  /\ UNCHANGED <<open, clock, queue, score, buyer, owner, tokens, served, tabs, workers>>

Next ==
  \/ \E t \in Tabs : Join(t) \/ Status(t) \/ StatusRank(t) \/ JoinScript(t) \/ Close(t)
  \/ \E w \in Workers : Tick(w) \/ Abort(w)
  \/ SaleOpens \/ LeaseLapses
  \/ \E q \in Qids : AdmissionLapses(q)
  \/ \E u \in Users : UserKeyLapses(u)

Spec == Init /\ [][Next]_vars

(* The sale opens, every instance keeps ticking and every open stream asks *)
(* again.  A holder that renews its lease may keep it for good.            *)
Fairness ==
  /\ WF_vars(SaleOpens)
  /\ \A w \in Workers : WF_vars(Tick(w))
  /\ \A t \in Tabs : WF_vars(Status(t) \/ StatusRank(t))

FairSpec == Spec /\ Fairness

-----------------------------------------------------------------------------
(* Properties.                                                              *)

(* Nobody who joined is lost, wherever a tick of whichever worker breaks   *)
(* off (Admit removes the head only after the tokens were sent).           *)
NobodyLost == \A q \in Qids : Joined(q) => q \in queue \cup served

(* Tokens go out in join order, even while a late worker and its successor *)
(* admit at once.                                                          *)
FirstComeFirstServed ==
  \A p, q \in Qids : Joined(p) /\ score[p] < score[q] /\ q \in served => p \in served

(* A user has one place, and one token for it, at a time: joining again    *)
(* while waiting or admitted returns the same queue id, and SET NX keeps   *)
(* the first token.  It takes a live place read as gone, because Status    *)
(* asks for the token before it is stored and for the rank after the       *)
(* place was removed, or a key that did not outlast the place, to give a   *)
(* user a second one.                                                      *)
OnePlace ==
  ~early =>
    /\ \A p, q \in Qids : Live(p) /\ Live(q) /\ buyer[p] = buyer[q] => p = q
    /\ \A q \in Qids : tokens[q] <= 1

(* Everyone who joins is admitted in the end: of the ids that are ever     *)
(* drawn, all joined ones are served from some point on.                   *)
EventuallyServed == <>[](\A q \in Qids : Joined(q) => q \in served)

(* No stream stays open for good: it ends with the token, or because the   *)
(* place is gone.                                                          *)
StreamEnds == \A t \in Tabs : []<>(tab[t] \notin {"stream", "stream_rank"})
=============================================================================
