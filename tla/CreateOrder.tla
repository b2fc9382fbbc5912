----------------------------- MODULE CreateOrder -----------------------------
(***************************************************************************)
(* POST /v1/orders in full (Service.create): the lock on the               *)
(* Idempotency-Key, the lookup of an order the key already created, the    *)
(* claim of the admission token, the hold, the insert, and the clean-up    *)
(* that follows every refusal.  Each call to Redis or PostgreSQL is a      *)
(* step; other requests, expiring keys and crashes come in between.        *)
(*                                                                         *)
(* A request draws a fresh order id, so the order a request creates has    *)
(* the name of the request.  What the rest of booking does with an order   *)
(* (Booking) is here the single action OrderEnds.                          *)
(***************************************************************************)
EXTENDS Naturals, Sequences, FiniteSets, Functions, SeatKeys

CONSTANTS
  Requests,        \* the HTTP requests, each with a user, a key and a body
  Tokens,          \* admission tokens (jti)
  Seats,           \* seats of the event
  UserOf, KeyOf,   \* who sent a request, with which Idempotency-Key
  SeatIDs,         \* the seat_ids of its body, in the order they were sent
  TokenOf,         \* the admission token it carries
  OwnerOf,         \* the user an admission token was issued to
  RequireAdmission,
  MaxSeatsPerOrder,
  Faults,          \* what may go wrong: a subset of AllFaults
  MaxHit           \* bound: requests that faults hit

(* "crash"   the process dies and nothing deferred runs                     *)
(* "refuse"  a call fails and had no effect                                 *)
(* "lost"    a call to Redis took effect, but its reply is an error         *)
(* "commit"  the insert committed, but its reply is an error                *)
(* "slow"    a request outlives its lock (PX 30 s)                          *)
AllFaults == {"crash", "refuse", "lost", "commit", "slow"}

ASSUME CreateOrderAssumption ==
  /\ Faults \subseteq AllFaults /\ MaxHit \in Nat
  /\ None \notin Requests \cup Tokens
  /\ RequireAdmission => TokenOf \in [Requests -> Tokens]

VARIABLES
  open,       \* has the sale opened?
  live,       \* the tokens that have not expired
  lock,       \* idem:<user>:<key>: the request whose token it holds
  used,       \* admission:used:<jti>: the order that claimed it
  seat,       \* the seat keys
  row,        \* the orders table: "NO_ROW", "HELD" or "ENDED"
  pc,         \* where each request is
  round,      \* its round of the loop
  claimed,    \* has it claimed its admission?
  answer,     \* what it returned: a code and, on success, an order
  hit         \* the requests that faults have hit, and if one was "slow"

vars == <<open, live, lock, used, seat, row, pc, round, claimed, answer, hit>>

NoAnswer == [code |-> "NONE", order |-> None]

(* The key of the lock, and of UNIQUE (user_id, idempotency_key). *)
Key(r) == <<UserOf[r], KeyOf[r]>>

Keys == {Key(r) : r \in Requests}

(* The admission booking asks for; none with REQUIRE_ADMISSION=false. *)
Adm(r) == IF RequireAdmission THEN TokenOf[r] ELSE None

Valid(r) ==
  /\ SeatIDs[r] # << >>
  /\ Len(SeatIDs[r]) <= MaxSeatsPerOrder
  /\ \A i, j \in DOMAIN SeatIDs[r] : i # j => SeatIDs[r][i] # SeatIDs[r][j]
  /\ Range(SeatIDs[r]) \subseteq Seats

(* A normalized request has its seats sorted: it is the set of its seats. *)
normalize(r) == Range(SeatIDs[r])

(* sha256 over the normalized request, hence over the set of its seats. *)
requestHash(r) == normalize(r)

Running(r) == pc[r] \notin {"idle", "done", "crashed"}

HasRow(r) == row[r] # "NO_ROW"

Init ==
  /\ open = FALSE
  /\ live = Tokens
  /\ lock = [k \in Keys |-> None]
  /\ used = [j \in Tokens |-> None]
  /\ seat = [s \in Seats |-> Absent]
  /\ row = [r \in Requests |-> "NO_ROW"]
  /\ pc = [r \in Requests |-> "idle"]
  /\ round = [r \in Requests |-> 1]
  /\ claimed = [r \in Requests |-> FALSE]
  /\ answer = [r \in Requests |-> NoAnswer]
  /\ hit = {}

-----------------------------------------------------------------------------
(* Steps of a request.                                                      *)

WasHit(r) == \E slow \in BOOLEAN : <<r, slow>> \in hit

(* A fault of kind f hits request r. *)
Hit(r, f) ==
  /\ f \in Faults
  /\ Cardinality({q \in Requests : q = r \/ WasHit(q)}) <= MaxHit
  /\ hit' = hit \cup {<<r, f = "slow">>}

Goto(r, l) == pc' = [pc EXCEPT ![r] = l]

Answer(r, code, o) == answer' = [answer EXCEPT ![r] = [code |-> code, order |-> o]]

(* Mutant: the admission is given back after errors only. *)
ReturnKeepsClaim(r, code, o) ==
  /\ Answer(r, code, o)
  /\ Goto(r, IF claimed[r] /\ code = "ERROR" THEN "unclaim" ELSE "unlock")

(* A return below the lock runs the deferred calls, last one first: give   *)
(* the admission back unless the order was created, then unlock.           *)
Return(r, code, o) ==
  /\ Answer(r, code, o)
  /\ Goto(r, IF claimed[r] /\ code # "CREATED" THEN "unclaim" ELSE "unlock")

(* RequireAdmission, CreateAdmitted and the checks before the lock. *)
Admitted(r) ==
  RequireAdmission => TokenOf[r] \in live /\ OwnerOf[TokenOf[r]] = UserOf[r]

Begin(r) ==
  /\ pc[r] = "idle"
  /\ \/ /\ Admitted(r) /\ Valid(r) /\ open
        /\ Goto(r, "lock")
        /\ UNCHANGED answer
     \/ /\ ~ (Admitted(r) /\ Valid(r) /\ open)
        /\ Goto(r, "done")
        /\ Answer(r, IF Admitted(r) THEN "VALIDATION_ERROR" ELSE "ADMISSION_REQUIRED", None)
  /\ UNCHANGED <<open, live, lock, used, seat, row, round, claimed, hit>>

(* Mutant: SET without NX. *)
LockFreeAlways(r) == TRUE

(* SET NX finds no key. *)
LockFree(r) == lock[Key(r)] = None

(* SET NX PX.  After a lost reply the Redis client repeats the command and  *)
(* finds the key taken, by its own first try, or gives up.                  *)
TryLock(r) ==
  /\ pc[r] = "lock"
  /\ \/ /\ LockFree(r)
        /\ lock' = [lock EXCEPT ![Key(r)] = r]
        /\ \/ Goto(r, "find") /\ UNCHANGED <<answer, hit>>
           \/ Hit(r, "lost") /\ Goto(r, "busy") /\ UNCHANGED answer
           \/ Hit(r, "lost") /\ Goto(r, "done") /\ Answer(r, "TEMPORARILY_UNAVAILABLE", None)
     \/ /\ ~ LockFree(r)
        /\ Goto(r, "busy")
        /\ UNCHANGED <<lock, answer, hit>>
     \/ /\ Hit(r, "refuse")
        /\ Goto(r, "done")
        /\ Answer(r, "TEMPORARILY_UNAVAILABLE", None)
        /\ UNCHANGED lock
  /\ UNCHANGED <<open, live, used, seat, row, round, claimed>>

(* Mutant: only a HELD order is found. *)
findByKeyHeld(r) == {o \in Requests : row[o] = "HELD" /\ Key(o) = Key(r)}

(* GetOrderByKey: the order the key has created, in any status. *)
findByKey(r) == {o \in Requests : HasRow(o) /\ Key(o) = Key(r)}

(* The answer an order found by the key gives: it is returned if the       *)
(* request is the same one.                                                *)
Found(r) ==
  {IF requestHash(o) = requestHash(r) THEN [code |-> "REPLAY", order |-> o]
                                      ELSE [code |-> "IDEMPOTENCY_KEY_REUSED", order |-> None]
     : o \in findByKey(r)}

Finish(r, code, o) == Goto(r, "done") /\ Answer(r, code, o)

(* Somebody else has the lock. *)
FindBusy(r) ==
  /\ pc[r] = "busy"
  /\ \/ \E a \in Found(r) : Finish(r, a.code, a.order) /\ UNCHANGED hit
     \/ findByKey(r) = {} /\ Finish(r, "IDEMPOTENCY_KEY_IN_PROGRESS", None) /\ UNCHANGED hit
     \/ Hit(r, "refuse") /\ Finish(r, "ERROR", None)
  /\ UNCHANGED <<open, live, lock, used, seat, row, round, claimed>>

(* The lookup at the head of each round. *)
Find(r) ==
  /\ pc[r] = "find"
  /\ \/ \E a \in Found(r) : Return(r, a.code, a.order) /\ UNCHANGED hit
     \/ /\ findByKey(r) = {}
        /\ Goto(r, IF Adm(r) # None /\ ~ claimed[r] THEN "claim" ELSE "hold")
        /\ UNCHANGED <<answer, hit>>
     \/ Hit(r, "refuse") /\ Return(r, "ERROR", None)
  /\ UNCHANGED <<open, live, lock, used, seat, row, round, claimed>>

(* Mutant: claim.lua sets the key whoever holds it. *)
ClaimedByStealing(r) == r

(* claim.lua: the order that holds the token after the script has run. *)
ClaimedBy(r) == IF used[Adm(r)] = None THEN r ELSE used[Adm(r)]

Claim(r) ==
  /\ pc[r] = "claim"
  /\ \/ /\ used' = [used EXCEPT ![Adm(r)] = ClaimedBy(r)]
        /\ \/ /\ ClaimedBy(r) = r
              /\ claimed' = [claimed EXCEPT ![r] = TRUE]
              /\ Goto(r, "hold")
              /\ UNCHANGED <<answer, hit>>
           \/ /\ ClaimedBy(r) # r
              /\ Return(r, "ADMISSION_ALREADY_USED", None)
              /\ UNCHANGED <<claimed, hit>>
           \/ /\ Hit(r, "lost")
              /\ Return(r, "TEMPORARILY_UNAVAILABLE", None)
              /\ UNCHANGED claimed
     \/ /\ Hit(r, "refuse")
        /\ Return(r, "TEMPORARILY_UNAVAILABLE", None)
        /\ UNCHANGED <<used, claimed>>
  /\ UNCHANGED <<open, live, lock, seat, row, round>>

Hold(r) ==
  /\ pc[r] = "hold"
  /\ \/ /\ Taken(seat, normalize(r), r) # {}
        /\ Return(r, "SEATS_UNAVAILABLE", None)
        /\ UNCHANGED <<seat, hit>>
     \/ /\ Taken(seat, normalize(r), r) = {}
        /\ seat' = HoldSeats(seat, normalize(r), r, 0)
        /\ \/ Goto(r, "insert") /\ UNCHANGED <<answer, hit>>
           \/ Hit(r, "lost") /\ Return(r, "ERROR", None)
     \/ /\ Hit(r, "refuse")
        /\ Return(r, "ERROR", None)
        /\ UNCHANGED seat
  /\ UNCHANGED <<open, live, lock, used, row, round, claimed>>

(* UNIQUE (user_id, idempotency_key). *)
KeyConflict(r) == \E o \in Requests : HasRow(o) /\ Key(o) = Key(r)

(* orders_one_held_per_user. *)
ActiveOrder(r) == \E o \in Requests : row[o] = "HELD" /\ UserOf[o] = UserOf[r]

InsertHeldOrder(r) == row' = [row EXCEPT ![r] = "HELD"]

(* The transaction of insertHeld.  PostgreSQL checks the older of the two  *)
(* unique indexes first, so a conflict on the key hides the other one.     *)
insertHeld(r) ==
  /\ pc[r] = "insert"
  /\ \/ /\ KeyConflict(r)
        /\ Goto(r, "release_retry")
        /\ UNCHANGED <<row, answer, hit>>
     \/ /\ ~ KeyConflict(r) /\ ActiveOrder(r)
        /\ Goto(r, "release_active")
        /\ UNCHANGED <<row, answer, hit>>
     \/ /\ ~ KeyConflict(r) /\ ~ ActiveOrder(r)
        /\ InsertHeldOrder(r)
        /\ \/ Return(r, "CREATED", r) /\ UNCHANGED hit
           \/ Hit(r, "commit") /\ Goto(r, "release_error") /\ UNCHANGED answer
     \/ /\ Hit(r, "refuse")
        /\ Goto(r, "release_error")
        /\ UNCHANGED <<row, answer>>
  /\ UNCHANGED <<open, live, lock, used, seat, round, claimed>>

(* The best-effort release after a failed insert, then the switch on the   *)
(* constraint: only a conflict on the key goes round again, once.          *)
Release(r) ==
  /\ pc[r] \in {"release_retry", "release_active", "release_error"}
  /\ \/ seat' = ReleaseSeats(seat, normalize(r), r) /\ UNCHANGED hit
     \/ Hit(r, "refuse") /\ UNCHANGED seat
  /\ \/ /\ pc[r] = "release_retry" /\ round[r] = 1
        /\ round' = [round EXCEPT ![r] = 2]
        /\ Goto(r, "find")
        /\ UNCHANGED answer
     \/ /\ pc[r] = "release_active"
        /\ Return(r, "ACTIVE_ORDER_EXISTS", None)
        /\ UNCHANGED round
     \/ /\ pc[r] = "release_error" \/ (pc[r] = "release_retry" /\ round[r] = 2)
        /\ Return(r, "ERROR", None)
        /\ UNCHANGED round
  /\ UNCHANGED <<open, live, lock, used, row, claimed>>

(* unclaim.lua: delete the claim only if it is this order's. *)
Unclaim(r) ==
  /\ pc[r] = "unclaim"
  /\ \/ used' = [used EXCEPT ![Adm(r)] = IF @ = r THEN None ELSE @] /\ UNCHANGED hit
     \/ Hit(r, "refuse") /\ UNCHANGED used
  /\ Goto(r, "unlock")
  /\ UNCHANGED <<open, live, lock, seat, row, round, claimed, answer>>

(* The request is over, and its local variables are gone. *)
Over(r, l) ==
  /\ Goto(r, l)
  /\ round' = [round EXCEPT ![r] = 1]
  /\ claimed' = [claimed EXCEPT ![r] = FALSE]

(* unlock.lua: delete the lock only if it still carries our token. *)
Unlock(r) ==
  /\ pc[r] = "unlock"
  /\ \/ lock' = [lock EXCEPT ![Key(r)] = IF @ = r THEN None ELSE @] /\ UNCHANGED hit
     \/ Hit(r, "refuse") /\ UNCHANGED lock
  /\ Over(r, "done")
  /\ UNCHANGED <<open, live, used, seat, row, answer>>

Crash(r) ==
  /\ Hit(r, "crash")
  /\ Running(r)
  /\ Over(r, "crashed")
  /\ UNCHANGED <<open, live, lock, used, seat, row, answer>>

-----------------------------------------------------------------------------
(* The world around the requests.                                           *)

SaleOpens ==
  /\ ~ open
  /\ open' = TRUE
  /\ UNCHANGED <<live, lock, used, seat, row, pc, round, claimed, answer, hit>>

(* The order is cancelled or expires, and its seats are released. *)
OrderEnds(r) ==
  /\ row[r] = "HELD"
  /\ row' = [row EXCEPT ![r] = "ENDED"]
  /\ seat' = ReleaseSeats(seat, normalize(r), r)
  /\ UNCHANGED <<open, live, lock, used, pc, round, claimed, answer, hit>>

TokenExpires(j) ==
  /\ j \in live
  /\ live' = live \ {j}
  /\ UNCHANGED <<open, lock, used, seat, row, pc, round, claimed, answer, hit>>

(* PX 30 s: an abandoned lock lapses, and that of a request slower than it. *)
LockLapses(k) ==
  /\ lock[k] # None
  /\ \/ ~ Running(lock[k]) /\ UNCHANGED hit
     \/ Running(lock[k]) /\ Hit(lock[k], "slow")
  /\ lock' = [lock EXCEPT ![k] = None]
  /\ UNCHANGED <<open, live, used, seat, row, pc, round, claimed, answer>>

(* A claim is kept for ADMISSION_TTL, so it outlives its token, and, as    *)
(* long as requests are shorter than what the buyer took to choose seats,  *)
(* every request that presented the token.                                 *)
ClaimLapses(j) ==
  /\ used[j] # None
  /\ j \notin live
  /\ \A r \in Requests : Adm(r) = j => ~ Running(r)
  /\ used' = [used EXCEPT ![j] = None]
  /\ UNCHANGED <<open, live, lock, seat, row, pc, round, claimed, answer, hit>>

(* A hold is kept for HOLD_TTL + HOLD_GRACE: it outlives the HELD order.   *)
HoldLapses(s) ==
  /\ seat[s].kind = "held"
  /\ ~ Running(seat[s].order) /\ row[seat[s].order] # "HELD"
  /\ seat' = [seat EXCEPT ![s] = Absent]
  /\ UNCHANGED <<open, live, lock, used, row, pc, round, claimed, answer, hit>>

Step(r) ==
  \/ Begin(r) \/ TryLock(r) \/ FindBusy(r) \/ Find(r) \/ Claim(r) \/ Hold(r)
  \/ insertHeld(r) \/ Release(r) \/ Unclaim(r) \/ Unlock(r)

Next ==
  \/ \E r \in Requests : Step(r) \/ Crash(r) \/ OrderEnds(r)
  \/ SaleOpens
  \/ \E j \in Tokens : TokenExpires(j) \/ ClaimLapses(j)
  \/ \E k \in Keys : LockLapses(k)
  \/ \E s \in Seats : HoldLapses(s)

Spec == Init /\ [][Next]_vars

-----------------------------------------------------------------------------
(* Properties.                                                              *)

Slow(r) == <<r, TRUE>> \in hit

OwnSeats(r) ==
  {s \in normalize(r) : \E o \in Requests \ {r} :
      /\ Key(o) = Key(r) /\ HeldBy(seat[s], o)
      /\ ~ Slow(o) /\ (Running(o) \/ row[o] = "HELD")}

(* A request is never told SEATS_UNAVAILABLE because of the seats its own  *)
(* Idempotency-Key holds, by a request still running or by the order it    *)
(* created (ADR-005, the lock around Service.create), unless one of the    *)
(* two has outlived the lock.                                              *)
NotOwnSeats ==
  [][\A r \in Requests :
       answer[r] = NoAnswer /\ answer'[r].code = "SEATS_UNAVAILABLE" /\ ~ Slow(r) => OwnSeats(r) = {}]_vars

(* "A request answered 409 or 422 leaves no trace" (ADR-005): once a       *)
(* request that no fault has hit is over, what still carries its order id  *)
(* is backed by its order; no lock, no claim, no hold, whatever happens to *)
(* the requests beside it.                                                 *)
NoTrace ==
  \A r \in Requests :
    pc[r] = "done" /\ ~ WasHit(r) =>
      /\ lock[Key(r)] # r
      /\ ~ HasRow(r) =>
           /\ Adm(r) # None => used[Adm(r)] # r
           /\ \A s \in Seats : ~ HeldBy(seat[s], r)

(* "The second round below turns the loser into a replay" (Service.create):*)
(* whatever became of the lock, a request that lost the race for its key   *)
(* finds the winner's order in its second round and never conflicts again. *)
LoserBecomesReplay ==
  \A r \in Requests : round[r] = 2 =>
    /\ findByKey(r) # {}
    /\ pc[r] \notin {"claim", "hold", "insert", "release_retry", "release_active", "release_error"}

(* Booking answers with the promises of OrderDesk, whatever its locks,     *)
(* claims and seats go through in between.                                 *)
Desk ==
  INSTANCE OrderDesk WITH
    Scope <- [r \in Requests |-> Key(r)],
    Body <- [r \in Requests |-> requestHash(r)],
    Admission <- [r \in Requests |-> Adm(r)],
    NoAdmission <- None,
    made <- {r \in Requests : HasRow(r)},
    decided <- answer

ImplementsDesk == Desk!Spec
=============================================================================
