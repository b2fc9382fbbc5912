-------------------------- MODULE CreateOrderProofs --------------------------
(***************************************************************************)
(* Proofs about POST /v1/orders (Service.create), for any requests, users, *)
(* keys, seats and admissions, and any number of faults.                   *)
(*                                                                         *)
(* Every property follows from what each request knows of the lock, its    *)
(* claim, its seats and its row (RequestInv).  A step of one request keeps *)
(* what the others know (OthersStep) because lock, claim and seats are     *)
(* taken only when free and given back only by their owner.                *)
(***************************************************************************)
EXTENDS CreateOrder, TLAPS

Releasing == {"release_retry", "release_active", "release_error"}

(* A request that has taken the lock and not yet tried to give it back. *)
Locked == {"find", "claim", "hold", "insert", "unclaim", "unlock"} \cup Releasing

(* No answer has been decided. *)
Undecided == {"idle", "lock", "busy", "find", "claim", "hold", "insert"} \cup Releasing

(* A request that may have a claim, and one that has it if there is one to *)
(* have.                                                                   *)
Claimers == {"find", "hold", "insert", "unclaim"} \cup Releasing
Admitters == {"hold", "insert"} \cup Releasing

PCs == Undecided \cup {"unclaim", "unlock", "done", "crashed"}

Shape ==
  /\ lock \in [Keys -> Requests \cup {None}]
  /\ used \in [Tokens -> Requests \cup {None}]
  /\ DOMAIN seat = Seats
  /\ row \in [Requests -> {"NO_ROW", "HELD", "ENDED"}]
  /\ pc \in [Requests -> PCs]
  /\ round \in [Requests -> {1, 2}]
  /\ claimed \in [Requests -> BOOLEAN]
  /\ DOMAIN answer = Requests
  /\ hit \subseteq Requests \X BOOLEAN

(* The lock is the request's own from SET NX until it is given back, or    *)
(* until the request outlives it.                                          *)
LockInv(r) ==
  /\ pc[r] \in Locked /\ ~Slow(r) => lock[Key(r)] = r
  /\ lock[Key(r)] = r => pc[r] \in Locked \/ WasHit(r)

(* So is the claim; it is given back unless there is an order. *)
ClaimInv(r) ==
  /\ claimed[r] /\ pc[r] \in Claimers => Adm(r) # None /\ used[Adm(r)] = r
  /\ pc[r] \in Admitters /\ Adm(r) # None => claimed[r]
  /\ pc[r] = "unclaim" => claimed[r]
  /\ claimed[r] => pc[r] \in Claimers \cup {"unlock"}
  /\ pc[r] = "claim" => Adm(r) # None
  /\ Adm(r) # None /\ used[Adm(r)] = r /\ ~WasHit(r) => HasRow(r) \/ (claimed[r] /\ pc[r] \in Claimers)

(* The seats a request holds are its own, and are released unless there is *)
(* an order.                                                               *)
SeatInv(r) ==
  /\ Running(r) => normalize(r) \subseteq Seats
  /\ \A s \in Seats : HeldBy(seat[s], r) =>
       /\ s \in normalize(r) /\ pc[r] \notin {"idle", "lock", "busy"}
       /\ WasHit(r) \/ HasRow(r) \/ pc[r] \in {"insert"} \cup Releasing

(* An order is there from the insert on, and its admission is given back   *)
(* only after an ERROR.                                                    *)
RowInv(r) ==
  /\ HasRow(r) => pc[r] \in {"release_error", "unclaim", "unlock", "done", "crashed"}
  /\ pc[r] \in Undecided => answer[r] = NoAnswer
  /\ HasRow(r) /\ pc[r] = "unclaim" => answer[r].code = "ERROR"

(* An order's admission stays claimed until nobody can present it again. *)
SpentInv(r) ==
  HasRow(r) /\ Adm(r) # None /\ answer[r].code # "ERROR" =>
    \/ used[Adm(r)] = r
    \/ Adm(r) \notin live /\ \A q \in Requests : Adm(q) = Adm(r) => ~Running(q)

(* Under the lock, no order appears behind the back of the lookup. *)
FreshInv(r) ==
  pc[r] \in {"claim", "hold"} /\ ~Slow(r) =>
    \A o \in Requests : HasRow(o) /\ Key(o) = Key(r) => Slow(o)

(* The second round is there to find the winner's order. *)
RoundInv(r) ==
  /\ round[r] = 2 => pc[r] \in {"find", "unclaim", "unlock"}
  /\ round[r] = 2 \/ pc[r] = "release_retry" => findByKey(r) # {}

RequestInv(r) ==
  LockInv(r) /\ ClaimInv(r) /\ SeatInv(r) /\ RowInv(r) /\ SpentInv(r) /\ FreshInv(r) /\ RoundInv(r)

CreateInv == Shape /\ \A r \in Requests : RequestInv(r)

-----------------------------------------------------------------------------
(* What the steps of a request leave to the others.                        *)

LEMMA Fixed ==
  /\ \A r : Key(r)' = Key(r) /\ Adm(r)' = Adm(r) /\ normalize(r)' = normalize(r)
  /\ Locked' = Locked /\ Undecided' = Undecided /\ Claimers' = Claimers /\ Admitters' = Admitters
  /\ Releasing' = Releasing
  BY Zenon DEF Key, Adm, normalize, Locked, Undecided, Claimers, Admitters, Releasing

LEMMA ConstantTypes ==
  ASSUME NEW r \in Requests
  PROVE  /\ Key(r) \in Keys /\ r # None
         /\ Adm(r) # None => Adm(r) \in Tokens /\ RequireAdmission /\ Adm(r) = TokenOf[r]
  BY Zenon, CreateOrderAssumption DEF Keys, Adm

LEMMA CreateInvInit == Init => CreateInv
  <1> SUFFICES ASSUME Init PROVE CreateInv
    OBVIOUS
  <1>1. Shape
    BY Zenon DEF Init, Shape, PCs, Undecided
  <1>2. ASSUME NEW r \in Requests PROVE RequestInv(r)
    <2>1. /\ lock[Key(r)] = None /\ r # None /\ pc[r] = "idle" /\ claimed[r] = FALSE /\ row[r] = "NO_ROW"
          /\ round[r] = 1 /\ answer[r] = NoAnswer
          /\ Adm(r) # None => used[Adm(r)] = None
          /\ \A s \in Seats : seat[s] = Absent
      BY Zenon, ConstantTypes DEF Init
    <2>2. LockInv(r) /\ ClaimInv(r)
      BY <2>1 DEF LockInv, ClaimInv, Locked, Claimers, Admitters, Releasing
    <2>3. SeatInv(r) /\ RowInv(r)
      BY <2>1 DEF SeatInv, RowInv, HeldBy, Absent, HasRow, Running
    <2>4. SpentInv(r) /\ FreshInv(r) /\ RoundInv(r)
      BY <2>1 DEF SpentInv, FreshInv, RoundInv, HasRow
    <2> QED
      BY Zenon, <2>2, <2>3, <2>4 DEF RequestInv
  <1> QED
    BY Zenon, <1>1, <1>2 DEF CreateInv

(* What a step of request r, or of the world around it, does to request q. *)
Beside(q) ==
  /\ pc'[q] = pc[q] /\ round'[q] = round[q] /\ claimed'[q] = claimed[q] /\ answer'[q] = answer[q]
  /\ HasRow(q)' <=> HasRow(q)
  /\ WasHit(q)' <=> WasHit(q)
  /\ Slow(q)' <=> Slow(q)
  /\ lock'[Key(q)] = q <=> lock[Key(q)] = q
  /\ Adm(q) # None => (used'[Adm(q)] = q <=> used[Adm(q)] = q)
  /\ \A s \in Seats : HeldBy(seat'[s], q) => HeldBy(seat[s], q)

(* What a step of request r may do that the others notice. *)
Noticed(r) ==
  /\ HasRow(r) => HasRow(r)'
  /\ Slow(r) => Slow(r)'
  /\ HasRow(r)' => HasRow(r) \/ pc[r] = "insert"
  /\ Running(r)' => Running(r) \/ Adm(r) = None \/ Adm(r) \in live
  /\ live' = live

LEMMA OthersStep ==
  ASSUME CreateInv, NEW r \in Requests, Noticed(r), \A q \in Requests \ {r} : Beside(q),
         NEW q \in Requests \ {r}
  PROVE  RequestInv(q)'
  <1>0. Beside(q) /\ RequestInv(q) /\ RequestInv(r)
    BY Zenon DEF CreateInv
  <1>1. LockInv(q)'
    BY Zenon, <1>0, Fixed DEF LockInv, Beside, RequestInv
  <1>2. ClaimInv(q)'
    BY Zenon, <1>0, Fixed DEF ClaimInv, Beside, RequestInv
  <1>3. Running(q)' <=> Running(q)
    BY Zenon, <1>0 DEF Running, Beside
  <1>4. SeatInv(q)'
    BY Zenon, <1>0, <1>3, Fixed DEF SeatInv, Beside, RequestInv
  <1>5. RowInv(q)'
    BY Zenon, <1>0, Fixed DEF RowInv, Beside, RequestInv
  <1>6. \A o \in Requests : HasRow(o) => HasRow(o)'
    BY Zenon DEF Beside, Noticed
  <1>7. SpentInv(q)'
    <2> SUFFICES ASSUME HasRow(q), Adm(q) # None, answer[q].code # "ERROR", used[Adm(q)] # q
                 PROVE  Adm(q) \notin live /\ \A o \in Requests : Adm(o) = Adm(q) => ~Running(o)'
      BY Zenon, <1>0, Fixed DEF SpentInv, Beside, Noticed
    <2>1. Adm(q) \notin live /\ \A o \in Requests : Adm(o) = Adm(q) => ~Running(o)
      BY Zenon, <1>0 DEF SpentInv, RequestInv
    <2>2. ASSUME NEW o \in Requests \ {r} PROVE Running(o)' <=> Running(o)
      BY Zenon DEF Beside, Running
    <2>3. Running(r)' => Running(r) \/ Adm(r) # Adm(q)
      BY Zenon, <2>1 DEF Noticed
    <2> QED
      BY Zenon, <2>1, <2>2, <2>3
  <1>8. FreshInv(q)'
    <2> SUFFICES ASSUME pc[q] \in {"claim", "hold"}, ~Slow(q), NEW o \in Requests, HasRow(o)', Key(o) = Key(q)
                 PROVE  Slow(o)'
      BY Zenon, <1>0, Fixed DEF FreshInv, Beside
    <2>1. CASE HasRow(o)
      BY Zenon, <1>0, <2>1 DEF RequestInv, FreshInv, Beside, Noticed
    <2>2. CASE ~HasRow(o)
      <3>1. o = r /\ pc[r] = "insert"
        BY Zenon, <2>2 DEF Beside, Noticed
      <3>2. lock[Key(q)] = q
        BY Zenon, <1>0 DEF RequestInv, LockInv, Locked
      <3>3. Slow(r)
        BY Zenon, <1>0, <3>1, <3>2 DEF RequestInv, LockInv, Locked
      <3> QED
        BY Zenon, <3>1, <3>3 DEF Noticed
    <2> QED
      BY Zenon, <2>1, <2>2
  <1>9. RoundInv(q)'
    <2>1. findByKey(q) # {} => findByKey(q)' # {}
      BY Zenon, <1>6, Fixed DEF findByKey
    <2> QED
      BY Zenon, <1>0, <2>1 DEF RoundInv, RequestInv, Beside
  <1> QED
    BY Zenon, <1>1, <1>2, <1>4, <1>5, <1>7, <1>8, <1>9 DEF RequestInv

(* A step of request r: of the others' state it touches nothing, and of    *)
(* what they share only what is free or r's own.                           *)
Own(r) ==
  /\ \A q \in Requests \ {r} :
       pc'[q] = pc[q] /\ round'[q] = round[q] /\ claimed'[q] = claimed[q] /\ answer'[q] = answer[q]
  /\ \A q \in Requests \ {r} : row'[q] = row[q] /\ (WasHit(q)' <=> WasHit(q)) /\ (Slow(q)' <=> Slow(q))
  /\ \A k \in Keys : lock'[k] = lock[k] \/ (lock[k] \in {r, None} /\ lock'[k] \in {r, None})
  /\ \A j \in Tokens : used'[j] = used[j] \/ (used[j] \in {r, None} /\ used'[j] \in {r, None})
  /\ \A s \in Seats : seat'[s] = seat[s] \/ seat'[s].order = r \/ seat'[s] = Absent

LEMMA OwnStep ==
  ASSUME CreateInv, NEW r \in Requests, Own(r), Noticed(r), Shape', RequestInv(r)'
  PROVE  CreateInv'
  <1>1. ASSUME NEW q \in Requests \ {r} PROVE Beside(q)
    <2>0. q # None /\ Key(q) \in Keys /\ (Adm(q) # None => Adm(q) \in Tokens)
      BY Zenon, ConstantTypes
    <2>1. lock'[Key(q)] = q <=> lock[Key(q)] = q
      <3>1. \/ lock'[Key(q)] = lock[Key(q)]
            \/ lock[Key(q)] \in {r, None} /\ lock'[Key(q)] \in {r, None}
        BY Zenon, <2>0 DEF Own
      <3> QED
        BY Zenon, <2>0, <3>1
    <2>2. Adm(q) # None => (used'[Adm(q)] = q <=> used[Adm(q)] = q)
      <3>1. \A j \in Tokens : used'[j] = used[j] \/ (used[j] \in {r, None} /\ used'[j] \in {r, None})
        BY Zenon DEF Own
      <3> QED
        BY Zenon, <2>0, <3>1
    <2>3. ASSUME NEW s \in Seats, HeldBy(seat'[s], q) PROVE HeldBy(seat[s], q)
      BY <2>0, <2>3 DEF Own, HeldBy, Absent
    <2> QED
      BY Zenon, <2>1, <2>2, <2>3 DEF Own, Beside, HasRow
  <1> QED
    BY Zenon, <1>1, OthersStep DEF CreateInv

LEMMA GotoFacts ==
  ASSUME Shape, NEW r \in Requests, NEW l \in PCs, Goto(r, l)
  PROVE  pc' \in [Requests -> PCs] /\ pc'[r] = l /\ \A q \in Requests \ {r} : pc'[q] = pc[q]
  BY DEF Shape, Goto

LEMMA AnswerFacts ==
  ASSUME Shape, NEW r \in Requests, NEW code, NEW o, Answer(r, code, o)
  PROVE  /\ DOMAIN answer' = Requests /\ answer'[r] = [code |-> code, order |-> o]
         /\ \A q \in Requests \ {r} : answer'[q] = answer[q]
  BY DEF Shape, Answer

LEMMA ReturnFacts ==
  ASSUME Shape, NEW r \in Requests, NEW code, NEW o, Return(r, code, o)
  PROVE  /\ pc' \in [Requests -> PCs] /\ \A q \in Requests \ {r} : pc'[q] = pc[q]
         /\ DOMAIN answer' = Requests /\ \A q \in Requests \ {r} : answer'[q] = answer[q]
         /\ answer'[r].code = code
         /\ \/ pc'[r] = "unclaim" /\ claimed[r] /\ code # "CREATED"
            \/ pc'[r] = "unlock" /\ ~(claimed[r] /\ code # "CREATED")
  <1>1. Answer(r, code, o)
    BY Zenon DEF Return
  <1>2. /\ DOMAIN answer' = Requests /\ answer'[r] = [code |-> code, order |-> o]
        /\ \A q \in Requests \ {r} : answer'[q] = answer[q]
    BY Zenon, <1>1, AnswerFacts
  <1> answer'[r].code = code
    BY <1>2
  <1>3. "unclaim" \in PCs /\ "unlock" \in PCs
    BY Zenon DEF PCs
  <1>4. CASE claimed[r] /\ code # "CREATED"
    BY Zenon, <1>2, <1>3, <1>4, GotoFacts DEF Return
  <1>5. CASE ~(claimed[r] /\ code # "CREATED")
    BY Zenon, <1>2, <1>3, <1>5, GotoFacts DEF Return
  <1> QED
    BY Zenon, <1>4, <1>5

(* A return without a new order. *)
LEMMA RefuseFacts ==
  ASSUME Shape, NEW r \in Requests, NEW code, NEW o, code # "CREATED", Return(r, code, o)
  PROVE  /\ pc' \in [Requests -> PCs] /\ DOMAIN answer' = Requests
         /\ \A q \in Requests \ {r} : pc'[q] = pc[q] /\ answer'[q] = answer[q]
         /\ answer'[r].code = code
         /\ (pc'[r] = "unclaim" /\ claimed[r]) \/ (pc'[r] = "unlock" /\ ~claimed[r])
  BY Zenon, ReturnFacts

LEMMA HitFacts ==
  ASSUME Shape, NEW r \in Requests, NEW f, Hit(r, f)
  PROVE  /\ hit' \subseteq Requests \X BOOLEAN /\ WasHit(r)'
         /\ Slow(r) => Slow(r)'
         /\ f # "slow" /\ Slow(r)' => Slow(r)
         /\ f = "slow" => Slow(r)'
         /\ \A q \in Requests \ {r} : (WasHit(q)' <=> WasHit(q)) /\ (Slow(q)' <=> Slow(q))
  <1>0. hit' = hit \cup {<<r, f = "slow">>} /\ hit \subseteq Requests \X BOOLEAN /\ (f = "slow") \in BOOLEAN
    BY Zenon DEF Hit, Shape
  <1>1. PICK slow \in BOOLEAN : hit' = hit \cup {<<r, slow>>} /\ slow = (f = "slow")
    BY Zenon, <1>0
  <1>3. hit' \subseteq Requests \X BOOLEAN /\ WasHit(r)'
    <2>1. <<r, slow>> \in Requests \X BOOLEAN
      BY Zenon
    <2> QED
      BY Zenon, <1>0, <1>1, <2>1 DEF WasHit
  <1>4. ASSUME NEW q \in Requests \ {r}, NEW b \in BOOLEAN PROVE <<q, b>> \in hit' <=> <<q, b>> \in hit
    <2>1. <<q, b>> # <<r, slow>>
      BY Zenon
    <2> QED
      BY Zenon, <1>1, <2>1
  <1>5. \A q \in Requests \ {r} : (WasHit(q)' <=> WasHit(q)) /\ (Slow(q)' <=> Slow(q))
    BY Zenon, <1>4 DEF WasHit, Slow
  <1>6. Slow(r) => Slow(r)'
    BY Zenon, <1>1 DEF Slow
  <1>7. f = "slow" => Slow(r)'
    BY Zenon, <1>1 DEF Slow
  <1>8. f # "slow" /\ Slow(r)' => Slow(r)
    BY Zenon, <1>1 DEF Slow
  <1> QED
    BY Zenon, <1>3, <1>5, <1>6, <1>7, <1>8

LEMMA NotHit ==
  ASSUME hit' = hit
  PROVE  \A q \in Requests : (WasHit(q)' <=> WasHit(q)) /\ (Slow(q)' <=> Slow(q))
  BY DEF WasHit, Slow

(* At most request r is hit, and not by its own slowness. *)
HitOnly(r) ==
  /\ hit' \subseteq Requests \X BOOLEAN
  /\ WasHit(r) => WasHit(r)'
  /\ Slow(r)' <=> Slow(r)
  /\ \A q \in Requests \ {r} : (WasHit(q)' <=> WasHit(q)) /\ (Slow(q)' <=> Slow(q))

LEMMA HitOnlyFacts ==
  ASSUME Shape, NEW r \in Requests
  PROVE  /\ hit' = hit => HitOnly(r)
         /\ \A f \in {"crash", "refuse", "lost", "commit"} : Hit(r, f) => HitOnly(r) /\ WasHit(r)'
  <1>1. hit' = hit => HitOnly(r)
    BY Zenon, NotHit DEF HitOnly, Shape
  <1>2. ASSUME NEW f \in {"crash", "refuse", "lost", "commit"}, Hit(r, f) PROVE HitOnly(r) /\ WasHit(r)'
    <2>1. f # "slow"
      BY Zenon, <1>2
    <2> QED
      BY Zenon, <1>2, <2>1, HitFacts DEF HitOnly
  <1> QED
    BY Zenon, <1>1, <1>2

(* A step that leaves the orders alone. *)
LEMMA RowsKept ==
  ASSUME row' = row
  PROVE  \A q \in Requests : (HasRow(q)' <=> HasRow(q)) /\ findByKey(q)' = findByKey(q)
  BY Zenon, Fixed DEF HasRow, findByKey

-----------------------------------------------------------------------------
(* Every step of a request keeps the invariant.                            *)

LEMMA BeginStep ==
  ASSUME CreateInv, NEW r \in Requests, Begin(r)
  PROVE  CreateInv'
  <1>0. Shape /\ RequestInv(r)
    BY Zenon DEF CreateInv
  <1>1. pc[r] = "idle" /\ UNCHANGED <<live, lock, used, seat, row, round, claimed, hit>>
    BY Zenon DEF Begin
  <1>2. /\ pc' \in [Requests -> PCs] /\ DOMAIN answer' = Requests
        /\ \A q \in Requests \ {r} : pc'[q] = pc[q] /\ answer'[q] = answer[q]
        /\ \/ pc'[r] = "lock" /\ answer'[r] = answer[r] /\ Valid(r) /\ Admitted(r)
           \/ pc'[r] = "done"
    <2>1. "lock" \in PCs /\ "done" \in PCs
      BY Zenon DEF PCs, Undecided
    <2>2. CASE Goto(r, "lock") /\ UNCHANGED answer /\ Valid(r) /\ Admitted(r)
      BY Zenon, <1>0, <2>1, <2>2, GotoFacts DEF Shape
    <2>3. CASE Goto(r, "done") /\ \E code : Answer(r, code, None)
      BY Zenon, <1>0, <2>1, <2>3, GotoFacts, AnswerFacts
    <2> QED
      BY Zenon, <2>2, <2>3 DEF Begin
  <1>3. \A q \in Requests : (WasHit(q)' <=> WasHit(q)) /\ (Slow(q)' <=> Slow(q)) /\ (HasRow(q)' <=> HasRow(q))
    BY Zenon, <1>1, NotHit DEF HasRow
  <1>4. Own(r)
    BY Zenon, <1>1, <1>2, <1>3 DEF Own
  <1>5. Noticed(r)
    BY Zenon, <1>1, <1>2, <1>3 DEF Noticed, Admitted, Adm, Running
  <1>6. Shape'
    BY Zenon, <1>0, <1>1, <1>2 DEF Shape
  <1>7. ~HasRow(r) /\ round[r] = 1
    BY <1>0, <1>1 DEF RequestInv, RowInv, RoundInv, Shape
  <1>8. LockInv(r)' /\ ClaimInv(r)'
    <2>1. LockInv(r)'
      BY Zenon, <1>0, <1>1, <1>2, <1>3, Fixed DEF RequestInv, LockInv, Locked, Releasing
    <2>2. ClaimInv(r)'
      BY Zenon, <1>0, <1>1, <1>2, <1>3, Fixed DEF RequestInv, ClaimInv, Claimers, Admitters, Releasing
    <2> QED
      BY Zenon, <2>1, <2>2
  <1>9. SeatInv(r)'
    <2>1. Running(r)' => normalize(r) \subseteq Seats
      BY Zenon, <1>2 DEF Running, Valid, normalize
    <2>2. \A s \in Seats : HeldBy(seat[s], r) => FALSE
      BY Zenon, <1>0, <1>1 DEF RequestInv, SeatInv
    <2> QED
      BY Zenon, <1>1, <2>1, <2>2, Fixed DEF SeatInv
  <1>10. RowInv(r)' /\ SpentInv(r)'
    BY Zenon, <1>0, <1>1, <1>2, <1>3, <1>7 DEF RequestInv, RowInv, SpentInv, Undecided, Releasing
  <1>11. FreshInv(r)' /\ RoundInv(r)'
    BY <1>1, <1>2, <1>7 DEF FreshInv, RoundInv
  <1> QED
    BY Zenon, <1>0, <1>4, <1>5, <1>6, <1>8, <1>9, <1>10, <1>11, OwnStep DEF RequestInv

LEMMA TryLockStep ==
  ASSUME CreateInv, NEW r \in Requests, TryLock(r)
  PROVE  CreateInv'
  <1>0. Shape /\ RequestInv(r)
    BY Zenon DEF CreateInv
  <1>1. pc[r] = "lock" /\ UNCHANGED <<live, used, seat, row, round, claimed>>
    BY Zenon DEF TryLock
  <1>2. /\ pc' \in [Requests -> PCs] /\ DOMAIN answer' = Requests /\ HitOnly(r)
        /\ \A q \in Requests \ {r} : pc'[q] = pc[q] /\ answer'[q] = answer[q]
        /\ pc'[r] \in {"find", "busy", "done"}
        /\ pc'[r] # "done" => answer'[r] = answer[r]
        /\ \/ lock' = lock /\ pc'[r] # "find"
           \/ /\ lock[Key(r)] = None /\ lock' = [lock EXCEPT ![Key(r)] = r]
              /\ pc'[r] = "find" \/ WasHit(r)'
    <2>0. "find" \in PCs /\ "busy" \in PCs /\ "done" \in PCs
      BY Zenon DEF PCs, Undecided
    <2>1. CASE LockFree(r) /\ lock' = [lock EXCEPT ![Key(r)] = r] /\ Goto(r, "find") /\ UNCHANGED <<answer, hit>>
      BY Zenon, <1>0, <2>0, <2>1, GotoFacts, HitOnlyFacts DEF Shape, LockFree
    <2>2. CASE LockFree(r) /\ lock' = [lock EXCEPT ![Key(r)] = r] /\ Hit(r, "lost") /\ Goto(r, "busy") /\ UNCHANGED answer
      BY Zenon, <1>0, <2>0, <2>2, GotoFacts, HitOnlyFacts DEF Shape, LockFree
    <2>3. CASE /\ LockFree(r) /\ lock' = [lock EXCEPT ![Key(r)] = r] /\ Hit(r, "lost")
               /\ Goto(r, "done") /\ Answer(r, "TEMPORARILY_UNAVAILABLE", None)
      BY Zenon, <1>0, <2>0, <2>3, GotoFacts, AnswerFacts, HitOnlyFacts DEF LockFree
    <2>4. CASE Goto(r, "busy") /\ UNCHANGED <<lock, answer, hit>>
      <3>1. pc' \in [Requests -> PCs] /\ pc'[r] = "busy" /\ HitOnly(r) /\ \A q \in Requests \ {r} : pc'[q] = pc[q]
        BY Zenon, <1>0, <2>0, <2>4, GotoFacts, HitOnlyFacts
      <3> QED
        BY Zenon, <1>0, <2>4, <3>1 DEF Shape
    <2>5. CASE Hit(r, "refuse") /\ Goto(r, "done") /\ Answer(r, "TEMPORARILY_UNAVAILABLE", None) /\ UNCHANGED lock
      BY Zenon, <1>0, <2>0, <2>5, GotoFacts, AnswerFacts, HitOnlyFacts
    <2> QED
      BY <2>1, <2>2, <2>3, <2>4, <2>5 DEF TryLock
  <1>3. \A q \in Requests : (HasRow(q)' <=> HasRow(q)) /\ findByKey(q)' = findByKey(q)
    BY Zenon, <1>1, RowsKept
  <1>4. /\ \A k \in Keys : lock'[k] = lock[k] \/ (lock[k] \in {r, None} /\ lock'[k] \in {r, None})
        /\ lock' \in [Keys -> Requests \cup {None}]
        /\ pc'[r] = "find" => lock'[Key(r)] = r
        /\ lock'[Key(r)] = r => lock[Key(r)] = r \/ pc'[r] = "find" \/ WasHit(r)'
    BY <1>0, <1>2, ConstantTypes DEF Shape
  <1>5. Own(r)
    BY Zenon, <1>1, <1>2, <1>4 DEF Own, HitOnly
  <1>6. Noticed(r)
    BY Zenon, <1>1, <1>2, <1>3 DEF Noticed, Running, HitOnly
  <1>7. Shape'
    BY Zenon, <1>0, <1>1, <1>2, <1>4 DEF Shape, HitOnly
  <1>8. ~HasRow(r) /\ round[r] = 1
    BY <1>0, <1>1 DEF RequestInv, RowInv, RoundInv, Shape
  <1>9. LockInv(r)'
    BY Zenon, <1>0, <1>1, <1>2, <1>4, Fixed DEF RequestInv, LockInv, HitOnly, Locked, Releasing
  <1>10. ClaimInv(r)'
    <2>1. ~claimed[r]
      BY Zenon, <1>0, <1>1 DEF RequestInv, ClaimInv, Claimers, Releasing
    <2>2. Adm(r) # None /\ used[Adm(r)] = r => WasHit(r)'
      BY Zenon, <1>0, <1>2, <1>8, <2>1 DEF RequestInv, ClaimInv, HitOnly
    <2>3. pc'[r] \notin Admitters /\ pc'[r] # "claim" /\ pc'[r] # "unclaim"
      BY Zenon, <1>2 DEF Admitters, Releasing
    <2> QED
      BY Zenon, <1>1, <2>1, <2>2, <2>3, Fixed DEF ClaimInv
  <1>11. SeatInv(r)'
    <2>1. normalize(r) \subseteq Seats /\ \A s \in Seats : ~HeldBy(seat[s], r)
      BY Zenon, <1>0, <1>1 DEF RequestInv, SeatInv, Running
    <2> QED
      BY Zenon, <1>1, <2>1, Fixed DEF SeatInv
  <1>12. RowInv(r)' /\ SpentInv(r)'
    BY Zenon, <1>0, <1>1, <1>2, <1>3, <1>8 DEF RequestInv, RowInv, SpentInv, Undecided, Releasing
  <1>13. FreshInv(r)' /\ RoundInv(r)'
    BY <1>1, <1>2, <1>8 DEF FreshInv, RoundInv
  <1> QED
    BY Zenon, <1>0, <1>5, <1>6, <1>7, <1>9, <1>10, <1>11, <1>12, <1>13, OwnStep DEF RequestInv

LEMMA FindBusyStep ==
  ASSUME CreateInv, NEW r \in Requests, FindBusy(r)
  PROVE  CreateInv'
  <1>0. Shape /\ RequestInv(r)
    BY Zenon DEF CreateInv
  <1>1. pc[r] = "busy" /\ UNCHANGED <<live, lock, used, seat, row, round, claimed>>
    BY Zenon DEF FindBusy
  <1>2. /\ pc' \in [Requests -> PCs] /\ DOMAIN answer' = Requests /\ HitOnly(r)
        /\ \A q \in Requests \ {r} : pc'[q] = pc[q] /\ answer'[q] = answer[q]
        /\ pc'[r] = "done"
    <2>1. HitOnly(r)
      BY Zenon, <1>0, HitOnlyFacts DEF FindBusy
    <2>2. PICK code, o : Goto(r, "done") /\ Answer(r, code, o)
      BY Zenon DEF FindBusy, Finish
    <2>3. "done" \in PCs
      BY Zenon DEF PCs
    <2> QED
      BY Zenon, <1>0, <2>1, <2>2, <2>3, GotoFacts, AnswerFacts
  <1>3. \A q \in Requests : (HasRow(q)' <=> HasRow(q)) /\ findByKey(q)' = findByKey(q)
    BY Zenon, <1>1, RowsKept
  <1>4. Own(r)
    BY Zenon, <1>1, <1>2 DEF Own, HitOnly
  <1>5. Noticed(r)
    BY Zenon, <1>1, <1>2, <1>3 DEF Noticed, Running, HitOnly
  <1>6. Shape'
    BY Zenon, <1>0, <1>1, <1>2 DEF Shape, HitOnly
  <1>7. ~HasRow(r) /\ round[r] = 1
    BY <1>0, <1>1 DEF RequestInv, RowInv, RoundInv, Shape
  <1>8. LockInv(r)'
    BY Zenon, <1>0, <1>1, <1>2, Fixed DEF RequestInv, LockInv, HitOnly, Locked, Releasing
  <1>9. ClaimInv(r)'
    BY Zenon, <1>0, <1>1, <1>2, <1>3, Fixed DEF RequestInv, ClaimInv, HitOnly, Claimers, Admitters, Releasing
  <1>10. SeatInv(r)'
    <2>1. \A s \in Seats : ~HeldBy(seat[s], r)
      BY Zenon, <1>0, <1>1 DEF RequestInv, SeatInv
    <2> QED
      BY Zenon, <1>1, <1>2, <2>1, Fixed DEF SeatInv, Running
  <1>11. RowInv(r)' /\ SpentInv(r)'
    BY Zenon, <1>2, <1>3, <1>7 DEF RowInv, SpentInv, Undecided, Releasing
  <1>12. FreshInv(r)' /\ RoundInv(r)'
    BY <1>1, <1>2, <1>7 DEF FreshInv, RoundInv
  <1> QED
    BY Zenon, <1>0, <1>4, <1>5, <1>6, <1>8, <1>9, <1>10, <1>11, <1>12, OwnStep DEF RequestInv

LEMMA FindStep ==
  ASSUME CreateInv, NEW r \in Requests, Find(r)
  PROVE  CreateInv'
  <1>0. Shape /\ RequestInv(r)
    BY Zenon DEF CreateInv
  <1>1. pc[r] = "find" /\ UNCHANGED <<live, lock, used, seat, row, round, claimed>>
    BY Zenon DEF Find
  <1>2. /\ pc' \in [Requests -> PCs] /\ DOMAIN answer' = Requests /\ HitOnly(r)
        /\ \A q \in Requests \ {r} : pc'[q] = pc[q] /\ answer'[q] = answer[q]
        /\ \/ pc'[r] = "unclaim" /\ claimed[r]
           \/ pc'[r] = "unlock" /\ ~claimed[r]
           \/ pc'[r] = "claim" /\ Adm(r) # None /\ ~claimed[r] /\ answer'[r] = answer[r] /\ findByKey(r) = {}
           \/ pc'[r] = "hold" /\ (Adm(r) # None => claimed[r]) /\ answer'[r] = answer[r] /\ findByKey(r) = {}
    <2>1. HitOnly(r)
      BY Zenon, <1>0, HitOnlyFacts DEF Find
    <2>2. CASE findByKey(r) = {} /\ Goto(r, IF Adm(r) # None /\ ~ claimed[r] THEN "claim" ELSE "hold") /\ UNCHANGED answer
      <3>1. "claim" \in PCs /\ "hold" \in PCs
        BY Zenon DEF PCs, Undecided
      <3>2. CASE Adm(r) # None /\ ~ claimed[r]
        BY Zenon, <1>0, <2>1, <2>2, <3>1, <3>2, GotoFacts DEF Shape
      <3>3. CASE ~(Adm(r) # None /\ ~ claimed[r])
        BY Zenon, <1>0, <2>1, <2>2, <3>1, <3>3, GotoFacts DEF Shape
      <3> QED
        BY Zenon, <3>2, <3>3
    <2>3. CASE \E code, o : code # "CREATED" /\ Return(r, code, o)
      BY Zenon, <1>0, <2>1, <2>3, ReturnFacts
    <2>4. ASSUME NEW a \in Found(r) PROVE a.code # "CREATED"
      BY DEF Found
    <2> QED
      BY Zenon, <2>2, <2>3, <2>4 DEF Find
  <1>3. \A q \in Requests : (HasRow(q)' <=> HasRow(q)) /\ findByKey(q)' = findByKey(q)
    BY Zenon, <1>1, RowsKept
  <1>4. Own(r)
    BY Zenon, <1>1, <1>2 DEF Own, HitOnly
  <1>5. Noticed(r)
    BY Zenon, <1>1, <1>2, <1>3 DEF Noticed, Running, HitOnly
  <1>6. Shape'
    BY Zenon, <1>0, <1>1, <1>2 DEF Shape, HitOnly
  <1>7. ~HasRow(r)
    BY Zenon, <1>0, <1>1 DEF RequestInv, RowInv
  <1>8. LockInv(r)'
    BY Zenon, <1>0, <1>1, <1>2, Fixed DEF RequestInv, LockInv, HitOnly, Locked, Releasing
  <1>9. ClaimInv(r)'
    BY Zenon, <1>0, <1>1, <1>2, <1>3, Fixed DEF RequestInv, ClaimInv, HitOnly, Claimers, Admitters, Releasing
  <1>10. SeatInv(r)'
    <2>1. normalize(r) \subseteq Seats /\ \A s \in Seats : HeldBy(seat[s], r) => s \in normalize(r) /\ WasHit(r)
      BY Zenon, <1>0, <1>1, <1>7 DEF RequestInv, SeatInv, Running, Releasing
    <2>2. pc'[r] \notin {"idle", "lock", "busy"}
      BY Zenon, <1>2
    <2> QED
      BY Zenon, <1>1, <1>2, <2>1, <2>2, Fixed DEF SeatInv, HitOnly
  <1>11. RowInv(r)' /\ SpentInv(r)'
    BY Zenon, <1>0, <1>1, <1>2, <1>3, <1>7 DEF RequestInv, RowInv, SpentInv, Undecided, Releasing
  <1>12. FreshInv(r)'
    <2>1. findByKey(r)' = {} \/ pc'[r] \in {"unclaim", "unlock"}
      BY Zenon, <1>2, <1>3
    <2>2. findByKey(r)' = {} => \A o \in Requests : ~(HasRow(o)' /\ Key(o) = Key(r))
      BY Zenon, Fixed DEF findByKey
    <2> QED
      BY Zenon, <2>1, <2>2, Fixed DEF FreshInv
  <1>13. RoundInv(r)'
    BY Zenon, <1>0, <1>1, <1>2, <1>3 DEF RequestInv, RoundInv
  <1> QED
    BY Zenon, <1>0, <1>4, <1>5, <1>6, <1>8, <1>9, <1>10, <1>11, <1>12, <1>13, OwnStep DEF RequestInv

LEMMA ClaimStep ==
  ASSUME CreateInv, NEW r \in Requests, Claim(r)
  PROVE  CreateInv'
  <1>0. Shape /\ RequestInv(r)
    BY Zenon DEF CreateInv
  <1>1. pc[r] = "claim" /\ UNCHANGED <<live, lock, seat, row, round>>
    BY Zenon DEF Claim
  <1>2. ~claimed[r] /\ Adm(r) # None /\ Adm(r) \in Tokens /\ ~HasRow(r) /\ round[r] = 1
    <2>1. ~claimed[r] /\ Adm(r) # None
      BY Zenon, <1>0, <1>1 DEF RequestInv, ClaimInv, Claimers, Releasing
    <2>2. ~HasRow(r) /\ round[r] = 1
      BY <1>0, <1>1 DEF RequestInv, RowInv, RoundInv, Shape
    <2> QED
      BY Zenon, <2>1, <2>2, ConstantTypes
  <1>3. /\ pc' \in [Requests -> PCs] /\ DOMAIN answer' = Requests /\ HitOnly(r)
        /\ \A q \in Requests \ {r} : pc'[q] = pc[q] /\ answer'[q] = answer[q]
        /\ \/ /\ pc'[r] = "hold" /\ answer'[r] = answer[r]
              /\ ClaimedBy(r) = r /\ used' = [used EXCEPT ![Adm(r)] = ClaimedBy(r)]
              /\ claimed' = [claimed EXCEPT ![r] = TRUE]
           \/ /\ pc'[r] = "unlock" /\ claimed' = claimed
              /\ used' = [used EXCEPT ![Adm(r)] = ClaimedBy(r)] /\ (ClaimedBy(r) # r \/ WasHit(r)')
           \/ pc'[r] = "unlock" /\ claimed' = claimed /\ used' = used /\ WasHit(r)'
    <2>1. "hold" \in PCs
      BY Zenon DEF PCs, Undecided
    <2>2. HitOnly(r)
      BY Zenon, <1>0, HitOnlyFacts DEF Claim
    <2>3. ASSUME NEW code, Return(r, code, None)
          PROVE  /\ pc' \in [Requests -> PCs] /\ DOMAIN answer' = Requests /\ pc'[r] = "unlock"
                 /\ \A q \in Requests \ {r} : pc'[q] = pc[q] /\ answer'[q] = answer[q]
      BY Zenon, <1>0, <1>2, <2>3, ReturnFacts
    <2>4. CASE /\ used' = [used EXCEPT ![Adm(r)] = ClaimedBy(r)] /\ ClaimedBy(r) = r
               /\ claimed' = [claimed EXCEPT ![r] = TRUE] /\ Goto(r, "hold") /\ UNCHANGED answer
      BY Zenon, <1>0, <2>1, <2>2, <2>4, GotoFacts DEF Shape
    <2>5. CASE /\ used' = [used EXCEPT ![Adm(r)] = ClaimedBy(r)] /\ ClaimedBy(r) # r
               /\ Return(r, "ADMISSION_ALREADY_USED", None) /\ UNCHANGED claimed
      BY Zenon, <2>2, <2>3, <2>5
    <2>6. CASE /\ used' = [used EXCEPT ![Adm(r)] = ClaimedBy(r)] /\ Hit(r, "lost")
               /\ Return(r, "TEMPORARILY_UNAVAILABLE", None) /\ UNCHANGED claimed
      BY Zenon, <1>0, <2>2, <2>3, <2>6, HitOnlyFacts
    <2>7. CASE Hit(r, "refuse") /\ Return(r, "TEMPORARILY_UNAVAILABLE", None) /\ UNCHANGED <<used, claimed>>
      BY Zenon, <1>0, <2>2, <2>3, <2>7, HitOnlyFacts
    <2> QED
      BY Zenon, <2>4, <2>5, <2>6, <2>7 DEF Claim
  <1>4. \A q \in Requests : (HasRow(q)' <=> HasRow(q)) /\ findByKey(q)' = findByKey(q)
    BY Zenon, <1>1, RowsKept
  <1>5. /\ used' \in [Tokens -> Requests \cup {None}]
        /\ \A j \in Tokens : used'[j] = used[j] \/ (used[j] \in {r, None} /\ used'[j] \in {r, None})
        /\ pc'[r] = "hold" => used'[Adm(r)] = r
        /\ pc'[r] = "unlock" /\ used'[Adm(r)] = r => WasHit(r)'
    BY <1>0, <1>2, <1>3 DEF Shape, ClaimedBy
  <1>6. /\ claimed' \in [Requests -> BOOLEAN]
        /\ \A q \in Requests \ {r} : claimed'[q] = claimed[q]
        /\ claimed'[r] <=> pc'[r] = "hold"
    <2>1. claimed \in [Requests -> BOOLEAN]
      BY Zenon, <1>0 DEF Shape
    <2>2. CASE pc'[r] = "hold" /\ claimed' = [claimed EXCEPT ![r] = TRUE]
      BY Zenon, <2>1, <2>2
    <2>3. CASE pc'[r] = "unlock" /\ claimed' = claimed
      BY Zenon, <1>2, <2>1, <2>3
    <2> QED
      BY Zenon, <1>3, <2>2, <2>3
  <1>7. Own(r)
    BY Zenon, <1>1, <1>3, <1>5, <1>6 DEF Own, HitOnly
  <1>8. Noticed(r)
    BY Zenon, <1>1, <1>3, <1>4 DEF Noticed, Running, HitOnly
  <1>9. Shape'
    BY Zenon, <1>0, <1>1, <1>3, <1>5, <1>6 DEF Shape, HitOnly
  <1>10. LockInv(r)'
    BY Zenon, <1>0, <1>1, <1>3, Fixed DEF RequestInv, LockInv, HitOnly, Locked, Releasing
  <1>11. ClaimInv(r)'
    BY Zenon, <1>2, <1>3, <1>5, <1>6, Fixed DEF ClaimInv, Claimers, Admitters, Releasing
  <1>12. SeatInv(r)'
    <2>1. normalize(r) \subseteq Seats /\ \A s \in Seats : HeldBy(seat[s], r) => s \in normalize(r) /\ WasHit(r)
      BY Zenon, <1>0, <1>1, <1>2 DEF RequestInv, SeatInv, Running, Releasing
    <2>2. pc'[r] \notin {"idle", "lock", "busy"}
      BY Zenon, <1>3
    <2> QED
      BY Zenon, <1>1, <1>3, <2>1, <2>2, Fixed DEF SeatInv, HitOnly
  <1>13. RowInv(r)' /\ SpentInv(r)'
    BY Zenon, <1>0, <1>1, <1>2, <1>3, <1>4 DEF RequestInv, RowInv, SpentInv, Undecided, Releasing
  <1>14. FreshInv(r)'
    BY Zenon, <1>0, <1>1, <1>3, <1>4, <1>7, Fixed DEF RequestInv, FreshInv, HitOnly, Own
  <1>15. RoundInv(r)'
    BY <1>1, <1>2, <1>3 DEF RoundInv
  <1> QED
    BY Zenon, <1>0, <1>7, <1>8, <1>9, <1>10, <1>11, <1>12, <1>13, <1>14, <1>15, OwnStep DEF RequestInv

LEMMA HoldStep ==
  ASSUME CreateInv, NEW r \in Requests, Hold(r)
  PROVE  CreateInv'
  <1>0. Shape /\ RequestInv(r)
    BY Zenon DEF CreateInv
  <1>1. pc[r] = "hold" /\ UNCHANGED <<live, lock, used, row, round, claimed>>
    BY Zenon DEF Hold
  <1>2. ~HasRow(r) /\ round[r] = 1
    BY <1>0, <1>1 DEF RequestInv, RowInv, RoundInv, Shape
  <1>3. /\ pc' \in [Requests -> PCs] /\ DOMAIN answer' = Requests /\ HitOnly(r)
        /\ \A q \in Requests \ {r} : pc'[q] = pc[q] /\ answer'[q] = answer[q]
        /\ \/ pc'[r] = "insert" /\ answer'[r] = answer[r] /\ seat' = HoldSeats(seat, normalize(r), r, 0)
           \/ /\ (pc'[r] = "unclaim" /\ claimed[r]) \/ (pc'[r] = "unlock" /\ ~claimed[r])
              /\ seat' = seat \/ (seat' = HoldSeats(seat, normalize(r), r, 0) /\ WasHit(r)')
    <2>1. "insert" \in PCs
      BY Zenon DEF PCs, Undecided
    <2>2. HitOnly(r)
      BY Zenon, <1>0, HitOnlyFacts DEF Hold
    <2>4. CASE Return(r, "SEATS_UNAVAILABLE", None) /\ UNCHANGED seat
      BY Zenon, <1>0, <2>2, <2>4, RefuseFacts
    <2>5. CASE seat' = HoldSeats(seat, normalize(r), r, 0) /\ Goto(r, "insert") /\ UNCHANGED answer
      BY Zenon, <1>0, <2>1, <2>2, <2>5, GotoFacts DEF Shape
    <2>6. CASE seat' = HoldSeats(seat, normalize(r), r, 0) /\ Hit(r, "lost") /\ Return(r, "ERROR", None)
      BY Zenon, <1>0, <2>2, <2>6, HitOnlyFacts, RefuseFacts
    <2>7. CASE Hit(r, "refuse") /\ Return(r, "ERROR", None) /\ UNCHANGED seat
      BY Zenon, <1>0, <2>2, <2>7, RefuseFacts
    <2> QED
      BY Zenon, <2>4, <2>5, <2>6, <2>7 DEF Hold
  <1>4. \A q \in Requests : (HasRow(q)' <=> HasRow(q)) /\ findByKey(q)' = findByKey(q)
    BY Zenon, <1>1, RowsKept
  <1>5. DOMAIN seat' = Seats /\ \A s \in Seats : seat'[s] = seat[s] \/ (s \in normalize(r) /\ seat'[s].order = r)
    BY <1>0, <1>3 DEF Shape, HoldSeats, Held
  <1>6. Own(r)
    BY Zenon, <1>1, <1>3, <1>5 DEF Own, HitOnly
  <1>7. Noticed(r)
    BY Zenon, <1>1, <1>3, <1>4 DEF Noticed, Running, HitOnly
  <1>8. Shape'
    BY Zenon, <1>0, <1>1, <1>3, <1>5 DEF Shape, HitOnly
  <1>9. LockInv(r)'
    BY Zenon, <1>0, <1>1, <1>3, Fixed DEF RequestInv, LockInv, HitOnly, Locked, Releasing
  <1>10. ClaimInv(r)'
    BY Zenon, <1>0, <1>1, <1>3, <1>4, Fixed DEF RequestInv, ClaimInv, HitOnly, Claimers, Admitters, Releasing
  <1>11. SeatInv(r)'
    <2>1. normalize(r) \subseteq Seats /\ \A s \in Seats : HeldBy(seat[s], r) => s \in normalize(r) /\ WasHit(r)
      BY Zenon, <1>0, <1>1, <1>2 DEF RequestInv, SeatInv, Running, Releasing
    <2>2. pc'[r] \notin {"idle", "lock", "busy"}
      BY Zenon, <1>3
    <2>3. ASSUME NEW s \in Seats, HeldBy(seat'[s], r) PROVE s \in normalize(r) /\ (WasHit(r)' \/ pc'[r] = "insert")
      BY Zenon, <1>3, <1>5, <2>1, <2>3 DEF HitOnly
    <2> QED
      BY Zenon, <2>1, <2>2, <2>3, Fixed DEF SeatInv
  <1>12. RowInv(r)' /\ SpentInv(r)'
    BY Zenon, <1>0, <1>1, <1>2, <1>3, <1>4 DEF RequestInv, RowInv, SpentInv, Undecided, Releasing
  <1>13. FreshInv(r)' /\ RoundInv(r)'
    BY <1>1, <1>2, <1>3 DEF FreshInv, RoundInv
  <1> QED
    BY Zenon, <1>0, <1>6, <1>7, <1>8, <1>9, <1>10, <1>11, <1>12, <1>13, OwnStep DEF RequestInv

LEMMA InsertStep ==
  ASSUME CreateInv, NEW r \in Requests, insertHeld(r)
  PROVE  CreateInv'
  <1>0. Shape /\ RequestInv(r)
    BY Zenon DEF CreateInv
  <1>1. pc[r] = "insert" /\ UNCHANGED <<live, lock, used, seat, round, claimed>>
    BY Zenon DEF insertHeld
  <1>2. ~HasRow(r) /\ round[r] = 1
    BY <1>0, <1>1 DEF RequestInv, RowInv, RoundInv, Shape
  <1>3. /\ pc' \in [Requests -> PCs] /\ DOMAIN answer' = Requests /\ HitOnly(r)
        /\ \A q \in Requests \ {r} : pc'[q] = pc[q] /\ answer'[q] = answer[q]
        /\ \/ pc'[r] = "unlock" /\ InsertHeldOrder(r)
           \/ /\ pc'[r] \in Releasing /\ answer'[r] = answer[r]
              /\ row' = row \/ (InsertHeldOrder(r) /\ pc'[r] = "release_error")
              /\ pc'[r] = "release_retry" => KeyConflict(r)
    <2>1. Releasing \subseteq PCs
      BY Zenon DEF PCs, Undecided
    <2>2. HitOnly(r)
      BY Zenon, <1>0, HitOnlyFacts DEF insertHeld
    <2>3. ASSUME NEW l \in Releasing, Goto(r, l), UNCHANGED answer
          PROVE  /\ pc' \in [Requests -> PCs] /\ DOMAIN answer' = Requests /\ pc'[r] = l /\ answer'[r] = answer[r]
                 /\ \A q \in Requests \ {r} : pc'[q] = pc[q] /\ answer'[q] = answer[q]
      <3>1. l \in PCs
        BY Zenon, <2>1, <2>3
      <3> QED
        BY Zenon, <1>0, <2>3, <3>1, GotoFacts DEF Shape
    <2>4. "release_retry" \in Releasing /\ "release_active" \in Releasing /\ "release_error" \in Releasing
      BY Zenon DEF Releasing
    <2>5. CASE KeyConflict(r) /\ Goto(r, "release_retry") /\ UNCHANGED <<row, answer>>
      BY Zenon, <2>2, <2>3, <2>4, <2>5
    <2>6. CASE Goto(r, "release_active") /\ UNCHANGED <<row, answer>>
      BY Zenon, <2>2, <2>3, <2>4, <2>6
    <2>7. CASE Goto(r, "release_error") /\ UNCHANGED answer /\ (row' = row \/ InsertHeldOrder(r))
      BY Zenon, <2>2, <2>3, <2>4, <2>7
    <2>8. CASE InsertHeldOrder(r) /\ Return(r, "CREATED", r)
      BY Zenon, <1>0, <2>2, <2>8, ReturnFacts
    <2> QED
      BY Zenon, <2>5, <2>6, <2>7, <2>8 DEF insertHeld
  <1>4. /\ row' \in [Requests -> {"NO_ROW", "HELD", "ENDED"}]
        /\ \A q \in Requests \ {r} : row'[q] = row[q]
        /\ InsertHeldOrder(r) => HasRow(r)'
    BY <1>0, <1>3 DEF Shape, InsertHeldOrder, HasRow
  <1>5. \A o \in Requests : HasRow(o) => HasRow(o)'
    BY Zenon, <1>2, <1>4 DEF HasRow
  <1>6. Own(r)
    BY Zenon, <1>1, <1>3, <1>4 DEF Own, HitOnly
  <1>7. Noticed(r)
    BY Zenon, <1>1, <1>3, <1>5 DEF Noticed, Running, HitOnly
  <1>8. Shape'
    BY Zenon, <1>0, <1>1, <1>3, <1>4 DEF Shape, HitOnly
  <1>9. LockInv(r)'
    BY Zenon, <1>0, <1>1, <1>3, Fixed DEF RequestInv, LockInv, HitOnly, Locked
  <1>10. ClaimInv(r)'
    <2>1. Adm(r) # None => claimed[r] /\ used[Adm(r)] = r
      BY Zenon, <1>0, <1>1 DEF RequestInv, ClaimInv, Claimers, Admitters
    <2>2. pc'[r] \in Releasing \/ (pc'[r] = "unlock" /\ HasRow(r)')
      BY Zenon, <1>3, <1>4
    <2>3. claimed[r] => Adm(r) # None
      BY Zenon, <1>0, <1>1 DEF RequestInv, ClaimInv, Claimers
    <2> QED
      BY Zenon, <1>1, <2>1, <2>2, <2>3, Fixed DEF ClaimInv, Claimers, Admitters, Releasing
  <1>11. SeatInv(r)'
    <2>1. normalize(r) \subseteq Seats /\ \A s \in Seats : HeldBy(seat[s], r) => s \in normalize(r)
      BY Zenon, <1>0, <1>1 DEF RequestInv, SeatInv, Running
    <2>2. pc'[r] \notin {"idle", "lock", "busy"}
      BY Zenon, <1>3 DEF Releasing
    <2>3. pc'[r] \in Releasing \/ HasRow(r)'
      BY Zenon, <1>3, <1>4
    <2> QED
      BY Zenon, <1>1, <2>1, <2>2, <2>3, Fixed DEF SeatInv
  <1>12. RowInv(r)'
    <2>1. HasRow(r)' => pc'[r] \in {"unlock", "release_error"}
      BY Zenon, <1>2, <1>3 DEF HasRow
    <2>2. pc'[r] \in Undecided => answer'[r] = NoAnswer
      BY Zenon, <1>0, <1>1, <1>3 DEF RequestInv, RowInv, Undecided, Releasing
    <2> QED
      BY Zenon, <2>1, <2>2, Fixed DEF RowInv
  <1>13. SpentInv(r)'
    BY Zenon, <1>0, <1>1, Fixed DEF RequestInv, ClaimInv, SpentInv, Claimers, Admitters
  <1>14. FreshInv(r)' /\ RoundInv(r)'
    <2>1. pc'[r] \notin {"claim", "hold"}
      BY Zenon, <1>3 DEF Releasing
    <2>2. pc'[r] = "release_retry" => findByKey(r)' # {}
      BY Zenon, <1>3, <1>5, Fixed DEF findByKey, KeyConflict
    <2> QED
      BY <1>1, <1>2, <2>1, <2>2 DEF FreshInv, RoundInv
  <1> QED
    BY Zenon, <1>0, <1>6, <1>7, <1>8, <1>9, <1>10, <1>11, <1>12, <1>13, <1>14, OwnStep DEF RequestInv

LEMMA ReleaseStep ==
  ASSUME CreateInv, NEW r \in Requests, Release(r)
  PROVE  CreateInv'
  <1>0. Shape /\ RequestInv(r)
    BY Zenon DEF CreateInv
  <1>1. pc[r] \in Releasing /\ UNCHANGED <<live, lock, used, row, claimed>>
    BY Zenon DEF Release, Releasing
  <1>2. /\ round[r] = 1 /\ (HasRow(r) => pc[r] = "release_error")
        /\ pc[r] = "release_retry" => findByKey(r) # {}
    BY <1>0, <1>1 DEF RequestInv, RowInv, RoundInv, Shape, Releasing
  <1>3. /\ HitOnly(r) /\ DOMAIN seat' = Seats
        /\ \A s \in Seats : seat'[s] = seat[s] \/ seat'[s] = Absent
        /\ WasHit(r)' \/ \A s \in Seats : ~HeldBy(seat'[s], r)
    <2>1. CASE seat' = ReleaseSeats(seat, normalize(r), r) /\ UNCHANGED hit
      <3>1. \A s \in Seats : HeldBy(seat[s], r) => s \in normalize(r)
        BY Zenon, <1>0 DEF RequestInv, SeatInv
      <3>2. \A s \in Seats : seat'[s] = Absent \/ (seat'[s] = seat[s] /\ ~HeldBy(seat[s], r))
        BY Zenon, <1>0, <2>1, <3>1 DEF Shape, ReleaseSeats
      <3>3. ~HeldBy(Absent, r)
        BY DEF HeldBy, Absent
      <3>4. DOMAIN seat' = Seats
        BY Zenon, <1>0, <2>1 DEF Shape, ReleaseSeats
      <3> QED
        BY Zenon, <1>0, <2>1, <3>2, <3>3, <3>4, HitOnlyFacts
    <2>2. CASE Hit(r, "refuse") /\ UNCHANGED seat
      BY Zenon, <1>0, <2>2, HitOnlyFacts DEF Shape
    <2> QED
      BY Zenon, <2>1, <2>2 DEF Release
  <1>4. /\ pc' \in [Requests -> PCs] /\ DOMAIN answer' = Requests
        /\ \A q \in Requests \ {r} : pc'[q] = pc[q] /\ answer'[q] = answer[q]
        /\ \/ /\ pc'[r] = "find" /\ pc[r] = "release_retry" /\ answer'[r] = answer[r]
              /\ round' = [round EXCEPT ![r] = 2]
           \/ /\ (pc'[r] = "unclaim" /\ claimed[r]) \/ (pc'[r] = "unlock" /\ ~claimed[r])
              /\ pc[r] = "release_error" => answer'[r].code = "ERROR"
              /\ round' = round
    <2>1. CASE Goto(r, "find") /\ UNCHANGED answer /\ pc[r] = "release_retry" /\ round' = [round EXCEPT ![r] = 2]
      <3>1. "find" \in PCs
        BY Zenon DEF PCs, Undecided
      <3> QED
        BY Zenon, <1>0, <2>1, <3>1, GotoFacts DEF Shape
    <2>2. CASE pc[r] = "release_active" /\ Return(r, "ACTIVE_ORDER_EXISTS", None) /\ UNCHANGED round
      BY Zenon, <1>0, <2>2, RefuseFacts
    <2>3. CASE Return(r, "ERROR", None) /\ UNCHANGED round
      BY Zenon, <1>0, <2>3, RefuseFacts
    <2> QED
      BY Zenon, <2>1, <2>2, <2>3 DEF Release
  <1>5. /\ round' \in [Requests -> {1, 2}]
        /\ \A q \in Requests \ {r} : round'[q] = round[q]
        /\ round'[r] = 2 => pc'[r] = "find" /\ pc[r] = "release_retry"
    BY <1>0, <1>2, <1>4 DEF Shape
  <1>6. \A q \in Requests : (HasRow(q)' <=> HasRow(q)) /\ findByKey(q)' = findByKey(q)
    BY Zenon, <1>1, RowsKept
  <1>7. Own(r)
    BY Zenon, <1>1, <1>3, <1>4, <1>5 DEF Own, HitOnly
  <1>8. Noticed(r)
    BY Zenon, <1>1, <1>3, <1>4, <1>6 DEF Noticed, Running, HitOnly, Releasing
  <1>9. Shape'
    BY Zenon, <1>0, <1>1, <1>3, <1>4, <1>5 DEF Shape, HitOnly
  <1>10. LockInv(r)'
    BY Zenon, <1>0, <1>1, <1>3, <1>4, Fixed DEF RequestInv, LockInv, HitOnly, Locked
  <1>11. ClaimInv(r)'
    <2>1. /\ claimed[r] => Adm(r) # None /\ used[Adm(r)] = r
          /\ Adm(r) # None => claimed[r]
      BY Zenon, <1>0, <1>1 DEF RequestInv, ClaimInv, Claimers, Admitters
    <2> QED
      BY Zenon, <1>1, <1>4, <2>1, Fixed DEF ClaimInv, Claimers, Admitters, Releasing
  <1>12. SeatInv(r)'
    <2>1. Running(r) /\ pc'[r] \notin {"idle", "lock", "busy"}
      BY Zenon, <1>1, <1>4 DEF Running, Releasing
    <2>2. normalize(r) \subseteq Seats
      BY Zenon, <1>0, <2>1 DEF RequestInv, SeatInv
    <2>3. ASSUME NEW s \in Seats, HeldBy(seat'[s], r) PROVE s \in normalize(r) /\ WasHit(r)'
      <3>1. HeldBy(seat[s], r) /\ WasHit(r)'
        BY <1>3, <2>3 DEF HeldBy, Absent
      <3> QED
        BY Zenon, <1>0, <3>1 DEF RequestInv, SeatInv
    <2> QED
      BY Zenon, <2>1, <2>2, <2>3, Fixed DEF SeatInv
  <1>13. RowInv(r)' /\ SpentInv(r)'
    <2>1. HasRow(r) => pc'[r] \in {"unclaim", "unlock"} /\ answer'[r].code = "ERROR"
      BY Zenon, <1>2, <1>4
    <2>2. pc'[r] \in Undecided => answer'[r] = NoAnswer
      BY Zenon, <1>0, <1>1, <1>4 DEF RequestInv, RowInv, Undecided, Releasing
    <2> QED
      BY Zenon, <1>6, <2>1, <2>2, Fixed DEF RowInv, SpentInv
  <1>14. FreshInv(r)' /\ RoundInv(r)'
    BY Zenon, <1>2, <1>4, <1>5, <1>6 DEF FreshInv, RoundInv
  <1> QED
    BY Zenon, <1>0, <1>7, <1>8, <1>9, <1>10, <1>11, <1>12, <1>13, <1>14, OwnStep DEF RequestInv

LEMMA UnclaimStep ==
  ASSUME CreateInv, NEW r \in Requests, Unclaim(r)
  PROVE  CreateInv'
  <1>0. Shape /\ RequestInv(r)
    BY Zenon DEF CreateInv
  <1>1. pc[r] = "unclaim" /\ Goto(r, "unlock") /\ UNCHANGED <<live, lock, seat, row, round, claimed, answer>>
    BY Zenon DEF Unclaim
  <1>2. pc' \in [Requests -> PCs] /\ pc'[r] = "unlock" /\ \A q \in Requests \ {r} : pc'[q] = pc[q]
    <2>1. "unlock" \in PCs
      BY Zenon DEF PCs
    <2> QED
      BY Zenon, <1>0, <1>1, <2>1, GotoFacts
  <1>3. Adm(r) # None /\ Adm(r) \in Tokens /\ used[Adm(r)] = r
    BY Zenon, <1>0, <1>1, ConstantTypes DEF RequestInv, ClaimInv, Claimers
  <1>4. /\ HitOnly(r) /\ used' \in [Tokens -> Requests \cup {None}]
        /\ \A j \in Tokens : used'[j] = used[j] \/ (used[j] \in {r, None} /\ used'[j] \in {r, None})
        /\ used'[Adm(r)] # r \/ WasHit(r)'
    <2>1. CASE used' = [used EXCEPT ![Adm(r)] = IF @ = r THEN None ELSE @] /\ UNCHANGED hit
      <3>1. /\ used' \in [Tokens -> Requests \cup {None}] /\ used'[Adm(r)] = None
            /\ \A j \in Tokens : j # Adm(r) => used'[j] = used[j]
        BY <1>0, <1>3, <2>1 DEF Shape
      <3> QED
        BY Zenon, <1>0, <1>3, <2>1, <3>1, ConstantTypes, HitOnlyFacts
    <2>2. CASE Hit(r, "refuse") /\ UNCHANGED used
      BY Zenon, <1>0, <2>2, HitOnlyFacts DEF Shape
    <2> QED
      BY Zenon, <2>1, <2>2 DEF Unclaim
  <1>5. \A q \in Requests : (HasRow(q)' <=> HasRow(q)) /\ findByKey(q)' = findByKey(q)
    BY Zenon, <1>1, RowsKept
  <1>6. Own(r)
    BY Zenon, <1>1, <1>2, <1>4 DEF Own, HitOnly
  <1>7. Noticed(r)
    BY Zenon, <1>1, <1>2, <1>4, <1>5 DEF Noticed, Running, HitOnly
  <1>8. Shape'
    BY Zenon, <1>0, <1>1, <1>2, <1>4 DEF Shape, HitOnly
  <1>9. LockInv(r)'
    BY Zenon, <1>0, <1>1, <1>2, <1>4, Fixed DEF RequestInv, LockInv, HitOnly, Locked
  <1>10. ClaimInv(r)'
    BY Zenon, <1>2, <1>4, Fixed DEF ClaimInv, Claimers, Admitters, Releasing
  <1>11. SeatInv(r)'
    BY Zenon, <1>0, <1>1, <1>2, <1>4, <1>5, Fixed DEF RequestInv, SeatInv, HitOnly, Running, Releasing
  <1>12. RowInv(r)' /\ SpentInv(r)'
    BY Zenon, <1>0, <1>1, <1>2, <1>5, Fixed DEF RequestInv, RowInv, SpentInv, Undecided, Releasing
  <1>13. FreshInv(r)' /\ RoundInv(r)'
    BY Zenon, <1>0, <1>1, <1>2, <1>5 DEF RequestInv, FreshInv, RoundInv
  <1> QED
    BY Zenon, <1>0, <1>6, <1>7, <1>8, <1>9, <1>10, <1>11, <1>12, <1>13, OwnStep DEF RequestInv

LEMMA OverFacts ==
  ASSUME Shape, NEW r \in Requests, NEW l \in PCs, Over(r, l)
  PROVE  /\ pc' \in [Requests -> PCs] /\ pc'[r] = l
         /\ round' \in [Requests -> {1, 2}] /\ round'[r] = 1
         /\ claimed' \in [Requests -> BOOLEAN] /\ claimed'[r] = FALSE
         /\ \A q \in Requests \ {r} : pc'[q] = pc[q] /\ round'[q] = round[q] /\ claimed'[q] = claimed[q]
  <1>1. pc' \in [Requests -> PCs] /\ pc'[r] = l /\ \A q \in Requests \ {r} : pc'[q] = pc[q]
    BY Zenon, GotoFacts DEF Over
  <1>2. round' \in [Requests -> {1, 2}] /\ round'[r] = 1 /\ \A q \in Requests \ {r} : round'[q] = round[q]
    BY DEF Over, Shape
  <1>3. /\ claimed' \in [Requests -> BOOLEAN] /\ claimed'[r] = FALSE
        /\ \A q \in Requests \ {r} : claimed'[q] = claimed[q]
    BY Zenon DEF Over, Shape
  <1> QED
    BY Zenon, <1>1, <1>2, <1>3

LEMMA UnlockStep ==
  ASSUME CreateInv, NEW r \in Requests, Unlock(r)
  PROVE  CreateInv'
  <1>0. Shape /\ RequestInv(r)
    BY Zenon DEF CreateInv
  <1>1. pc[r] = "unlock" /\ UNCHANGED <<live, used, seat, row, answer>>
    BY Zenon DEF Unlock
  <1>2. /\ pc' \in [Requests -> PCs] /\ pc'[r] = "done"
        /\ round' \in [Requests -> {1, 2}] /\ round'[r] = 1
        /\ claimed' \in [Requests -> BOOLEAN] /\ claimed'[r] = FALSE
        /\ \A q \in Requests \ {r} : pc'[q] = pc[q] /\ round'[q] = round[q] /\ claimed'[q] = claimed[q]
    <2>1. "done" \in PCs /\ Over(r, "done")
      BY Zenon DEF PCs, Unlock
    <2> QED
      BY Zenon, <1>0, <2>1, OverFacts
  <1>3. /\ HitOnly(r) /\ lock' \in [Keys -> Requests \cup {None}]
        /\ \A k \in Keys : lock'[k] = lock[k] \/ (lock[k] \in {r, None} /\ lock'[k] \in {r, None})
        /\ lock'[Key(r)] # r \/ WasHit(r)'
    <2>1. CASE lock' = [lock EXCEPT ![Key(r)] = IF @ = r THEN None ELSE @] /\ UNCHANGED hit
      <3>1. /\ lock' \in [Keys -> Requests \cup {None}]
            /\ \A k \in Keys : lock'[k] = lock[k] \/ (lock[k] = r /\ lock'[k] = None)
            /\ lock'[Key(r)] # r
        BY <1>0, <2>1, ConstantTypes DEF Shape
      <3> QED
        BY Zenon, <1>0, <2>1, <3>1, HitOnlyFacts
    <2>2. CASE Hit(r, "refuse") /\ UNCHANGED lock
      BY Zenon, <1>0, <2>2, HitOnlyFacts DEF Shape
    <2> QED
      BY Zenon, <2>1, <2>2 DEF Unlock
  <1>4. \A q \in Requests : (HasRow(q)' <=> HasRow(q)) /\ findByKey(q)' = findByKey(q)
    BY Zenon, <1>1, RowsKept
  <1>5. Own(r)
    BY Zenon, <1>1, <1>2, <1>3 DEF Own, HitOnly
  <1>6. Noticed(r)
    BY Zenon, <1>1, <1>2, <1>3, <1>4 DEF Noticed, Running, HitOnly
  <1>7. Shape'
    BY Zenon, <1>0, <1>1, <1>2, <1>3 DEF Shape, HitOnly
  <1>8. LockInv(r)'
    BY Zenon, <1>2, <1>3, Fixed DEF LockInv, Locked, Releasing
  <1>9. ClaimInv(r)'
    BY Zenon, <1>0, <1>1, <1>2, <1>3, <1>4, Fixed DEF RequestInv, ClaimInv, HitOnly, Claimers, Admitters, Releasing
  <1>10. SeatInv(r)'
    BY Zenon, <1>0, <1>1, <1>2, <1>3, <1>4, Fixed DEF RequestInv, SeatInv, HitOnly, Running, Releasing
  <1>11. RowInv(r)'
    BY Zenon, <1>2 DEF RowInv, Undecided, Releasing
  <1>12. SpentInv(r)'
    BY Zenon, <1>0, <1>1, <1>2, <1>4, Fixed DEF RequestInv, SpentInv, Running
  <1>13. FreshInv(r)' /\ RoundInv(r)'
    BY <1>2 DEF FreshInv, RoundInv
  <1> QED
    BY Zenon, <1>0, <1>5, <1>6, <1>7, <1>8, <1>9, <1>10, <1>11, <1>12, <1>13, OwnStep DEF RequestInv

LEMMA CrashStep ==
  ASSUME CreateInv, NEW r \in Requests, Crash(r)
  PROVE  CreateInv'
  <1>0. Shape /\ RequestInv(r)
    BY Zenon DEF CreateInv
  <1>1. UNCHANGED <<live, lock, used, seat, row, answer>> /\ HitOnly(r) /\ WasHit(r)' /\ Running(r)
    BY Zenon, <1>0, HitOnlyFacts DEF Crash
  <1>2. /\ pc' \in [Requests -> PCs] /\ pc'[r] = "crashed"
        /\ round' \in [Requests -> {1, 2}] /\ round'[r] = 1
        /\ claimed' \in [Requests -> BOOLEAN] /\ claimed'[r] = FALSE
        /\ \A q \in Requests \ {r} : pc'[q] = pc[q] /\ round'[q] = round[q] /\ claimed'[q] = claimed[q]
    <2>1. "crashed" \in PCs /\ Over(r, "crashed")
      BY Zenon DEF PCs, Crash
    <2> QED
      BY Zenon, <1>0, <2>1, OverFacts
  <1>3. \A q \in Requests : (HasRow(q)' <=> HasRow(q)) /\ findByKey(q)' = findByKey(q)
    BY Zenon, <1>1, RowsKept
  <1>4. Own(r)
    BY Zenon, <1>1, <1>2 DEF Own, HitOnly
  <1>5. Noticed(r)
    BY Zenon, <1>1, <1>2, <1>3 DEF Noticed, Running, HitOnly
  <1>6. Shape'
    BY Zenon, <1>0, <1>1, <1>2 DEF Shape, HitOnly
  <1>7. LockInv(r)' /\ ClaimInv(r)'
    BY Zenon, <1>1, <1>2, Fixed DEF LockInv, ClaimInv, Locked, Claimers, Admitters, Releasing
  <1>8. SeatInv(r)'
    BY Zenon, <1>0, <1>1, <1>2, Fixed DEF RequestInv, SeatInv, Running
  <1>9. RowInv(r)'
    BY Zenon, <1>2 DEF RowInv, Undecided, Releasing
  <1>10. SpentInv(r)'
    BY Zenon, <1>0, <1>1, <1>2, <1>3, Fixed DEF RequestInv, SpentInv, Running
  <1>11. FreshInv(r)' /\ RoundInv(r)'
    BY <1>2 DEF FreshInv, RoundInv
  <1> QED
    BY Zenon, <1>0, <1>4, <1>5, <1>6, <1>7, <1>8, <1>9, <1>10, <1>11, OwnStep DEF RequestInv

-----------------------------------------------------------------------------
(* So does the world around the requests.                                  *)

LEMMA AroundStep ==
  ASSUME CreateInv, Shape', \A q \in Requests : Beside(q), live' \subseteq live
  PROVE  CreateInv'
  <1>1. ASSUME NEW q \in Requests PROVE RequestInv(q)'
    <2>0. Beside(q) /\ RequestInv(q)
      BY Zenon DEF CreateInv
    <2>1. \A o \in Requests : (HasRow(o)' <=> HasRow(o)) /\ (Running(o)' <=> Running(o)) /\ (Slow(o)' <=> Slow(o))
      BY Zenon DEF Beside, Running
    <2>2. findByKey(q) # {} => findByKey(q)' # {}
      BY Zenon, <2>1, Fixed DEF findByKey
    <2>3. LockInv(q)' /\ ClaimInv(q)'
      BY Zenon, <2>0, Fixed DEF LockInv, ClaimInv, Beside, RequestInv
    <2>4. SeatInv(q)' /\ RowInv(q)'
      BY Zenon, <2>0, <2>1, Fixed DEF SeatInv, RowInv, Beside, RequestInv
    <2>5. SpentInv(q)'
      BY Zenon, <2>0, <2>1, Fixed DEF SpentInv, Beside, RequestInv
    <2>6. FreshInv(q)' /\ RoundInv(q)'
      BY Zenon, <2>0, <2>1, <2>2, Fixed DEF FreshInv, RoundInv, Beside, RequestInv
    <2> QED
      BY Zenon, <2>3, <2>4, <2>5, <2>6 DEF RequestInv
  <1> QED
    BY Zenon, <1>1 DEF CreateInv

LEMMA OrderEndsStep ==
  ASSUME CreateInv, NEW r \in Requests, OrderEnds(r)
  PROVE  CreateInv'
  <1>0. Shape
    BY Zenon DEF CreateInv
  <1>1. UNCHANGED <<live, lock, used, pc, round, claimed, answer, hit>>
    BY Zenon DEF OrderEnds
  <1>2. /\ row' \in [Requests -> {"NO_ROW", "HELD", "ENDED"}]
        /\ \A q \in Requests : HasRow(q)' <=> HasRow(q)
    BY <1>0 DEF Shape, OrderEnds, HasRow
  <1>3. DOMAIN seat' = Seats /\ \A s \in Seats : seat'[s] = seat[s] \/ seat'[s] = Absent
    BY Zenon, <1>0 DEF Shape, OrderEnds, ReleaseSeats
  <1>4. \A q : ~HeldBy(Absent, q)
    BY DEF HeldBy, Absent
  <1>5. Shape'
    BY Zenon, <1>0, <1>1, <1>2, <1>3 DEF Shape
  <1>6. \A q \in Requests : Beside(q)
    BY Zenon, <1>1, <1>2, <1>3, <1>4, NotHit DEF Beside
  <1> QED
    BY Zenon, <1>1, <1>5, <1>6, AroundStep

LEMMA HoldLapsesStep ==
  ASSUME CreateInv, NEW s \in Seats, HoldLapses(s)
  PROVE  CreateInv'
  <1>0. Shape
    BY Zenon DEF CreateInv
  <1>1. UNCHANGED <<live, lock, used, row, pc, round, claimed, answer, hit>>
    BY Zenon DEF HoldLapses
  <1>2. DOMAIN seat' = Seats /\ \A x \in Seats : seat'[x] = seat[x] \/ seat'[x] = Absent
    BY Zenon, <1>0 DEF Shape, HoldLapses
  <1>3. \A q : ~HeldBy(Absent, q)
    BY DEF HeldBy, Absent
  <1>4. Shape'
    BY Zenon, <1>0, <1>1, <1>2 DEF Shape
  <1>5. \A q \in Requests : Beside(q)
    BY Zenon, <1>1, <1>2, <1>3, NotHit DEF Beside, HasRow
  <1> QED
    BY Zenon, <1>1, <1>4, <1>5, AroundStep

(* The sale opens, a token expires, or nothing happens at all. *)
LEMMA ClockStep ==
  ASSUME CreateInv, live' \subseteq live, UNCHANGED <<lock, used, seat, row, pc, round, claimed, answer, hit>>
  PROVE  CreateInv'
  <1>1. Shape'
    BY Zenon DEF CreateInv, Shape
  <1>2. \A q \in Requests : Beside(q)
    BY Zenon, NotHit DEF Beside, HasRow
  <1> QED
    BY Zenon, <1>1, <1>2, AroundStep

LEMMA ClaimLapsesStep ==
  ASSUME CreateInv, NEW j \in Tokens, ClaimLapses(j)
  PROVE  CreateInv'
  <1>0. Shape
    BY Zenon DEF CreateInv
  <1>1. /\ UNCHANGED <<live, lock, seat, row, pc, round, claimed, answer, hit>>
        /\ j \notin live /\ \A r \in Requests : Adm(r) = j => ~Running(r)
    BY Zenon DEF ClaimLapses
  <1>2. used' \in [Tokens -> Requests \cup {None}] /\ used'[j] = None /\ \A t \in Tokens \ {j} : used'[t] = used[t]
    BY Zenon, <1>0 DEF Shape, ClaimLapses
  <1>3. Shape'
    BY Zenon, <1>0, <1>1, <1>2 DEF Shape
  <1>4. ASSUME NEW q \in Requests PROVE RequestInv(q)'
    <2>0. RequestInv(q) /\ (Adm(q) # None => Adm(q) \in Tokens) /\ q # None
      BY Zenon, ConstantTypes DEF CreateInv
    <2>1. \A o \in Requests : /\ (HasRow(o)' <=> HasRow(o)) /\ (Running(o)' <=> Running(o))
                              /\ (Slow(o)' <=> Slow(o)) /\ (WasHit(o)' <=> WasHit(o))
                              /\ findByKey(o)' = findByKey(o)
      BY Zenon, <1>1, NotHit, RowsKept DEF Running
    <2>2. LockInv(q)' /\ SeatInv(q)' /\ RowInv(q)'
      BY Zenon, <1>1, <2>0, <2>1, Fixed DEF LockInv, SeatInv, RowInv, RequestInv
    <2>3. FreshInv(q)' /\ RoundInv(q)'
      BY Zenon, <1>1, <2>0, <2>1, Fixed DEF FreshInv, RoundInv, RequestInv
    <2>4. pc[q] \in Claimers => Running(q)
      BY Zenon DEF Claimers, Releasing, Running
    <2>5. ClaimInv(q)'
      <3>1. claimed[q] /\ pc[q] \in Claimers => Adm(q) # None /\ used'[Adm(q)] = q
        BY Zenon, <1>1, <1>2, <2>0, <2>4 DEF RequestInv, ClaimInv
      <3>2. Adm(q) # None /\ used'[Adm(q)] = q => used[Adm(q)] = q
        BY Zenon, <1>2, <2>0
      <3> QED
        BY Zenon, <1>1, <2>0, <2>1, <3>1, <3>2, Fixed DEF RequestInv, ClaimInv
    <2>6. SpentInv(q)'
      BY Zenon, <1>1, <1>2, <2>0, <2>1, Fixed DEF RequestInv, SpentInv
    <2> QED
      BY Zenon, <2>2, <2>3, <2>5, <2>6 DEF RequestInv
  <1> QED
    BY Zenon, <1>3, <1>4 DEF CreateInv

LEMMA LockLapsesStep ==
  ASSUME CreateInv, NEW k \in Keys, LockLapses(k)
  PROVE  CreateInv'
  <1>0. Shape
    BY Zenon DEF CreateInv
  <1>1. UNCHANGED <<live, used, seat, row, pc, round, claimed, answer>>
    BY Zenon DEF LockLapses
  <1>r. PICK r \in Requests : lock[k] = r
    BY Zenon, <1>0 DEF LockLapses, Shape
  <1>2. lock' \in [Keys -> Requests \cup {None}] /\ lock'[k] = None /\ \A x \in Keys \ {k} : lock'[x] = lock[x]
    BY Zenon, <1>0 DEF Shape, LockLapses
  <1>3. /\ hit' \subseteq Requests \X BOOLEAN
        /\ \A q \in Requests : (WasHit(q) => WasHit(q)') /\ (Slow(q) => Slow(q)')
        /\ ~Running(r) \/ Slow(r)'
    <2>1. CASE ~Running(r) /\ UNCHANGED hit
      BY Zenon, <1>0, <2>1, NotHit DEF Shape
    <2>2. CASE Hit(r, "slow")
      BY Zenon, <1>0, <2>2, HitFacts
    <2> QED
      BY Zenon, <1>r, <2>1, <2>2 DEF LockLapses
  <1>4. Shape'
    BY Zenon, <1>0, <1>1, <1>2, <1>3 DEF Shape
  <1>5. ASSUME NEW q \in Requests PROVE RequestInv(q)'
    <2>0. RequestInv(q) /\ Key(q) \in Keys /\ q # None
      BY Zenon, ConstantTypes DEF CreateInv
    <2>1. \A o \in Requests : (HasRow(o)' <=> HasRow(o)) /\ (Running(o)' <=> Running(o)) /\ findByKey(o)' = findByKey(o)
      BY Zenon, <1>1, RowsKept DEF Running
    <2>2. LockInv(q)'
      <3>1. lock'[Key(q)] = q => lock[Key(q)] = q
        BY Zenon, <1>2, <2>0
      <3>2. ASSUME pc[q] \in Locked, ~Slow(q)' PROVE lock'[Key(q)] = q
        <4>1. lock[Key(q)] = q /\ Running(q)
          BY Zenon, <1>3, <2>0, <3>2 DEF RequestInv, LockInv, Locked, Releasing, Running
        <4> QED
          BY Zenon, <1>r, <1>2, <1>3, <2>0, <3>2, <4>1
      <3> QED
        BY Zenon, <1>1, <1>3, <2>0, <3>1, <3>2, Fixed DEF RequestInv, LockInv
    <2>3. ClaimInv(q)' /\ SpentInv(q)'
      BY Zenon, <1>1, <1>3, <2>0, <2>1, Fixed DEF RequestInv, ClaimInv, SpentInv
    <2>4. SeatInv(q)' /\ RowInv(q)'
      BY Zenon, <1>1, <1>3, <2>0, <2>1, Fixed DEF RequestInv, SeatInv, RowInv
    <2>5. FreshInv(q)' /\ RoundInv(q)'
      BY Zenon, <1>1, <1>3, <2>0, <2>1, Fixed DEF RequestInv, FreshInv, RoundInv
    <2> QED
      BY Zenon, <2>2, <2>3, <2>4, <2>5 DEF RequestInv
  <1> QED
    BY Zenon, <1>4, <1>5 DEF CreateInv

LEMMA CreateInvStep == CreateInv /\ [Next]_vars => CreateInv'
  <1> SUFFICES ASSUME CreateInv, [Next]_vars PROVE CreateInv'
    OBVIOUS
  <1>1. ASSUME NEW r \in Requests, Step(r) \/ Crash(r) \/ OrderEnds(r) PROVE CreateInv'
    <2>1. CASE Begin(r) \/ TryLock(r) \/ FindBusy(r) \/ Find(r) \/ Claim(r) \/ Hold(r)
      BY Zenon, <2>1, BeginStep, TryLockStep, FindBusyStep, FindStep, ClaimStep, HoldStep
    <2>2. CASE insertHeld(r) \/ Release(r) \/ Unclaim(r) \/ Unlock(r) \/ Crash(r) \/ OrderEnds(r)
      BY Zenon, <2>2, InsertStep, ReleaseStep, UnclaimStep, UnlockStep, CrashStep, OrderEndsStep
    <2> QED
      BY Zenon, <1>1, <2>1, <2>2 DEF Step
  <1>2. CASE SaleOpens
    BY Zenon, <1>2, ClockStep DEF SaleOpens
  <1>3. ASSUME NEW j \in Tokens, TokenExpires(j) PROVE CreateInv'
    <2>1. live' \subseteq live
      BY Zenon, <1>3 DEF TokenExpires
    <2> QED
      BY Zenon, <1>3, <2>1, ClockStep DEF TokenExpires
  <1>4. CASE UNCHANGED vars
    BY Zenon, <1>4, ClockStep DEF vars
  <1> QED
    BY Zenon, <1>1, <1>2, <1>3, <1>4, ClaimLapsesStep, LockLapsesStep, HoldLapsesStep DEF Next

LEMMA CreateInvAlways == Spec => []CreateInv
  BY CreateInvInit, CreateInvStep, PTL DEF Spec

-----------------------------------------------------------------------------
(* What a caller can count on.                                             *)

(* The loser of the race for an Idempotency-Key finds the winner's order   *)
(* in its second round and never inserts again (the loop in create).       *)
THEOREM CreateLoserReplays == Spec => []LoserBecomesReplay
  <1>1. CreateInv => LoserBecomesReplay
    BY Zenon DEF CreateInv, RequestInv, RoundInv, LoserBecomesReplay
  <1> QED
    BY <1>1, CreateInvAlways, PTL

(* A request no fault has hit leaves neither lock nor claim nor hold when  *)
(* it is over, unless its order is there to own them (the deferred calls   *)
(* and releases of create).                                                *)
THEOREM CreateNoTrace == Spec => []NoTrace
  <1>1. CreateInv => NoTrace
    <2> SUFFICES ASSUME CreateInv, NEW r \in Requests, pc[r] = "done", ~WasHit(r)
                 PROVE  /\ lock[Key(r)] # r
                        /\ ~HasRow(r) => /\ Adm(r) # None => used[Adm(r)] # r
                                         /\ \A s \in Seats : ~HeldBy(seat[s], r)
      BY Zenon DEF NoTrace
    <2>0. RequestInv(r)
      BY Zenon DEF CreateInv
    <2>1. lock[Key(r)] # r
      BY Zenon, <2>0 DEF RequestInv, LockInv, Locked, Releasing
    <2>2. ~HasRow(r) /\ Adm(r) # None => used[Adm(r)] # r
      BY Zenon, <2>0 DEF RequestInv, ClaimInv, Claimers, Releasing
    <2>3. ~HasRow(r) => \A s \in Seats : ~HeldBy(seat[s], r)
      BY Zenon, <2>0 DEF RequestInv, SeatInv, Releasing
    <2> QED
      BY Zenon, <2>1, <2>2, <2>3
  <1> QED
    BY <1>1, CreateInvAlways, PTL

(* Why request r may give the answer c, o. *)
Reason(r, c, o) ==
  \/ c = "REPLAY" /\ o \in findByKey(r) \ {r} /\ requestHash(o) = requestHash(r)
  \/ c = "IDEMPOTENCY_KEY_REUSED" /\ \E q \in findByKey(r) : requestHash(q) # requestHash(r)
  \/ c = "SEATS_UNAVAILABLE" /\ pc[r] = "hold" /\ ~HasRow(r)
  \/ c \in Desk!Refusals \ {"SEATS_UNAVAILABLE"} /\ ~HasRow(r)
  \/ c \in {"ERROR", "TEMPORARILY_UNAVAILABLE"}

(* Request r decides its answer and leaves the orders alone. *)
Decides(r) ==
  row' = row /\ pc[r] \in Undecided /\ \E c, o : Answer(r, c, o) /\ Reason(r, c, o)

LEMMA RefusalCodes ==
  {"VALIDATION_ERROR", "ADMISSION_REQUIRED", "IDEMPOTENCY_KEY_IN_PROGRESS",
   "ADMISSION_ALREADY_USED", "ACTIVE_ORDER_EXISTS"} \subseteq Desk!Refusals \ {"SEATS_UNAVAILABLE"}
  BY DEF Desk!Refusals

LEMMA FoundReason ==
  ASSUME NEW r \in Requests, ~HasRow(r), NEW a \in Found(r)
  PROVE  Reason(r, a.code, a.order)
  <1>1. PICK o \in findByKey(r) :
          a = IF requestHash(o) = requestHash(r) THEN [code |-> "REPLAY", order |-> o]
                                                 ELSE [code |-> "IDEMPOTENCY_KEY_REUSED", order |-> None]
    BY Zenon DEF Found
  <1>2. o # r
    BY Zenon DEF findByKey
  <1>3. CASE requestHash(o) = requestHash(r)
    <2>1. a.code = "REPLAY" /\ a.order = o
      BY <1>1, <1>3
    <2> QED
      BY Zenon, <1>2, <1>3, <2>1 DEF Reason
  <1>4. CASE requestHash(o) # requestHash(r)
    <2>1. a.code = "IDEMPOTENCY_KEY_REUSED"
      BY <1>1, <1>4
    <2> QED
      BY Zenon, <1>4, <2>1 DEF Reason
  <1> QED
    BY Zenon, <1>3, <1>4

(* A request decides, creates its order, or keeps both to itself. *)
LEMMA StepDecides ==
  ASSUME CreateInv, NEW r \in Requests, Step(r) \/ Crash(r)
  PROVE  \/ Decides(r)
         \/ UNCHANGED <<row, answer>>
         \/ /\ pc[r] = "insert" /\ ~KeyConflict(r) /\ InsertHeldOrder(r)
            /\ Answer(r, "CREATED", r) \/ UNCHANGED answer
  <1>0. RequestInv(r)
    BY Zenon DEF CreateInv
  <1>1. ASSUME pc[r] \in Undecided, pc[r] # "release_error" PROVE ~HasRow(r)
    BY Zenon, <1>0, <1>1 DEF RequestInv, RowInv, Undecided, Releasing
  <1>2. ASSUME pc[r] \in Undecided, row' = row, NEW c, NEW o, Answer(r, c, o), c \in {"ERROR", "TEMPORARILY_UNAVAILABLE"}
        PROVE  Decides(r)
    BY Zenon, <1>2 DEF Decides, Reason
  <1>3. ASSUME pc[r] \in Undecided, pc[r] # "release_error", row' = row, NEW c, NEW o, Answer(r, c, o),
               c \in {"VALIDATION_ERROR", "ADMISSION_REQUIRED", "IDEMPOTENCY_KEY_IN_PROGRESS",
                      "ADMISSION_ALREADY_USED", "ACTIVE_ORDER_EXISTS"}
        PROVE  Decides(r)
    BY Zenon, <1>1, <1>3, RefusalCodes DEF Decides, Reason
  <1>4. ASSUME pc[r] \in {"busy", "find"}, row' = row, NEW a \in Found(r), Answer(r, a.code, a.order)
        PROVE  Decides(r)
    <2>1. pc[r] \in Undecided /\ pc[r] # "release_error"
      BY Zenon, <1>4 DEF Undecided
    <2> QED
      BY Zenon, <1>1, <1>4, <2>1, FoundReason DEF Decides
  <1>5. CASE Begin(r)
    <2>1. pc[r] = "idle" /\ pc[r] \in Undecided /\ row' = row
      BY Zenon, <1>5 DEF Begin, Undecided
    <2>2. UNCHANGED answer \/ Answer(r, "VALIDATION_ERROR", None) \/ Answer(r, "ADMISSION_REQUIRED", None)
      BY Zenon, <1>5 DEF Begin
    <2> QED
      BY Zenon, <1>3, <2>1, <2>2
  <1>6. CASE TryLock(r)
    <2>1. pc[r] \in Undecided /\ row' = row
      BY Zenon, <1>6 DEF TryLock, Undecided
    <2>2. UNCHANGED answer \/ Answer(r, "TEMPORARILY_UNAVAILABLE", None)
      BY Zenon, <1>6 DEF TryLock
    <2> QED
      BY Zenon, <1>2, <2>1, <2>2
  <1>7. CASE FindBusy(r)
    <2>1. pc[r] = "busy" /\ pc[r] \in Undecided /\ row' = row
      BY Zenon, <1>7 DEF FindBusy, Undecided
    <2>2. \/ \E a \in Found(r) : Answer(r, a.code, a.order)
          \/ Answer(r, "IDEMPOTENCY_KEY_IN_PROGRESS", None) \/ Answer(r, "ERROR", None)
      BY Zenon, <1>7 DEF FindBusy, Finish
    <2> QED
      BY Zenon, <1>2, <1>3, <1>4, <2>1, <2>2
  <1>8. CASE Find(r)
    <2>1. pc[r] = "find" /\ pc[r] \in Undecided /\ row' = row
      BY Zenon, <1>8 DEF Find, Undecided
    <2>2. (\E a \in Found(r) : Answer(r, a.code, a.order)) \/ UNCHANGED answer \/ Answer(r, "ERROR", None)
      BY Zenon, <1>8 DEF Find, Return
    <2> QED
      BY Zenon, <1>2, <1>4, <2>1, <2>2
  <1>9. CASE Claim(r)
    <2>1. pc[r] = "claim" /\ pc[r] \in Undecided /\ row' = row
      BY Zenon, <1>9 DEF Claim, Undecided
    <2>2. UNCHANGED answer \/ Answer(r, "ADMISSION_ALREADY_USED", None) \/ Answer(r, "TEMPORARILY_UNAVAILABLE", None)
      BY Zenon, <1>9 DEF Claim, Return
    <2> QED
      BY Zenon, <1>2, <1>3, <2>1, <2>2
  <1>10. CASE Hold(r)
    <2>1. pc[r] = "hold" /\ pc[r] \in Undecided /\ row' = row
      BY Zenon, <1>10 DEF Hold, Undecided
    <2>2. UNCHANGED answer \/ Answer(r, "SEATS_UNAVAILABLE", None) \/ Answer(r, "ERROR", None)
      BY Zenon, <1>10 DEF Hold, Return
    <2>3. Answer(r, "SEATS_UNAVAILABLE", None) => Decides(r)
      BY Zenon, <1>1, <2>1 DEF Decides, Reason
    <2> QED
      BY Zenon, <1>2, <2>1, <2>2, <2>3
  <1>11. CASE insertHeld(r)
    BY Zenon, <1>11 DEF insertHeld, Return
  <1>12. CASE Release(r)
    <2>1. pc[r] \in Undecided /\ row' = row
      BY Zenon, <1>12 DEF Release, Undecided, Releasing
    <2>2. UNCHANGED answer \/ (pc[r] = "release_active" /\ Answer(r, "ACTIVE_ORDER_EXISTS", None)) \/ Answer(r, "ERROR", None)
      BY Zenon, <1>12 DEF Release, Return
    <2> QED
      BY Zenon, <1>2, <1>3, <2>1, <2>2
  <1>13. CASE Unclaim(r) \/ Unlock(r) \/ Crash(r)
    BY Zenon, <1>13 DEF Unclaim, Unlock, Crash
  <1> QED
    BY Zenon, <1>5, <1>6, <1>7, <1>8, <1>9, <1>10, <1>11, <1>12, <1>13 DEF Step

(* What is not a step of a request decides nothing and creates nothing. *)
LEMMA AroundDecides ==
  ASSUME CreateInv, [Next]_vars, ~ \E r \in Requests : Step(r) \/ Crash(r)
  PROVE  UNCHANGED answer /\ \A r \in Requests : HasRow(r)' <=> HasRow(r)
  <1>1. CASE \E r \in Requests : OrderEnds(r)
    BY <1>1 DEF CreateInv, Shape, OrderEnds, HasRow
  <1>2. CASE UNCHANGED <<row, answer>>
    BY Zenon, <1>2 DEF HasRow
  <1> QED
    BY Zenon, <1>1, <1>2 DEF Next, SaleOpens, TokenExpires, ClaimLapses, LockLapses, HoldLapses, vars

(* SEATS_UNAVAILABLE is never the doing of the request's own               *)
(* Idempotency-Key (the lock and the lookup under it in create).           *)
THEOREM CreateNotOwnSeats == Spec => NotOwnSeats
  <1> DEFINE Fair(r) == answer[r] = NoAnswer /\ answer'[r].code = "SEATS_UNAVAILABLE" /\ ~Slow(r) => OwnSeats(r) = {}
  <1>1. ASSUME CreateInv, [Next]_vars, NEW r \in Requests PROVE Fair(r)
    <2> SUFFICES ASSUME answer[r] = NoAnswer, answer'[r].code = "SEATS_UNAVAILABLE", ~Slow(r) PROVE OwnSeats(r) = {}
      OBVIOUS
    <2>0. Shape /\ RequestInv(r)
      BY Zenon, <1>1 DEF CreateInv
    <2>1. answer'[r] # answer[r]
      BY DEF NoAnswer
    <2>2. Step(r) \/ Crash(r)
      <3>1. PICK q \in Requests : Step(q) \/ Crash(q)
        BY Zenon, <1>1, <2>1, AroundDecides
      <3>2. (\E c, o : Answer(q, c, o)) \/ UNCHANGED answer
        BY Zenon, <1>1, <3>1, StepDecides DEF Decides
      <3>3. q = r
        BY Zenon, <2>0, <2>1, <3>2, AnswerFacts
      <3> QED
        BY Zenon, <3>1, <3>3
    <2>3. pc[r] = "hold"
      <3>1. ASSUME NEW c, NEW o, Answer(r, c, o) PROVE c = "SEATS_UNAVAILABLE"
        <4>1. answer'[r] = [code |-> c, order |-> o]
          BY <2>0, <3>1 DEF Shape, Answer
        <4> QED
          BY <4>1
      <3>2. Decides(r)
        BY Zenon, <1>1, <2>1, <2>2, <3>1, StepDecides
      <3> QED
        BY Zenon, <3>1, <3>2 DEF Decides, Reason
    <2>4. ASSUME NEW s \in normalize(r), NEW o \in Requests \ {r}, Key(o) = Key(r), HeldBy(seat[s], o),
                 ~Slow(o), Running(o) \/ row[o] = "HELD"
          PROVE  FALSE
      <3>0. RequestInv(o)
        BY Zenon, <1>1 DEF CreateInv
      <3>1. lock[Key(r)] = r
        BY Zenon, <2>0, <2>3 DEF RequestInv, LockInv, Locked
      <3>2. pc[o] \notin Locked
        BY Zenon, <2>4, <3>0, <3>1 DEF RequestInv, LockInv
      <3>3. s \in Seats
        BY Zenon, <2>0, <2>3 DEF RequestInv, SeatInv, Running
      <3>4. ~HasRow(o)
        BY Zenon, <2>0, <2>3, <2>4 DEF RequestInv, FreshInv
      <3>5. pc[o] \notin {"idle", "lock", "busy"} /\ Running(o)
        BY <2>4, <3>0, <3>3, <3>4 DEF RequestInv, SeatInv, HasRow
      <3>6. pc[o] \in PCs
        BY Zenon, <2>0 DEF Shape
      <3> QED
        BY Zenon, <3>2, <3>5, <3>6 DEF PCs, Undecided, Locked, Running
    <2> QED
      BY Zenon, <2>4 DEF OwnSeats
  <1>2. CreateInv /\ [Next]_vars => [\A r \in Requests : Fair(r)]_vars
    BY Zenon, <1>1
  <1> QED
    BY <1>2, CreateInvAlways, PTL DEF Spec, NotOwnSeats

-----------------------------------------------------------------------------
(* Refinement: every step is a step of the desk, or none.                  *)

LEMMA DeskDecides ==
  ASSUME CreateInv, NEW r \in Requests, Decides(r)
  PROVE  Desk!Decide(r)
  <1>0. Shape /\ RequestInv(r)
    BY Zenon DEF CreateInv
  <1>1. PICK c, o : Answer(r, c, o) /\ Reason(r, c, o)
    BY Zenon DEF Decides
  <1>2. row' = row /\ answer[r] = NoAnswer
    BY Zenon, <1>0 DEF Decides, RequestInv, RowInv
  <1>3. answer'[r] = [code |-> c, order |-> o]
    BY <1>0, <1>1 DEF Shape, Answer
  <1>4. answer'[r].code = c /\ answer'[r].order = o
    BY <1>3
  <1>5. answer'[r] # NoAnswer
    BY <1>1, <1>4 DEF Reason, NoAnswer, Desk!Refusals
  <1>6. answer' = [answer EXCEPT ![r] = answer'[r]]
    BY Zenon, <1>1, <1>3 DEF Answer
  <1>7. {q \in Requests : HasRow(q)}' = {q \in Requests : HasRow(q)}
    BY Zenon, <1>2 DEF HasRow
  <1>8. Desk!Justified(r, answer'[r])
    <2>1. CASE c = "REPLAY" /\ o \in findByKey(r) \ {r} /\ requestHash(o) = requestHash(r)
      BY Zenon, <1>4, <2>1 DEF Desk!Justified, findByKey
    <2>2. CASE c = "IDEMPOTENCY_KEY_REUSED" /\ \E q \in findByKey(r) : requestHash(q) # requestHash(r)
      BY Zenon, <1>4, <2>2 DEF Desk!Justified, findByKey
    <2>3. CASE c \in Desk!Refusals /\ ~HasRow(r)
      BY Zenon, <1>4, <2>3 DEF Desk!Justified
    <2>4. CASE c \in {"ERROR", "TEMPORARILY_UNAVAILABLE"}
      BY Zenon, <1>4, <2>4 DEF Desk!Justified
    <2>5. "SEATS_UNAVAILABLE" \in Desk!Refusals
      BY Zenon DEF Desk!Refusals
    <2> QED
      BY Zenon, <1>1, <2>1, <2>2, <2>3, <2>4, <2>5 DEF Reason
  <1> QED
    BY Zenon, <1>2, <1>5, <1>6, <1>7, <1>8 DEF Desk!Decide

LEMMA DeskCreates ==
  ASSUME CreateInv, NEW r \in Requests, pc[r] = "insert", ~KeyConflict(r), InsertHeldOrder(r),
         Answer(r, "CREATED", r) \/ UNCHANGED answer
  PROVE  Desk!Create(r)
  <1>0. Shape /\ RequestInv(r)
    BY Zenon DEF CreateInv
  <1>1. ~HasRow(r) /\ answer[r] = NoAnswer
    BY Zenon, <1>0 DEF RequestInv, RowInv, Undecided
  <1>2. \A o \in Requests : HasRow(o) => Key(o) # Key(r)
    BY Zenon DEF KeyConflict
  <1>3. ASSUME Adm(r) # None, NEW o \in Requests, HasRow(o), Adm(o) = Adm(r) PROVE answer[o].code = "ERROR"
    <2>1. RequestInv(o)
      BY Zenon DEF CreateInv
    <2>2. used[Adm(r)] = r /\ Running(r)
      BY Zenon, <1>0, <1>3 DEF RequestInv, ClaimInv, Claimers, Admitters, Running
    <2> QED
      BY Zenon, <1>1, <1>3, <2>1, <2>2 DEF RequestInv, SpentInv
  <1>4. {q \in Requests : HasRow(q)}' = {q \in Requests : HasRow(q)} \cup {r}
    BY <1>0 DEF Shape, InsertHeldOrder, HasRow
  <1>5. Adm(r) = None \/ ~Desk!UsedUp(Adm(r))
    BY Zenon, <1>3 DEF Desk!UsedUp
  <1> QED
    BY Zenon, <1>1, <1>2, <1>4, <1>5 DEF Desk!Create, Answer

(* Service.create implements the order desk: at most one order for a key   *)
(* and for an admission, every success names it, a definite refusal        *)
(* created nothing.                                                        *)
THEOREM CreateRefinesDesk == Spec => ImplementsDesk
  <1>1. Init => Desk!Init
    BY Zenon DEF Init, Desk!Init, HasRow
  <1>2. CreateInv /\ [Next]_vars => [Desk!Next]_(Desk!deskVars)
    <2> SUFFICES ASSUME CreateInv, [Next]_vars PROVE Desk!Next \/ UNCHANGED Desk!deskVars
      BY Zenon
    <2>1. CASE ~ \E r \in Requests : Step(r) \/ Crash(r)
      BY Zenon, <2>1, AroundDecides DEF Desk!deskVars
    <2>2. ASSUME NEW r \in Requests, Step(r) \/ Crash(r) PROVE Desk!Next \/ UNCHANGED Desk!deskVars
      <3>1. CASE UNCHANGED <<row, answer>>
        BY Zenon, <3>1 DEF Desk!deskVars, HasRow
      <3> QED
        BY Zenon, <2>2, <3>1, StepDecides, DeskDecides, DeskCreates DEF Desk!Next
    <2> QED
      BY Zenon, <2>1, <2>2
  <1> QED
    BY <1>1, <1>2, CreateInvAlways, PTL DEF Spec, ImplementsDesk, Desk!Spec
=============================================================================
