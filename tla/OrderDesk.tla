------------------------------ MODULE OrderDesk ------------------------------
(***************************************************************************)
(* What POST /v1/orders promises its callers: an Idempotency-Key creates   *)
(* at most one order, and so does an admission, unless the caller is told  *)
(* that nothing is certain; every successful answer to a key names that    *)
(* order, and only requests with the same body get one; a definite refusal *)
(* created nothing.  No locks, no claims, no seats.                        *)
(***************************************************************************)
CONSTANTS
  Requests,
  Scope,       \* the scope of each request's Idempotency-Key
  Body,        \* what each request asks for
  Admission,   \* the admission of each request, or NoAdmission
  NoAdmission,
  NoAnswer

VARIABLES
  made,        \* the requests whose order was created
  decided      \* the answer to each request, sent or about to be

deskVars == <<made, decided>>

(* The refusals that leave no trace.  ERROR and TEMPORARILY_UNAVAILABLE     *)
(* promise nothing.                                                         *)
Refusals ==
  { "VALIDATION_ERROR", "ADMISSION_REQUIRED", "IDEMPOTENCY_KEY_IN_PROGRESS",
    "ADMISSION_ALREADY_USED", "SEATS_UNAVAILABLE", "ACTIVE_ORDER_EXISTS" }

Init ==
  /\ made = {}
  /\ decided = [r \in Requests |-> NoAnswer]

(* An order uses up its admission, unless its request ends with ERROR. *)
UsedUp(a) == \E o \in made : Admission[o] = a /\ decided[o].code # "ERROR"

(* A request creates its order; that it did may be lost on the way to it. *)
Create(r) ==
  /\ r \notin made
  /\ decided[r] = NoAnswer
  /\ \A o \in made : Scope[o] # Scope[r]
  /\ Admission[r] = NoAdmission \/ ~UsedUp(Admission[r])
  /\ made' = made \cup {r}
  /\ \/ decided' = [decided EXCEPT ![r] = [code |-> "CREATED", order |-> r]]
     \/ UNCHANGED decided

Justified(r, a) ==
  \/ a.code = "REPLAY" /\ a.order \in made \ {r} /\ Scope[a.order] = Scope[r] /\ Body[a.order] = Body[r]
  \/ a.code = "IDEMPOTENCY_KEY_REUSED" /\ \E o \in made : Scope[o] = Scope[r] /\ Body[o] # Body[r]
  \/ a.code \in Refusals /\ r \notin made
  \/ a.code \in {"ERROR", "TEMPORARILY_UNAVAILABLE"}

Decide(r) ==
  /\ decided[r] = NoAnswer
  /\ decided'[r] # NoAnswer
  /\ Justified(r, decided'[r])
  /\ decided' = [decided EXCEPT ![r] = decided'[r]]
  /\ UNCHANGED made

Next == \E r \in Requests : Create(r) \/ Decide(r)

Spec == Init /\ [][Next]_deskVars
=============================================================================
