------------------------------ MODULE MCBooking ------------------------------
(***************************************************************************)
(* Values for the constants of Booking: two orders that share a seat, two  *)
(* transactions for the first and one for the second.                      *)
(***************************************************************************)
EXTENDS Booking, TLC

CONSTANTS o1, o2, t1, t2, t3, d1, d2

MCSeats   == {1, 2}
MCSeatsOf == [o \in Orders |-> IF o = o1 THEN {1, 2} ELSE {2}]
TwoUsers  == [o \in Orders |-> IF o = o1 THEN "ann" ELSE "bob"]
OneUser   == [o \in Orders |-> "ann"]
MCOrderOf == [t \in Txns |-> IF t = t3 THEN o2 ELSE o1]

(* Webhook requests are interchangeable. *)
Requests == Permutations(Deliveries)
=============================================================================
