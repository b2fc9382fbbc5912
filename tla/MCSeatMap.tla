------------------------------ MODULE MCSeatMap ------------------------------
(***************************************************************************)
(* Values for the constants of SeatMap: two orders that want seat 2, one   *)
(* of them seat 1 before it, so that its confirm can stop half way; each   *)
(* seat is in an MGET of its own.                                          *)
(***************************************************************************)
EXTENDS SeatMap

CONSTANTS oa, ob, ia, ca

MCSeatsOf == [o \in Orders |-> IF o = oa THEN {1, 2} ELSE {2}]
=============================================================================
