------------------------------ MODULE MCFakePay ------------------------------
(***************************************************************************)
(* Values for the constants of FakePay: oa and ob are orders of booking,   *)
(* oz has a total of 0, which the gateway refuses, and ox is an id that    *)
(* booking does not know.                                                  *)
(***************************************************************************)
EXTENDS FakePay

CONSTANTS oz

MCAmountOf == [o \in Orders |-> IF o = oz THEN 0 ELSE 5]
=============================================================================
