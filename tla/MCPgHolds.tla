------------------------------ MODULE MCPgHolds ------------------------------
(***************************************************************************)
(* Values for the constants of PgHolds: three orders whose seats overlap   *)
(* in a ring.                                                              *)
(***************************************************************************)
EXTENDS PgHolds

CONSTANTS oa, ob, oc

MCSeatsOf == [o \in Orders |-> CASE o = oa -> {1, 2} [] o = ob -> {2, 3} [] OTHER -> {1, 3}]
=============================================================================
