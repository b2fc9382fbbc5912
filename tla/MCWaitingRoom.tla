---------------------------- MODULE MCWaitingRoom ----------------------------
(***************************************************************************)
(* Values for the constants of WaitingRoom: one user, who may join again   *)
(* after closing the tab, and two instances.                               *)
(***************************************************************************)
EXTENDS WaitingRoom

CONSTANTS t1, u1, wa, wb

MCUserOf == [t \in Tabs |-> u1]
=============================================================================
