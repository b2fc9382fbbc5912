------------------------------ MODULE MCNotify ------------------------------
(***************************************************************************)
(* Values for the constants of Notify.                                     *)
(***************************************************************************)
EXTENDS Notify

CONSTANTS o1, ra, m1, m2

MCTopicOf == [k \in Kinds |-> IF k = "ticket.issued" THEN "tickets.v1" ELSE "orders.v1"]
MCPartitionOf == [o \in Orders |-> 0]
=============================================================================
