------------------------------- MODULE MCRelay -------------------------------
(***************************************************************************)
(* Values for the constants of Relay: two orders whose keys fall on one    *)
(* partition, and the two topics.                                          *)
(***************************************************************************)
EXTENDS Relay, TLC

CONSTANTS o1, o2, ra, rb

MCTopicOf == [k \in Kinds |-> IF k = "ticket.issued" THEN "tickets.v1" ELSE "orders.v1"]
MCPartitionOf == [o \in Orders |-> 0]
Symmetry == Permutations(Relays) \cup Permutations(Orders)
=============================================================================
