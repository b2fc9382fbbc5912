---------------------------- MODULE MCCreateOrder ----------------------------
(***************************************************************************)
(* Values for the constants of CreateOrder.  r1 and r2 are one request     *)
(* sent twice with the seats in another order; r3 reuses the key for one   *)
(* of the seats, after another turn in the waiting room; r4 is the same    *)
(* buyer's next try, with a new key and the first admission.               *)
(***************************************************************************)
EXTENDS CreateOrder, TLC

CONSTANTS r1, r2, r3, r4, j1, j2

MCSeats   == {1, 2, 3}
MCUserOf  == [r \in Requests |-> "ann"]
MCKeyOf   == [r \in Requests |-> IF r = r4 THEN "k2" ELSE "k1"]
MCSeatIDs == [r \in Requests |-> CASE r = r1 -> <<1, 2>> [] r = r2 -> <<2, 1>> [] r = r3 -> <<1>> [] OTHER -> <<3>>]
MCTokenOf == [r \in Requests |-> IF r = r3 THEN j2 ELSE j1]
MCOwnerOf == [j \in Tokens |-> "ann"]

(* r1 and r2 ask for the same seats: only the order they are sent in       *)
(* differs, and a request is normalized before anything depends on it.     *)
Symmetry == Permutations({r1, r2})
=============================================================================
