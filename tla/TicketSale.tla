----------------------------- MODULE TicketSale -----------------------------
(***************************************************************************)
(* What booking promises, without saying how: an order is sold at most     *)
(* once, for one payment, and only while no sold order has any of its      *)
(* seats; every other payment that moved money is owed back, and what was  *)
(* given back was owed.  No holds, no clock, no Redis, no events.          *)
(* ADR-003: "either the buyer has the tickets, or gets the money back".    *)
(***************************************************************************)
CONSTANTS
  Orders, Txns,
  SeatsOf,    \* the seats of each order
  OrderOf     \* the order each transaction pays for

VARIABLES
  sold,       \* the orders whose tickets were handed over
  money       \* what became of the money of each transaction

saleVars == <<sold, money>>

MoneyState == {"unseen", "nothing", "bought", "owed", "repaid"}

Init ==
  /\ sold = {}
  /\ money = [t \in Txns |-> "unseen"]

(* The payment buys all the seats of its order. *)
Buy(t) ==
  /\ money[t] = "unseen"
  /\ OrderOf[t] \notin sold
  /\ \A o \in sold : SeatsOf[o] \cap SeatsOf[OrderOf[t]] = {}
  /\ sold' = sold \cup {OrderOf[t]}
  /\ money' = [money EXCEPT ![t] = "bought"]

(* The payment moved money that buys nothing. *)
Owe(t) ==
  /\ money[t] = "unseen"
  /\ money' = [money EXCEPT ![t] = "owed"]
  /\ UNCHANGED sold

(* The payment failed: no money moved. *)
Ignore(t) ==
  /\ money[t] = "unseen"
  /\ money' = [money EXCEPT ![t] = "nothing"]
  /\ UNCHANGED sold

Repay(t) ==
  /\ money[t] = "owed"
  /\ money' = [money EXCEPT ![t] = "repaid"]
  /\ UNCHANGED sold

Next == \E t \in Txns : Buy(t) \/ Owe(t) \/ Ignore(t) \/ Repay(t)

Spec == Init /\ [][Next]_saleVars

=============================================================================
