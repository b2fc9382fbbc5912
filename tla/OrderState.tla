----------------------------- MODULE OrderState -----------------------------
(***************************************************************************)
(* The order state machine of internal/order/state.go.  A status is a      *)
(* string; NoRow stands for an order that has no row in PostgreSQL.        *)
(***************************************************************************)

Status == {"HELD", "PAID", "TICKETED", "EXPIRED", "CANCELLED", "REFUNDING", "REFUNDED"}

NoRow == "NO_ROW"

(* The complete state machine, as a set of edges. *)
transitions ==
  { <<"HELD", "PAID">>, <<"HELD", "CANCELLED">>, <<"HELD", "EXPIRED">>, <<"HELD", "REFUNDING">>,
    <<"PAID", "TICKETED">>,
    <<"EXPIRED", "PAID">>, <<"EXPIRED", "REFUNDING">>,
    <<"CANCELLED", "REFUNDING">>,
    <<"REFUNDING", "REFUNDED">> }

CanTransition(from, to) == <<from, to>> \in transitions

(* The orders that have received money which was not given back. *)
Sold == {"PAID", "TICKETED"}

=============================================================================
