------------------------------ MODULE Inventory ------------------------------
(***************************************************************************)
(* The contract of the seat inventory (the interface in                    *)
(* internal/inventory/inventory.go): each call acts on all seats of an     *)
(* order at once, Hold takes all of them or none, Release and the end of a *)
(* hold touch only the order's own, and a sold seat stays sold.            *)
(***************************************************************************)
EXTENDS SeatKeys

CONSTANTS Seats, Orders, SeatsOf

VARIABLE keys

HeldAll(o) == \A s \in SeatsOf[o] : HeldBy(keys[s], o)

Init == keys = [s \in Seats |-> Absent]

Hold(o) ==
  /\ Taken(keys, SeatsOf[o], o) = {}
  /\ keys' = HoldSeats(keys, SeatsOf[o], o, 0)

(* Release, or the end of the hold's time to live. *)
Free(o) == keys' = ReleaseSeats(keys, SeatsOf[o], o)

(* Seats are sold to the order that holds them. *)
Sell(o) ==
  /\ HeldAll(o)
  /\ keys' = ConfirmSeats(keys, SeatsOf[o], o)

Next == \E o \in Orders : Hold(o) \/ Free(o) \/ Sell(o)

Spec == Init /\ [][Next]_keys
=============================================================================
