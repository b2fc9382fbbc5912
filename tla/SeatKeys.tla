------------------------------ MODULE SeatKeys ------------------------------
(***************************************************************************)
(* The seat keys of the Redis inventory (internal/inventory/redis.go) and  *)
(* the three Lua scripts that write them.  A script runs atomically in     *)
(* Redis, so each one is an operator from the map of seat keys to the map  *)
(* it leaves behind.                                                       *)
(*                                                                         *)
(* A key is absent, "held:<order>" with a time to live, or "sold:<order>"  *)
(* for ever.  Seats are natural numbers: the scripts walk through an       *)
(* order's seats in seat_id order (ORDER BY seat_id in ListOrderSeats,     *)
(* sorted by normalize in a create request), and confirm.lua may stop half *)
(* way.                                                                    *)
(***************************************************************************)
EXTENDS Integers

CONSTANT None   \* the owner of an absent key

Absent == [kind |-> "absent", order |-> None, until |-> 0]

Held(o, until) == [kind |-> "held", order |-> o, until |-> until]

SoldTo(o) == [kind |-> "sold", order |-> o, until |-> 0]

HeldBy(key, o) == key.kind = "held" /\ key.order = o

SoldBy(key, o) == key.kind = "sold" /\ key.order = o

(* Mutant: hold.lua refuses only what another order holds. *)
TakenIgnoresSold(keys, seats, o) == {s \in seats : keys[s].kind = "held" /\ ~ HeldBy(keys[s], o)}

(* The seats hold.lua refuses: any value but this order's own hold. *)
Taken(keys, seats, o) == {s \in seats : keys[s].kind # "absent" /\ ~ HeldBy(keys[s], o)}

(* hold.lua once nothing is taken: every seat held by o, with a new time to *)
(* live.                                                                    *)
HoldSeats(keys, seats, o, until) ==
  [s \in DOMAIN keys |-> IF s \in seats THEN Held(o, until) ELSE keys[s]]

(* release.lua: delete a key only if this order holds it. *)
ReleaseSeats(keys, seats, o) ==
  [s \in DOMAIN keys |-> IF s \in seats /\ HeldBy(keys[s], o) THEN Absent ELSE keys[s]]

(* A key confirm.lua may turn into "sold". *)
Confirmable(key, o) == key.kind = "absent" \/ HeldBy(key, o) \/ SoldBy(key, o)

(* confirm.lua: sell the seats in order, stopping at the first key that     *)
(* belongs to another order; the keys already written stay sold.            *)
ConfirmSeats(keys, seats, o) ==
  [s \in DOMAIN keys |->
     IF s \in seats /\ \A r \in seats : r <= s => Confirmable(keys[r], o)
     THEN SoldTo(o)
     ELSE keys[s]]

(* The keys whose time to live has run out at time now are gone. *)
Lapse(keys, now) ==
  [s \in DOMAIN keys |-> IF keys[s].kind = "held" /\ keys[s].until < now THEN Absent ELSE keys[s]]

=============================================================================
