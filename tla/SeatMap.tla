------------------------------- MODULE SeatMap -------------------------------
(***************************************************************************)
(* The seat map buyers poll (cmd/booking/seatmap_cache.go and api.go,      *)
(* internal/catalog, internal/inventory/redis.go).  A script that changed  *)
(* seat keys is followed by an INCR of the version, except a confirm that  *)
(* stops half way; each booking instance renders the map once per TTL,     *)
(* tagged with the version it read before the seats, and answers 304 to a  *)
(* client that already has that tag.                                       *)
(***************************************************************************)
EXTENDS SeatKeys, FiniteSets

CONSTANTS
  Seats,        \* natural numbers
  Batches,      \* the sets of seats one MGET reads (statusBatchSize)
  Orders,
  SeatsOf,      \* the seats of each order
  Instances,    \* booking processes
  Clients,
  Faults,       \* "lapse": a hold ends by its time to live;
                \* "bump": the INCR fails, or is skipped because the reply of a
                \* release was lost and its retry found nothing to release
  MaxChanges,   \* bound: runs of the scripts
  MaxFails      \* bound: loads that fail

ASSUME SeatMapAssumption ==
  /\ Seats \subseteq Nat
  /\ UNION Batches = Seats
  /\ SeatsOf \in [Orders -> SUBSET Seats]
  /\ None \notin Orders
  /\ Faults \subseteq {"lapse", "bump"}
  /\ MaxChanges \in Nat /\ MaxFails \in Nat

VARIABLES
  keys,      \* the seat keys
  version,   \* seatmap:{eid}:version
  pending,   \* scripts that changed seats and whose INCR is still to come
  layout,    \* has the catalog of each instance loaded the event?
  load,      \* the load in flight of each instance (singleflight)
  entry,     \* its cached map
  client,    \* the map each client shows
  silent,    \* what the version was to become at the last change without INCR
  changes, fails

vars == <<keys, version, pending, layout, load, entry, client, silent, changes, fails>>

(* statusOf, for every seat. *)
StatusOf(s) == CASE keys[s].kind = "sold" -> "SOLD" [] keys[s].kind = "held" -> "HELD" [] OTHER -> "AVAILABLE"

Now == [s \in Seats |-> StatusOf(s)]

Blank == [s \in Seats |-> "AVAILABLE"]
NoTag == -1   \* nothing cached, or no If-None-Match

Idle == [step |-> "idle", etag |-> NoTag, map |-> Blank, left |-> {}]

Init ==
  /\ keys = [s \in Seats |-> Absent]
  /\ version = 0 /\ pending = 0
  /\ layout = [i \in Instances |-> FALSE]
  /\ load = [i \in Instances |-> Idle]
  /\ entry = [i \in Instances |-> [etag |-> NoTag, map |-> Blank, fresh |-> FALSE]]
  /\ client = [c \in Clients |-> [etag |-> NoTag, map |-> Blank]]
  /\ silent = NoTag
  /\ changes = 0 /\ fails = 0

-----------------------------------------------------------------------------
(* The inventory.                                                           *)

(* A script ran and left k behind; bump says whether the code goes on to   *)
(* bumpVersion, quiet whether keys changed that never get one.             *)
Script(k, bump, quiet) ==
  /\ changes < MaxChanges
  /\ changes' = changes + 1
  /\ keys' = k
  /\ pending' = IF bump THEN pending + 1 ELSE pending
  /\ silent' = IF quiet THEN version + pending ELSE silent
  /\ UNCHANGED <<version, layout, load, entry, client, fails>>

Hold(o) ==
  /\ Taken(keys, SeatsOf[o], o) = {}
  /\ Script(HoldSeats(keys, SeatsOf[o], o, 0), TRUE, FALSE)

(* Mutant: Release does not bump. *)
ReleaseBumpsNever(o) == FALSE

ReleaseBumps(o) == \E s \in SeatsOf[o] : HeldBy(keys[s], o)

Release(o) == Script(ReleaseSeats(keys, SeatsOf[o], o), ReleaseBumps(o), FALSE)

(* ErrConfirmMismatch returns before bumpVersion. *)
ConfirmBumps(o) == \A s \in SeatsOf[o] : Confirmable(keys[s], o)

(* confirm.lua stops at a seat of another order; the seats before it are   *)
(* sold by then.                                                           *)
Confirm(o) ==
  LET k == ConfirmSeats(keys, SeatsOf[o], o) IN
  \/ ConfirmBumps(o) /\ Script(k, TRUE, FALSE)
  \/ ~ConfirmBumps(o) /\ Script(k, FALSE, k # keys)

bumpVersion ==
  /\ pending > 0
  /\ pending' = pending - 1
  /\ version' = version + 1
  /\ UNCHANGED <<keys, layout, load, entry, client, silent, changes, fails>>

BumpFails ==
  /\ "bump" \in Faults
  /\ pending > 0
  /\ pending' = pending - 1
  /\ silent' = version + pending'
  /\ UNCHANGED <<keys, version, layout, load, entry, client, changes, fails>>

HoldLapses(s) ==
  /\ "lapse" \in Faults
  /\ keys[s].kind = "held"
  /\ keys' = [keys EXCEPT ![s] = Absent]
  /\ silent' = version + pending
  /\ UNCHANGED <<version, pending, layout, load, entry, client, changes, fails>>

-----------------------------------------------------------------------------
(* An instance: seatMapCache.get, renderSeatMap and catalog.SeatMap.        *)

(* A request finds no fresh entry; the others wait for the same load. *)
StartLoad(i) ==
  /\ ~entry[i].fresh
  /\ load[i].step = "idle"
  /\ load' = [load EXCEPT ![i].step = IF layout[i] THEN "version" ELSE "event"]
  /\ UNCHANGED <<keys, version, pending, layout, entry, client, silent, changes, fails>>

(* Service.Event, cached for good. *)
LoadEvent(i) ==
  /\ load[i].step = "event"
  /\ layout' = [layout EXCEPT ![i] = TRUE]
  /\ load' = [load EXCEPT ![i].step = "version"]
  /\ UNCHANGED <<keys, version, pending, entry, client, silent, changes, fails>>

SeatMapVersion(i) ==
  /\ load[i].step = "version"
  /\ load' = [load EXCEPT ![i] = [@ EXCEPT !.step = "seats", !.etag = version, !.left = Batches]]
  /\ UNCHANGED <<keys, version, pending, layout, entry, client, silent, changes, fails>>

(* One MGET of Redis.Status; other clients may run between two of them. *)
Status(i, b) ==
  /\ load[i].step = "seats" /\ b \in load[i].left
  /\ load' = [load EXCEPT ![i].left = @ \ {b},
               ![i].map = [s \in Seats |-> IF s \in b THEN StatusOf(s) ELSE load[i].map[s]]]
  /\ UNCHANGED <<keys, version, pending, layout, entry, client, silent, changes, fails>>

(* Mutant: the version is read after the seats. *)
versionETagLate(i) == version

versionETag(i) == load[i].etag

(* The load is done: the entry is fresh for a TTL from here. *)
Store(i) ==
  /\ load[i].step = "seats" /\ load[i].left = {}
  /\ entry' = [entry EXCEPT ![i] = [etag |-> versionETag(i), map |-> load[i].map, fresh |-> TRUE]]
  /\ load' = [load EXCEPT ![i] = Idle]
  /\ UNCHANGED <<keys, version, pending, layout, client, silent, changes, fails>>

LoadFails(i) ==
  /\ load[i].step # "idle"
  /\ fails < MaxFails
  /\ fails' = fails + 1
  /\ load' = [load EXCEPT ![i] = Idle]
  /\ UNCHANGED <<keys, version, pending, layout, entry, client, silent, changes>>

Expire(i) ==
  /\ entry[i].fresh
  /\ entry' = [entry EXCEPT ![i].fresh = FALSE]
  /\ UNCHANGED <<keys, version, pending, layout, load, client, silent, changes, fails>>

etagMatches(c, i) == client[c].etag = entry[i].etag

(* handleGetSeats: 304, or the body and its tag. *)
GetSeats(c, i) ==
  /\ entry[i].fresh
  /\ ~etagMatches(c, i)
  /\ client' = [client EXCEPT ![c] = [etag |-> entry[i].etag, map |-> entry[i].map]]
  /\ UNCHANGED <<keys, version, pending, layout, load, entry, silent, changes, fails>>

Loading(i) == StartLoad(i) \/ LoadEvent(i) \/ SeatMapVersion(i) \/ Store(i) \/ \E b \in Batches : Status(i, b)

Next ==
  \/ \E o \in Orders : Hold(o) \/ Release(o) \/ Confirm(o)
  \/ bumpVersion \/ BumpFails
  \/ \E s \in Seats : HoldLapses(s)
  \/ \E i \in Instances : Loading(i) \/ LoadFails(i) \/ Expire(i) \/ \E c \in Clients : GetSeats(c, i)

Spec == Init /\ [][Next]_vars

(* The INCR follows its script, entries expire and clients poll an         *)
(* instance, which loads what is not fresh.                                *)
Fairness ==
  /\ WF_vars(bumpVersion)
  /\ \A i \in Instances : WF_vars(Loading(i)) /\ WF_vars(Expire(i))
  /\ \A c \in Clients : SF_vars(\E i \in Instances : GetSeats(c, i))

FairSpec == Spec /\ Fairness

-----------------------------------------------------------------------------
(* Properties.                                                              *)

Behind(x) == x.etag # NoTag /\ x.map # Now /\ x.etag >= version + pending

(* A copy of the map that is out of date carries a tag the version has     *)
(* passed, or is about to pass once the INCRs under way are done (the      *)
(* argument of versionETag's and SeatMap's comments).  A change without    *)
(* INCR (a lapsed hold, a failed INCR, a confirm that stopped half way)    *)
(* breaks this only until the next change with one.                        *)
NeverBehind ==
  silent < version + pending =>
    /\ \A i \in Instances : ~Behind(entry[i])
    /\ \A c \in Clients : ~Behind(client[c])

(* Once the seats no longer change, every client that goes on polling      *)
(* shows the map as it is, unless the last change was one without INCR.    *)
EventuallyCurrent ==
  <>[](silent < version + pending => \A c \in Clients : client[c].map = Now)
=============================================================================
