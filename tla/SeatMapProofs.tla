---------------------------- MODULE SeatMapProofs ----------------------------
(***************************************************************************)
(* A proof that no copy of the seat map is left behind (NeverBehind), for  *)
(* any seats, MGET batches, orders, instances, clients and faults.         *)
(*                                                                         *)
(* The argument is the one of versionETag's comment, made inductive: the   *)
(* claim also has to be made for a load half way through its MGETs, about  *)
(* the batches it has read so far.                                         *)
(***************************************************************************)
EXTENDS SeatMap, TLAPS

Statuses == {"AVAILABLE", "HELD", "SOLD"}
Maps == [Seats -> Statuses]

(* The shape of the variables and the bounds on the tags. *)
Shape ==
  /\ DOMAIN keys = Seats
  /\ version \in Nat /\ pending \in Nat /\ silent \in Int
  /\ load \in [Instances -> [step : {"idle", "event", "version", "seats"}, etag : Int,
                             map : Maps, left : SUBSET Batches]]
  /\ entry \in [Instances -> [etag : Int, map : Maps, fresh : BOOLEAN]]
  /\ client \in [Clients -> [etag : Int, map : Maps]]
  /\ \A i \in Instances : load[i].etag <= version /\ entry[i].etag <= version
  /\ \A c \in Clients : client[c].etag <= version

(* A tag that needs no excuse: the version will pass it, or the last       *)
(* change had no INCR.                                                     *)
Passed(etag) == etag < version + pending \/ version + pending <= silent

(* A load that has read a seat which has changed since has a tag that is   *)
(* passed.                                                                 *)
LoadsPassed ==
  \A i \in Instances : load[i].step = "seats" =>
    \A b \in Batches \ load[i].left : \A s \in b :
      load[i].map[s] # StatusOf(s) => Passed(load[i].etag)

CopiesPassed ==
  /\ \A i \in Instances : entry[i].etag # NoTag /\ entry[i].map # Now => Passed(entry[i].etag)
  /\ \A c \in Clients : client[c].etag # NoTag /\ client[c].map # Now => Passed(client[c].etag)

SeatMapInv == Shape /\ LoadsPassed /\ CopiesPassed

-----------------------------------------------------------------------------
LEMMA InvInit == Init => SeatMapInv
  <1> SUFFICES ASSUME Init PROVE SeatMapInv
    OBVIOUS
  <1>1. Blank \in Maps
    BY Zenon DEF Blank, Maps, Statuses
  <1>2. Idle \in [step : {"idle", "event", "version", "seats"}, etag : Int, map : Maps, left : SUBSET Batches]
    BY <1>1 DEF Idle, NoTag
  <1>3. Shape
    BY <1>1, <1>2 DEF Init, Shape, Idle, NoTag
  <1> QED
    BY Zenon, <1>3 DEF Init, SeatMapInv, LoadsPassed, CopiesPassed, Idle, NoTag

(* Every status the code knows is one of the three. *)
LEMMA StatusType == ASSUME NEW s PROVE StatusOf(s) \in Statuses
  BY Zenon DEF StatusOf, Statuses

(* What is at most the version is below any higher sum of version and      *)
(* pending INCRs.                                                          *)
LEMMA BelowSum ==
  ASSUME NEW e \in Int, NEW v \in Nat, NEW p \in Nat, NEW w \in Nat, NEW q \in Nat, e <= v, v + p < w + q
  PROVE  e < w + q
  OBVIOUS

(* Redis has changed, or may have: as long as all tags stay passed or the  *)
(* statuses stay the same, the copies need no more.                        *)
LEMMA RedisStep ==
  ASSUME SeatMapInv, UNCHANGED <<load, entry, client>>,
         DOMAIN keys' = Seats, version' \in Nat, pending' \in Nat, silent' \in Int,
         version <= version',
         \/ version + pending < version' + pending'
         \/ version' + pending' <= silent'
         \/ /\ \A s \in Seats : StatusOf(s)' = StatusOf(s)
            /\ version' + pending' = version + pending
            /\ silent' = silent
  PROVE  SeatMapInv'
  <1>1. Shape'
    BY DEF SeatMapInv, Shape
  <1>2. CASE version + pending < version' + pending' \/ version' + pending' <= silent'
    <2>1. ASSUME NEW e \in Int, e <= version PROVE Passed(e)'
      <3>1. version \in Nat /\ pending \in Nat /\ version' \in Nat /\ pending' \in Nat /\ silent' \in Int
        BY Zenon DEF SeatMapInv, Shape
      <3>2. version + pending < version' + pending' => e < version' + pending'
        BY Zenon, <2>1, <3>1, BelowSum
      <3> QED
        BY Zenon, <1>2, <3>2 DEF Passed
    <2>2. LoadsPassed'
      BY Zenon, <2>1 DEF LoadsPassed, SeatMapInv, Shape
    <2>3. CopiesPassed'
      BY Zenon, <2>1 DEF CopiesPassed, SeatMapInv, Shape
    <2> QED
      BY Zenon, <1>1, <2>2, <2>3 DEF SeatMapInv
  <1>3. CASE /\ \A s \in Seats : StatusOf(s)' = StatusOf(s)
             /\ version' + pending' = version + pending
             /\ silent' = silent
    <2>1. Now' = Now
      BY Zenon, <1>3 DEF Now
    <2>2. \A e : Passed(e)' <=> Passed(e)
      BY Zenon, <1>3 DEF Passed
    <2>3. \A b \in Batches : b \subseteq Seats
      BY Zenon, SeatMapAssumption
    <2>4. LoadsPassed'
      BY Zenon, <1>3, <2>2, <2>3 DEF LoadsPassed, SeatMapInv
    <2>5. CopiesPassed'
      BY Zenon, <2>1, <2>2 DEF CopiesPassed, SeatMapInv
    <2> QED
      BY Zenon, <1>1, <2>4, <2>5 DEF SeatMapInv
  <1> QED
    BY Zenon, <1>2, <1>3

(* hold.lua, release.lua and confirm.lua. *)
LEMMA ScriptStep ==
  ASSUME SeatMapInv, NEW o \in Orders, Hold(o) \/ Release(o) \/ Confirm(o)
  PROVE  SeatMapInv'
  <1> USE DEF SeatMapInv, Shape
  <1>1. CASE Hold(o)
    <2>1. DOMAIN keys' = Seats
      BY Zenon, <1>1 DEF Hold, Script, HoldSeats
    <2> QED
      BY <1>1, <2>1, RedisStep DEF Hold, Script
  <1>2. CASE Confirm(o)
    <2>1. DOMAIN keys' = Seats
      BY Zenon, <1>2 DEF Confirm, Script, ConfirmSeats
    <2>2. CASE ConfirmBumps(o)
      BY <1>2, <2>1, <2>2, RedisStep DEF Confirm, Script
    <2>3. CASE ~ConfirmBumps(o) /\ keys' = keys
      <3>1. \A s \in Seats : StatusOf(s)' = StatusOf(s)
        BY Zenon, <2>3 DEF StatusOf
      <3> QED
        BY <1>2, <2>1, <2>3, <3>1, RedisStep DEF Confirm, Script
    <2>4. CASE ~ConfirmBumps(o) /\ keys' # keys
      BY <1>2, <2>1, <2>4, RedisStep DEF Confirm, Script
    <2> QED
      BY Zenon, <2>2, <2>3, <2>4
  <1>3. CASE Release(o)
    <2>1. DOMAIN keys' = Seats
      BY Zenon, <1>3 DEF Release, Script, ReleaseSeats
    <2>2. CASE ReleaseBumps(o)
      BY <1>3, <2>1, <2>2, RedisStep DEF Release, Script
    <2>3. CASE ~ReleaseBumps(o)
      <3>1. \A s \in Seats : keys'[s] = keys[s]
        BY Zenon, <1>3, <2>3 DEF Release, Script, ReleaseSeats, ReleaseBumps
      <3>2. \A s \in Seats : StatusOf(s)' = StatusOf(s)
        BY Zenon, <3>1 DEF StatusOf
      <3> QED
        BY <1>3, <2>1, <2>3, <3>2, RedisStep DEF Release, Script
    <2> QED
      BY Zenon, <2>2, <2>3
  <1> QED
    BY Zenon, <1>1, <1>2, <1>3

(* The INCR, the INCR that fails, and a hold that lapses. *)
LEMMA VersionStep ==
  ASSUME SeatMapInv, bumpVersion \/ BumpFails \/ \E s \in Seats : HoldLapses(s)
  PROVE  SeatMapInv'
  <1> USE DEF SeatMapInv, Shape
  <1>1. CASE bumpVersion
    <2>1. \A s \in Seats : StatusOf(s)' = StatusOf(s)
      BY Zenon, <1>1 DEF bumpVersion, StatusOf
    <2> QED
      BY <1>1, <2>1, RedisStep DEF bumpVersion
  <1>2. CASE BumpFails
    BY <1>2, RedisStep DEF BumpFails
  <1>3. ASSUME NEW s \in Seats, HoldLapses(s) PROVE SeatMapInv'
    BY <1>3, RedisStep DEF HoldLapses
  <1> QED
    BY Zenon, <1>1, <1>2, <1>3

(* A load up to its first MGET, and one that ends without a result. *)
LEMMA LoadStarts ==
  ASSUME SeatMapInv, NEW i \in Instances,
         StartLoad(i) \/ LoadEvent(i) \/ SeatMapVersion(i) \/ LoadFails(i)
  PROVE  SeatMapInv'
  <1>a. Blank \in Maps
    BY Zenon DEF Blank, Maps, Statuses
  <1>b. UNCHANGED <<keys, version, pending, silent, entry, client>>
    BY Zenon DEF StartLoad, LoadEvent, SeatMapVersion, LoadFails
  <1>c. UNCHANGED Now /\ \A s \in Seats : StatusOf(s)' = StatusOf(s)
    BY Zenon, <1>b DEF Now, StatusOf
  <1>d. \A e : Passed(e)' <=> Passed(e)
    BY Zenon, <1>b DEF Passed
  <1> DEFINE Loads == [step : {"idle", "event", "version", "seats"}, etag : Int,
                       map : Maps, left : SUBSET Batches]
  <1>1. PICK x \in Loads : /\ load' = [load EXCEPT ![i] = x]
                           /\ x.etag <= version
                           /\ x.step = "seats" => x.left = Batches
    <2>1. CASE StartLoad(i)
      <3> DEFINE x == [load[i] EXCEPT !.step = IF layout[i] THEN "version" ELSE "event"]
      <3>1. x \in Loads /\ x.etag <= version /\ x.step # "seats"
        BY DEF SeatMapInv, Shape
      <3>2. load' = [load EXCEPT ![i] = x]
        BY Zenon, <2>1 DEF StartLoad
      <3> QED
        BY Zenon, <3>1, <3>2
    <2>2. CASE LoadEvent(i)
      <3> DEFINE x == [load[i] EXCEPT !.step = "version"]
      <3>1. x \in Loads /\ x.etag <= version /\ x.step # "seats"
        BY Zenon DEF SeatMapInv, Shape
      <3>2. load' = [load EXCEPT ![i] = x]
        BY Zenon, <2>2 DEF LoadEvent
      <3> QED
        BY Zenon, <3>1, <3>2
    <2>3. CASE SeatMapVersion(i)
      <3> DEFINE x == [load[i] EXCEPT !.step = "seats", !.etag = version, !.left = Batches]
      <3>0. load[i] \in Loads /\ version \in Int /\ version <= version /\ Batches \in SUBSET Batches
        BY DEF SeatMapInv, Shape
      <3>1. x \in Loads /\ x.etag <= version /\ x.left = Batches
        BY Zenon, <3>0
      <3>2. load' = [load EXCEPT ![i] = x]
        BY Zenon, <2>3 DEF SeatMapVersion
      <3> QED
        BY Zenon, <3>1, <3>2
    <2>4. CASE LoadFails(i)
      <3>1. Idle \in Loads /\ Idle.etag <= version /\ Idle.step # "seats"
        BY <1>a DEF SeatMapInv, Shape, Idle, NoTag
      <3> QED
        BY Zenon, <2>4, <3>1 DEF LoadFails
    <2> QED
      BY Zenon, <2>1, <2>2, <2>3, <2>4
  <1>2. Shape'
    BY Zenon, <1>b, <1>1 DEF SeatMapInv, Shape
  <1>3. LoadsPassed'
    <2> SUFFICES ASSUME NEW j \in Instances, load'[j].step = "seats",
                        NEW b \in Batches \ load'[j].left, NEW s \in b,
                        load'[j].map[s] # StatusOf(s)'
                 PROVE  Passed(load[j].etag)'
      BY Zenon DEF LoadsPassed
    <2>1. load'[j] = load[j] /\ s \in Seats
      BY Zenon, <1>1, SeatMapAssumption DEF SeatMapInv, Shape
    <2> QED
      BY <1>c, <1>d, <2>1 DEF LoadsPassed, SeatMapInv
  <1>4. CopiesPassed'
    BY Zenon, <1>b, <1>c, <1>d DEF CopiesPassed, SeatMapInv
  <1> QED
    BY Zenon, <1>2, <1>3, <1>4 DEF SeatMapInv

(* One MGET: what it reads is right at this moment. *)
LEMMA StatusStep ==
  ASSUME SeatMapInv, NEW i \in Instances, NEW b \in Batches, Status(i, b)
  PROVE  SeatMapInv'
  <1>b. UNCHANGED <<keys, version, pending, silent, entry, client>>
    BY Zenon DEF Status
  <1>c. UNCHANGED Now /\ \A s \in Seats : StatusOf(s)' = StatusOf(s)
    BY Zenon, <1>b DEF Now, StatusOf
  <1>d. \A e : Passed(e)' <=> Passed(e)
    BY Zenon, <1>b DEF Passed
  <1>e. b \subseteq Seats
    BY Zenon, SeatMapAssumption
  <1> DEFINE m == [s \in Seats |-> IF s \in b THEN StatusOf(s) ELSE load[i].map[s]]
  <1>f. load' = [load EXCEPT ![i].left = load[i].left \ {b}, ![i].map = m]
    BY Zenon DEF Status, SeatMapInv, Shape
  <1>g. m \in Maps
    BY StatusType DEF SeatMapInv, Shape, Maps
  <1> HIDE DEF m
  <1>1. Shape'
    <2> DEFINE Loads == [step : {"idle", "event", "version", "seats"}, etag : Int,
                         map : Maps, left : SUBSET Batches]
    <2>1. load' \in [Instances -> Loads]
      <3>1. load \in [Instances -> Loads]
        BY Zenon DEF SeatMapInv, Shape
      <3>2. [load[i] EXCEPT !.left = load[i].left \ {b}, !.map = m] \in Loads
        BY Zenon, <1>g, <3>1
      <3> HIDE DEF Loads
      <3> QED
        BY <1>f, <3>1, <3>2
    <2>2. \A j \in Instances : load'[j].etag = load[j].etag
      BY <1>f DEF SeatMapInv, Shape
    <2> QED
      BY Zenon, <1>b, <2>1, <2>2 DEF SeatMapInv, Shape
  <1>2. LoadsPassed'
    <2> SUFFICES ASSUME NEW j \in Instances, load'[j].step = "seats",
                        NEW d \in Batches \ load'[j].left, NEW s \in d,
                        load'[j].map[s] # StatusOf(s)'
                 PROVE  Passed(load[j].etag)'
      BY Zenon DEF LoadsPassed
    <2>1. s \in Seats
      BY Zenon, SeatMapAssumption
    <2>2. CASE j # i
      <3>1. load'[j] = load[j]
        BY Zenon, <1>f, <2>2 DEF SeatMapInv, Shape
      <3> QED
        BY Zenon, <1>c, <1>d, <2>1, <3>1 DEF LoadsPassed, SeatMapInv
    <2>3. CASE j = i
      <3>1. /\ load'[i].map = m /\ load'[i].etag = load[i].etag
            /\ load'[i].left = load[i].left \ {b} /\ load[i].step = "seats"
        BY <1>f DEF SeatMapInv, Shape, Status
      <3>2. s \notin b /\ load[i].map[s] # StatusOf(s)
        BY Zenon, <1>c, <2>1, <2>3, <3>1 DEF m
      <3>3. d \in Batches \ load[i].left
        BY Zenon, <2>3, <3>1, <3>2
      <3> QED
        BY Zenon, <1>d, <2>3, <3>1, <3>2, <3>3 DEF LoadsPassed, SeatMapInv
    <2> QED
      BY Zenon, <2>2, <2>3
  <1>3. CopiesPassed'
    BY Zenon, <1>b, <1>c, <1>d DEF CopiesPassed, SeatMapInv
  <1> QED
    BY Zenon, <1>1, <1>2, <1>3 DEF SeatMapInv

(* The load is done and its map is cached. *)
LEMMA StoreStep ==
  ASSUME SeatMapInv, NEW i \in Instances, Store(i)
  PROVE  SeatMapInv'
  <1>a. Blank \in Maps
    BY Zenon DEF Blank, Maps, Statuses
  <1>b. UNCHANGED <<keys, version, pending, silent, client>>
    BY Zenon DEF Store
  <1>c. UNCHANGED Now /\ \A s \in Seats : StatusOf(s)' = StatusOf(s)
    BY Zenon, <1>b DEF Now, StatusOf
  <1>d. \A e : Passed(e)' <=> Passed(e)
    BY Zenon, <1>b DEF Passed
  <1>e. Idle \in [step : {"idle", "event", "version", "seats"}, etag : Int, map : Maps, left : SUBSET Batches]
    BY <1>a DEF Idle, NoTag
  <1>f. load' = [load EXCEPT ![i] = Idle]
        /\ entry' = [entry EXCEPT ![i] = [etag |-> load[i].etag, map |-> load[i].map, fresh |-> TRUE]]
    BY Zenon DEF Store, versionETag
  <1>1. Shape'
    BY <1>b, <1>e, <1>f DEF SeatMapInv, Shape, Idle, NoTag
  <1>2. LoadsPassed'
    <2> SUFFICES ASSUME NEW j \in Instances, load'[j].step = "seats",
                        NEW d \in Batches \ load'[j].left, NEW s \in d,
                        load'[j].map[s] # StatusOf(s)'
                 PROVE  Passed(load[j].etag)'
      BY Zenon DEF LoadsPassed
    <2>1. load'[j] = load[j] /\ s \in Seats
      BY Zenon, <1>f, SeatMapAssumption DEF SeatMapInv, Shape, Idle
    <2> QED
      BY Zenon, <1>c, <1>d, <2>1 DEF LoadsPassed, SeatMapInv
  <1>3. load[i].map # Now => Passed(load[i].etag)
    <2> SUFFICES ASSUME load[i].map # Now PROVE Passed(load[i].etag)
      OBVIOUS
    <2>1. load[i].map \in Maps /\ load[i].step = "seats" /\ load[i].left = {}
      BY Zenon DEF SeatMapInv, Shape, Store
    <2>2. PICK s \in Seats : load[i].map[s] # StatusOf(s)
      BY Zenon, <2>1 DEF Now, Maps
    <2>3. PICK b \in Batches : s \in b
      BY Zenon, SeatMapAssumption
    <2> QED
      BY Zenon, <2>1, <2>2, <2>3 DEF LoadsPassed, SeatMapInv
  <1>4. CopiesPassed'
    <2>1. \A j \in Instances : entry'[j].etag # NoTag /\ entry'[j].map # Now => Passed(entry'[j].etag)
      BY Zenon, <1>3, <1>f DEF CopiesPassed, SeatMapInv, Shape
    <2> QED
      BY Zenon, <1>b, <1>c, <1>d, <2>1 DEF CopiesPassed, SeatMapInv
  <1> QED
    BY Zenon, <1>1, <1>2, <1>4 DEF SeatMapInv

(* An entry expires, or a client takes it over with its tag. *)
LEMMA CopyStep ==
  ASSUME SeatMapInv, NEW i \in Instances, Expire(i) \/ \E c \in Clients : GetSeats(c, i)
  PROVE  SeatMapInv'
  <1>b. UNCHANGED <<keys, version, pending, silent, load>>
    BY Zenon DEF Expire, GetSeats
  <1>c. UNCHANGED Now /\ \A s \in Seats : StatusOf(s)' = StatusOf(s)
    BY Zenon, <1>b DEF Now, StatusOf
  <1>d. \A e : Passed(e)' <=> Passed(e)
    BY Zenon, <1>b DEF Passed
  <1>1. Shape'
    <2>1. CASE Expire(i)
      BY Zenon, <1>b, <2>1 DEF SeatMapInv, Shape, Expire
    <2>2. ASSUME NEW c \in Clients, GetSeats(c, i) PROVE Shape'
      BY <1>b, <2>2 DEF SeatMapInv, Shape, GetSeats
    <2> QED
      BY Zenon, <2>1, <2>2
  <1>2. LoadsPassed'
    <2>1. \A d \in Batches : d \subseteq Seats
      BY Zenon, SeatMapAssumption
    <2> QED
      BY Zenon, <1>b, <1>c, <1>d, <2>1 DEF LoadsPassed, SeatMapInv
  <1>3. CopiesPassed'
    <2>1. \A j \in Instances : entry'[j].etag = entry[j].etag /\ entry'[j].map = entry[j].map
      BY DEF Expire, GetSeats, SeatMapInv, Shape
    <2>2. \A c \in Clients : \/ client'[c] = client[c]
                             \/ client'[c].etag = entry[i].etag /\ client'[c].map = entry[i].map
      BY DEF Expire, GetSeats, SeatMapInv, Shape
    <2> QED
      BY <1>c, <1>d, <2>1, <2>2 DEF CopiesPassed, SeatMapInv
  <1> QED
    BY Zenon, <1>1, <1>2, <1>3 DEF SeatMapInv

LEMMA InvStep == SeatMapInv /\ [Next]_vars => SeatMapInv'
  <1> SUFFICES ASSUME SeatMapInv, [Next]_vars PROVE SeatMapInv'
    OBVIOUS
  <1>1. ASSUME NEW o \in Orders, Hold(o) \/ Release(o) \/ Confirm(o) PROVE SeatMapInv'
    BY Zenon, <1>1, ScriptStep
  <1>2. CASE bumpVersion \/ BumpFails \/ \E s \in Seats : HoldLapses(s)
    BY Zenon, <1>2, VersionStep
  <1>3. ASSUME NEW i \in Instances, Loading(i) \/ LoadFails(i) PROVE SeatMapInv'
    BY Zenon, <1>3, LoadStarts, StatusStep, StoreStep DEF Loading
  <1>4. ASSUME NEW i \in Instances, Expire(i) \/ \E c \in Clients : GetSeats(c, i) PROVE SeatMapInv'
    BY Zenon, <1>4, CopyStep
  <1>5. CASE UNCHANGED vars
    BY <1>5 DEF vars, SeatMapInv, Shape, LoadsPassed, CopiesPassed, Passed, Now, StatusOf
  <1> QED
    BY Zenon, <1>1, <1>2, <1>3, <1>4, <1>5 DEF Next

(* A client or an instance that shows an old seat map has a tag that the   *)
(* version has passed or is about to pass (versionETag in                  *)
(* seatmap_cache.go, SeatMap in catalog.go), whatever the MGET batches,    *)
(* the interleaving of loads with holds and the faults are, as long as the *)
(* last change of the seats was followed by its INCR.                      *)
THEOREM SeatMapNeverBehind == Spec => []NeverBehind
  <1>1. SeatMapInv => NeverBehind
    <2> SUFFICES ASSUME SeatMapInv, silent < version + pending,
                        NEW x, x.etag \in Int,
                        x.etag # NoTag /\ x.map # Now => Passed(x.etag)
                 PROVE  ~Behind(x)
      BY Zenon DEF SeatMapInv, Shape, CopiesPassed, NeverBehind
    <2> QED
      BY DEF SeatMapInv, Shape, Passed, Behind
  <1> QED
    BY <1>1, InvInit, InvStep, PTL DEF Spec
=============================================================================
