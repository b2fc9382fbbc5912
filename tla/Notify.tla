------------------------------- MODULE Notify -------------------------------
(***************************************************************************)
(* The consumer group "notifier" (platform/kafka/consume.go) reading what  *)
(* the relay publishes, and its handler (internal/notifier): look the      *)
(* event up among the notified ones, send the message, remember it, and    *)
(* commit the offsets once the polled batch is through.                    *)
(*                                                                         *)
(* A member's batch is the records between pos and end of each partition.  *)
(* A partition has at most one owner, but a member evicted in the middle   *)
(* of a batch goes on with it while the next owner reads the same records. *)
(***************************************************************************)
EXTENDS Relay

CONSTANTS
  Members,       \* members of the group
  NoMember,
  Notified,      \* the event types the handler wants
  MaxBlemishes,  \* bound: failures that may repeat a message
  MaxStops       \* bound: members that stop

ASSUME NotifyAssumption ==
  /\ NoMember \notin Members /\ IsFiniteSet(Members)
  /\ Notified \subseteq Kinds
  /\ MaxBlemishes \in Nat /\ MaxStops \in Nat

VARIABLES
  owner,      \* the member each partition is assigned to
  offset,     \* the committed offset of each partition
  member,     \* what each member is doing
  at,         \* the partition of the record it is handling
  pos,        \* how far it is in each partition
  end,        \* where its batch ends in each partition
  seen,       \* Redis: the notified:<DedupeKey> keys
  sent,       \* how often the message of each key was sent
  blemishes,  \* failures so far that may repeat a message
  stops       \* members stopped so far

group == <<owner, offset, member, at, pos, end, seen, sent, blemishes, stops>>
allVars == <<vars, group>>

(* What a message is about.  A kind names the event type and, for a        *)
(* refund, the payment.                                                    *)
Keys == Kinds \X Orders

NotifyInit ==
  /\ Init
  /\ owner = [l \in Logs |-> NoMember]
  /\ offset = [l \in Logs |-> 0]
  /\ member = [m \in Members |-> "down"]
  /\ at = [m \in Members |-> CHOOSE l \in Logs : TRUE]
  /\ pos = [m \in Members |-> [l \in Logs |-> 0]]
  /\ end = [m \in Members |-> [l \in Logs |-> 0]]
  /\ seen = {}
  /\ sent = [k \in Keys |-> 0]
  /\ blemishes = 0
  /\ stops = 0

-----------------------------------------------------------------------------
(* The group.                                                               *)

Join(m) ==
  /\ member[m] = "down"
  /\ member' = [member EXCEPT ![m] = "polling"]
  /\ UNCHANGED <<vars, owner, offset, at, pos, end, seen, sent, blemishes, stops>>

(* Mutant: ConsumeResetOffset at the end of the log. *)
StartAtEnd(l) == Len(log[l])

(* Where a member starts in a partition it is given. *)
StartAt(l) == offset[l]

Assign(m, l) ==
  /\ member[m] = "polling" /\ owner[l] = NoMember
  /\ owner' = [owner EXCEPT ![l] = m]
  /\ pos' = [pos EXCEPT ![m][l] = StartAt(l)]
  /\ end' = [end EXCEPT ![m][l] = StartAt(l)]
  /\ UNCHANGED <<vars, offset, member, at, seen, sent, blemishes, stops>>

(* A member forgets where it was in a partition it gives up. *)
Forget(m, ls) ==
  /\ pos' = [pos EXCEPT ![m] = [l \in Logs |-> IF l \in ls THEN 0 ELSE @[l]]]
  /\ end' = [end EXCEPT ![m] = [l \in Logs |-> IF l \in ls THEN 0 ELSE @[l]]]

(* A rebalance takes partitions only from a member between two batches     *)
(* (BlockRebalanceOnPoll).                                                 *)
Revoke(l) ==
  /\ owner[l] # NoMember /\ member[owner[l]] = "polling"
  /\ Forget(owner[l], {l})
  /\ owner' = [owner EXCEPT ![l] = NoMember]
  /\ UNCHANGED <<vars, offset, member, at, seen, sent, blemishes, stops>>

Abandoned(m) == [l \in Logs |-> IF owner[l] = m THEN NoMember ELSE owner[l]]

(* A batch outlasts the rebalance timeout: the member loses its partitions *)
(* and does not know it yet.                                               *)
Evict(m) ==
  /\ member[m] \in {"working", "sending", "marking"}
  /\ \E l \in Logs : owner[l] = m
  /\ blemishes < MaxBlemishes
  /\ blemishes' = blemishes + 1
  /\ owner' = Abandoned(m)
  /\ UNCHANGED <<vars, offset, member, at, pos, end, seen, sent, stops>>

(* The member stops, by a signal or by dying: the batch is not committed.  *)
(* Only between Send and Mark can that repeat a message.                   *)
Leave(m) ==
  /\ member[m] # "down"
  /\ stops < MaxStops
  /\ stops' = stops + 1
  /\ IF member[m] = "marking"
       THEN blemishes < MaxBlemishes /\ blemishes' = blemishes + 1
       ELSE UNCHANGED blemishes
  /\ owner' = Abandoned(m)
  /\ member' = [member EXCEPT ![m] = "down"]
  /\ Forget(m, Logs)
  /\ UNCHANGED <<vars, offset, at, seen, sent>>

-----------------------------------------------------------------------------
(* Consume.                                                                 *)

(* PollFetches: some of the records the member has not read yet. *)
Poll(m) ==
  /\ member[m] = "polling"
  /\ \E upto \in [Logs -> UNION {0..Len(log[l]) : l \in Logs}] :
       /\ \A l \in Logs : upto[l] \in IF owner[l] = m THEN pos[m][l]..Len(log[l]) ELSE {pos[m][l]}
       /\ upto # pos[m]
       /\ end' = [end EXCEPT ![m] = upto]
  /\ member' = [member EXCEPT ![m] = "working"]
  /\ UNCHANGED <<vars, owner, offset, at, pos, seen, sent, blemishes, stops>>

Rest(m) == {l \in Logs : pos[m][l] < end[m][l]}

Record(m, l) == log[l][pos[m][l] + 1]

DedupeKey(i) == <<kind[i], order[i]>>

Advance(m, l) == pos' = [pos EXCEPT ![m][l] = @ + 1]

(* The handler skips other event types, and Notify the ones seen already;  *)
(* an unseen one is about to be sent.                                      *)
Handle(m, l) ==
  /\ member[m] = "working" /\ l \in Rest(m)
  /\ LET i == Record(m, l) IN
       IF kind[i] \notin Notified \/ DedupeKey(i) \in seen
         THEN Advance(m, l) /\ UNCHANGED <<member, at>>
         ELSE /\ member' = [member EXCEPT ![m] = "sending"]
              /\ at' = [at EXCEPT ![m] = l]
              /\ UNCHANGED pos
  /\ UNCHANGED <<vars, owner, offset, end, seen, sent, blemishes, stops>>

(* The message goes out, or fails and the record is tried again from the   *)
(* start; the answer of a message that did go out may be lost.             *)
Send(m) ==
  /\ member[m] = "sending"
  /\ LET k == DedupeKey(Record(m, at[m])) IN
       \/ /\ sent' = [sent EXCEPT ![k] = @ + 1]
          /\ member' = [member EXCEPT ![m] = "marking"]
          /\ UNCHANGED blemishes
       \/ /\ member' = [member EXCEPT ![m] = "working"]
          /\ UNCHANGED <<sent, blemishes>>
       \/ /\ blemishes < MaxBlemishes
          /\ blemishes' = blemishes + 1
          /\ sent' = [sent EXCEPT ![k] = @ + 1]
          /\ member' = [member EXCEPT ![m] = "working"]
  /\ UNCHANGED <<vars, owner, offset, at, pos, end, seen, stops>>

(* Mutant: the mark is forgotten. *)
MarkedNothing(m) == seen

Remembered(m) == seen \cup {DedupeKey(Record(m, at[m]))}

(* A failed Mark is only logged. *)
Mark(m) ==
  /\ member[m] = "marking"
  /\ \/ seen' = Remembered(m) /\ UNCHANGED blemishes
     \/ blemishes < MaxBlemishes /\ blemishes' = blemishes + 1 /\ UNCHANGED seen
  /\ Advance(m, at[m])
  /\ member' = [member EXCEPT ![m] = "working"]
  /\ UNCHANGED <<vars, owner, offset, at, end, sent, stops>>

(* The group coordinator refuses a commit for partitions the member lost. *)
Committable(m) == {l \in Logs : owner[l] = m}

(* Mutant: the batch is committed before it is through. *)
BatchDoneEarly(m) == member[m] = "working"

BatchDone(m) == member[m] = "working" /\ Rest(m) = {}

(* The offsets of the whole batch; a failure is only logged, and may have  *)
(* had its effect.                                                         *)
CommitUncommittedOffsets(m) ==
  /\ BatchDone(m)
  /\ \/ offset' = [l \in Logs |-> IF l \in Committable(m) THEN end[m][l] ELSE offset[l]]
     \/ UNCHANGED offset
  /\ member' = [member EXCEPT ![m] = "polling"]
  /\ Forget(m, {l \in Logs : owner[l] # m})
  /\ UNCHANGED <<vars, owner, at, seen, sent, blemishes, stops>>

Process(m) == Send(m) \/ Mark(m) \/ CommitUncommittedOffsets(m) \/ \E l \in Logs : Handle(m, l)

GroupNext ==
  \/ \E m \in Members : Join(m) \/ Evict(m) \/ Leave(m) \/ Poll(m) \/ Process(m)
  \/ \E l \in Logs : Revoke(l) \/ \E m \in Members : Assign(m, l)

NotifyNext == GroupNext \/ (RelayNext /\ UNCHANGED group)

NotifySpec == NotifyInit /\ [][NotifyNext]_allVars

(* The coordinator assigns every partition, members are restarted and keep *)
(* polling, and sends and commits that are tried again and again do not    *)
(* fail for ever.                                                          *)
GroupFairness ==
  /\ \A m \in Members :
       /\ WF_allVars(Join(m)) /\ SF_allVars(Poll(m)) /\ WF_allVars(Process(m))
       /\ SF_allVars(Send(m) /\ member'[m] = "marking")
       /\ SF_allVars(CommitUncommittedOffsets(m) /\ offset' # offset)
  /\ \A l \in Logs : SF_allVars(\E m \in Members : Assign(m, l))

NotifyFairSpec == NotifySpec /\ RelayFairness /\ GroupFairness

-----------------------------------------------------------------------------
(* Properties.                                                              *)

Told(i) == kind[i] \in Notified /\ sent[DedupeKey(i)] > 0

(* No message is lost: whatever the group has committed was told to the    *)
(* buyer, however members fail, overlap and repeat each other (Consume     *)
(* commits after the whole polled batch succeeded).                        *)
CommittedMeansTold ==
  \A l \in Logs : \A n \in 1..offset[l] : kind[log[l][n]] \in Notified => Told(log[l][n])

(* Nobody is told twice because a commit failed, a member stopped or a     *)
(* rebalance gave the batch to another member, so that a record is handled *)
(* again; that takes one of the failures Notify's comments name, and each  *)
(* repeats a message at most once.                                         *)
RepeatsCounted == \A k \in Keys : sent[k] <= 1 + blemishes

(* Every ticket.issued or order.refunded event that is committed is told   *)
(* in the end: from some point on, all of them are.                        *)
EventuallyTold ==
  <>[](\A i \in Ids : Committed(i) /\ kind[i] \in Notified => Told(i))
=============================================================================
