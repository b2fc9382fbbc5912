SPECIFICATION NotifyFairSpec
CONSTANTS
  o1 = o1 ra = ra m1 = m1 m2 = m2
  NoOrder = NoOrder
  NoMember = NoMember
  Orders = {o1}
  Kinds = {"order.paid", "order.refunded"}
  Topics = {"orders.v1"}
  TopicOf <- MCTopicOf
  Partitions = {0}
  PartitionOf <- MCPartitionOf
  Relays = {ra}
  BatchSize = 2
  MaxRelays = 1
  MaxEvents = 2
  MaxFaults = 0
  LocksLinger = FALSE
  Members = {m1, m2}
  Notified = {"order.refunded"}
  MaxBlemishes = 1
  MaxStops = 1
INVARIANTS CommittedMeansTold RepeatsCounted
PROPERTY EventuallyTold
CHECK_DEADLOCK FALSE
