SPECIFICATION Spec
CONSTANTS
  o1 = o1 o2 = o2 ra = ra rb = rb
  NoOrder = NoOrder
  Orders = {o1, o2}
  Kinds = {"order.paid", "ticket.issued"}
  Topics = {"orders.v1", "tickets.v1"}
  TopicOf <- MCTopicOf
  Partitions = {0}
  PartitionOf <- MCPartitionOf
  Relays = {ra, rb}
  BatchSize = 2
  MaxRelays = 2
  MaxEvents = 3
  MaxFaults = 2
  LocksLinger = TRUE
INVARIANTS EventsExact NoCopies OrderKept
SYMMETRY Symmetry
CHECK_DEADLOCK FALSE
