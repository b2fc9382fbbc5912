SPECIFICATION FairSpec
CONSTANTS
  None = None
  o1 = o1 o2 = o2 t1 = t1 t2 = t2 t3 = t3 d1 = d1 d2 = d2
  Orders = {o1, o2}
  Seats <- MCSeats
  Txns = {t1, t2}
  Deliveries = {d1}
  Workers = {w1}
  SeatsOf <- MCSeatsOf
  UserOf <- OneUser
  OrderOf <- MCOrderOf
  HoldTTL = 0
  HoldGrace = 9
  LateHoldTTL = 0
  BatchSize = 2
  MaxDelay = 9
  MaxClock = 1
  MayFail = FALSE
PROPERTIES PaymentSettled RefundingEnds OverdueLeavesHeld SeatsComeBack
CHECK_DEADLOCK FALSE
