SPECIFICATION Spec
CONSTANTS
  None = None
  o1 = o1 o2 = o2 t1 = t1 t2 = t2 t3 = t3 d1 = d1 d2 = d2
  Orders = {o1}
  Seats <- MCSeats
  Txns = {t1, t2}
  Deliveries = {d1, d2}
  Workers = {w1}
  SeatsOf <- MCSeatsOf
  UserOf <- TwoUsers
  OrderOf <- MCOrderOf
  HoldTTL = 1
  HoldGrace = 0
  LateHoldTTL = 1
  BatchSize = 1
  MaxDelay = 9
  MaxClock = 3
  MayFail = TRUE
INVARIANT RefundDecidesOrder
PROPERTY ImplementsTicketSale
CHECK_DEADLOCK FALSE
SYMMETRY Requests
