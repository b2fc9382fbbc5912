SPECIFICATION Spec
CONSTANTS
  None = None
  o1 = o1 o2 = o2 t1 = t1 t2 = t2 t3 = t3 d1 = d1 d2 = d2
  Orders = {o1, o2}
  Seats <- MCSeats
  Txns = {t1, t3}
  Deliveries = {d1, d2}
  Workers = {w1}
  SeatsOf <- MCSeatsOf
  UserOf <- TwoUsers
  OrderOf <- MCOrderOf
  HoldTTL = 1
  HoldGrace = 2
  LateHoldTTL = 1
  BatchSize = 1
  MaxDelay = 1
  MaxClock = 5
  MayFail = FALSE
INVARIANTS SoldSeatsStayTaken HoldCoversPayment NoSeatConflictRefund
SYMMETRY Requests
CHECK_DEADLOCK FALSE
