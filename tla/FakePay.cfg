SPECIFICATION FairSpec
CONSTANTS
  oz = oz
  None = None
  Orders = {oa, ob, oz, ox}
  Booked = {oa, ob, oz}
  AmountOf <- MCAmountOf
  Txns = {t1}
  Pollers = {p}
  MaxLinks = 1
  MaxCopies = 2
  MaxResends = 1
  MaxOutages = 1
  MaxRestarts = 1
INVARIANTS TypeOK LinkIsPayable DeliveredMeansRecorded RefundedOnce
PROPERTY EventuallyRecorded
CHECK_DEADLOCK FALSE
