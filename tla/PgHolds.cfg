SPECIFICATION FairSpec
CONSTANTS
  oa = oa ob = ob oc = oc
  None = None
  Seats = {1, 2, 3}
  Orders = {oa, ob, oc}
  SeatsOf <- MCSeatsOf
  Late = {oa, ob}
  Again = {oa}
  PoolSize = 4
  MaxTries = 2
INVARIANT TypeOK
PROPERTIES ImplementsInventory RequestsEnd
CHECK_DEADLOCK FALSE
