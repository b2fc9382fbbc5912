SPECIFICATION FairSpec
CONSTANTS
  oa = oa ob = ob ia = ia ca = ca
  None = None
  Seats = {1, 2}
  Batches = {{1}, {2}}
  Orders = {oa, ob}
  SeatsOf <- MCSeatsOf
  Instances = {ia}
  Clients = {ca}
  Faults = {"lapse", "bump"}
  MaxChanges = 3
  MaxFails = 1
INVARIANT NeverBehind
PROPERTY EventuallyCurrent
CHECK_DEADLOCK FALSE
