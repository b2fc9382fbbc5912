SPECIFICATION FairSpec
CONSTANTS
  t1 = t1 u1 = u1 wa = wa wb = wb
  NoQid = NoQid
  NoUser = NoUser
  NoWorker = NoWorker
  Tabs = {t1}
  UserOf <- MCUserOf
  Workers = {wa, wb}
  Qids = {1, 2}
  Batch = 2
  MaxAborts = 1
INVARIANTS NobodyLost FirstComeFirstServed OnePlace
PROPERTIES EventuallyServed StreamEnds
CHECK_DEADLOCK FALSE
