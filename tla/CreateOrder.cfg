SPECIFICATION Spec
CONSTANTS
  None = None
  r1 = r1 r2 = r2 r3 = r3 r4 = r4 j1 = j1 j2 = j2
  Requests = {r1, r2, r3, r4}
  Tokens = {j1, j2}
  Seats <- MCSeats
  UserOf <- MCUserOf
  KeyOf <- MCKeyOf
  SeatIDs <- MCSeatIDs
  TokenOf <- MCTokenOf
  OwnerOf <- MCOwnerOf
  RequireAdmission = TRUE
  MaxSeatsPerOrder = 2
  Faults = {"crash", "refuse", "lost", "commit", "slow"}
  MaxHit = 1
INVARIANTS NoTrace LoserBecomesReplay
PROPERTIES NotOwnSeats ImplementsDesk
SYMMETRY Symmetry
CHECK_DEADLOCK FALSE
