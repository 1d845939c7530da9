\* Three winners of a board, two prizes issued per pass, a fault and a retry.
SPECIFICATION FairSpec
CONSTANTS
  Boards = {b1}
  Profiles = {p1, p2, p3}
  PRIZE_BATCH = 2
  MaxFaults = 1
  MaxRetries = 1
INVARIANTS PrizeOnce IssuedIsBacked
PROPERTIES FrozenForGood PendingResolves
