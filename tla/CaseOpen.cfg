\* Two requests of a guest, a run of the materializer and an upkeep on one case with two possible prizes.
SPECIFICATION FairSpec
CONSTANTS
  Openers = {o1, o2}
  Sweepers = {s1}
  Keepers = {k1}
  Prizes = {x, y}
  None = None
  MaxAttempts = 2
  MaxReads = 1
INVARIANTS OneRoll RowsTogether
PROPERTIES  ReservationResolves
CHECK_DEADLOCK FALSE
