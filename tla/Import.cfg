\* Two worker runs of a day and a manual import, two batches each.
SPECIFICATION FairSpec
CONSTANTS
  Workers = {w1, w2}
  Manual = {m1}
  Days = {d1}
  Batches = 2
  None = None
INVARIANTS DayImportedOnce FencedWrites
PROPERTY LockIsReleased
CHECK_DEADLOCK FALSE
