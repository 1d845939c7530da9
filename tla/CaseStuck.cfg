\* Two requests and one upkeep run around the item's deadline.
SPECIFICATION BusySpec
CONSTANTS
  Openers = {o1, o2}
  Sweepers = {}
  Keepers = {k1}
  Prizes = {x}
  None = None
  MaxAttempts = 1
  MaxReads = 1
PROPERTY CaseResolves
CHECK_DEADLOCK FALSE
