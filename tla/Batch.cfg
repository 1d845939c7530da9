\* Batches of two rewards, one with an old portal-domain failure and one that staff redeem, edit and restart.
SPECIFICATION Spec
CONSTANTS
  Rewards = {r1, r2}
  Workers = {w1, w2}
  Requests = {g1}
  Actors = {"redeem", "update", "restart"}
  Handled = {r1}
  LegacyPortal = {r2}
  MaxAttempts = 2
  BatchLimit = 2
  StaleLock = 1
  RetryWait = 1
  Quarantine = 2
  CallWindow = 1
  MaxClaims = 1
  MaxRevision = 2
  MaxCrashes = 0
SYMMETRY ProcessSymmetry
INVARIANTS PayInv
