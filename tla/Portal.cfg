\* Two requests of a guest under wallet upkeep, deadlines and retention.
SPECIFICATION Spec
CONSTANTS
  Rewards = {r1}
  Workers = {w1, w2}
  Requests = {g1, g2}
  Actors = {"guest", "operator", "portal", "time", "retention"}
  Handled = {}
  LegacyPortal = {}
  MaxAttempts = 2
  BatchLimit = 2
  StaleLock = 1
  RetryWait = 1
  Quarantine = 2
  CallWindow = 1
  MaxClaims = 2
  MaxRevision = 2
  MaxCrashes = 0
SYMMETRY ProcessSymmetry
INVARIANTS NoDeliveryWithoutClaim AcceptedDeliveryKept RowsAgree
