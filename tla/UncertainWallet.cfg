\* A claim request gives the wallet item back while the write is uncertain.
SPECIFICATION Spec
CONSTANTS
  Rewards = {r1}
  Workers = {w1, w2}
  Requests = {g1}
  Actors = {"guest"}
  Handled = {}
  LegacyPortal = {}
  MaxAttempts = 2
  BatchLimit = 2
  StaleLock = 1
  RetryWait = 1
  Quarantine = 2
  CallWindow = 1
  MaxClaims = 2
  MaxRevision = 2
  MaxCrashes = 1
INVARIANTS UncertainWalletStays
