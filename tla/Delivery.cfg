\* Two workers, a crash, an operator and a tenant that may be suspended; nobody waits for ever.
SPECIFICATION FairSpec
CONSTANTS
  Rewards = {r1}
  Workers = {w1, w2}
  Requests = {g1}
  Actors = {"operator", "tenant"}
  Handled = {}
  LegacyPortal = {}
  MaxAttempts = 2
  BatchLimit = 2
  StaleLock = 1
  RetryWait = 1
  Quarantine = 2
  CallWindow = 1
  MaxClaims = 2
  MaxRevision = 2
  MaxCrashes = 1
INVARIANTS AtMostOnceCredit ConfirmedIsCredited OpenCallIsParked
PROPERTIES StaleWorkerIsHarmless PaysOnce DispatchingEnds AbandonedClaimIsRetried
