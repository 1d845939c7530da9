\* A bonus reward beside an intent whose plan does not parse; a crash, leases that are taken over.
SPECIFICATION FairSpec
CONSTANTS
  Workers = {w1, w2}
  Intents = {i1, i2}
  Cases = {}
  Manual = {}
  BadPlans = {i2}
  Sources = {"ready"}
  MaxAttempts = 2
  MaxCrashes = 1
  MaxUpdates = 0
INVARIANT ResultBehindApplied
PROPERTIES LeaseIsRespected QueueSettles
