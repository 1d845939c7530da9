\* A loot-box reward that waits for approval; staff change it twice, the import may find it misclassified.
SPECIFICATION Spec
CONSTANTS
  Workers = {w1, w2}
  Intents = {i1}
  Cases = {i1}
  Manual = {i1}
  BadPlans = {}
  Sources = {"ready", "pending", "ambiguous"}
  MaxAttempts = 1
  MaxCrashes = 0
  MaxUpdates = 2
SYMMETRY WorkerSymmetry
INVARIANT CaseIsApproved
PROPERTIES NothingAfterMarker LeaseIsRespected SettledIsFinal
