\* Two ticks to the second; the global burst exceeds the model limits.
CONSTANTS
  A = A
  C = C
  r1 = r1
  r2 = r2
  NoKey = NoKey
  Keys = {key}
  Requests <- MCRequests
  Models = {A, C}
  ModelLimits <- MCModelLimits
  Watched = A
  Cost = 2
  QPS = 1
  Burst = 4
  MaxClock = 3
SPECIFICATION AdmissionSpec
SYMMETRY RequestSymmetry
CHECK_DEADLOCK FALSE
INVARIANTS ModelRateBounded NeverTooMany SpendingExplained AuthExplained
PROPERTIES NeverTooFew ModelIsTokenBucket
