\* Every configuration of up to two entries over three models.
CONSTANTS
  Models = {m1, m2, m3}
  Providers = {p1, p2}
  DetectProvider <- MCDetectProvider
  NoName = NoName
  Weights = {0, 3}
  MaxEntries = 2
SPECIFICATION DrawSpec
CHECK_DEADLOCK FALSE
INVARIANTS PickProportional QueueComplete ConfiguredNeverCreates
