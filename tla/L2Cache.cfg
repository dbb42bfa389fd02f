\* A search while two writers store and evict; a command fails.
CONSTANTS
  k1 = k1
  k2 = k2
  k3 = k3
  m1 = m1
  m2 = m2
  Writers <- MCWriters
  w1 = w1
  w2 = w2
  Readers = {r1}
  Keys <- MCKeys
  ModelOf <- MCModelOf
  Models = {m1, m2}
  Vectors <- MCVectors
  similarity <- MCSimilarity
  Threshold = 2
  MaxSize = 1
  EvictShare = 2
  TTL = 1
  MaxClock = 1
  MaxStores = 2
  MaxFaults = 1
  NoEntry = NoEntry
SPECIFICATION Spec
SYMMETRY CacheSymmetry
CHECK_DEADLOCK FALSE
INVARIANTS HitMatches BestMatch SizeBounded
