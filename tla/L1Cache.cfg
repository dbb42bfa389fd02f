\* Two writers race on a cache of four, over two TTLs; a command fails.
\* A share of a full cache is two entries, one for each writer.
CONSTANTS
  w1 = w1
  w2 = w2
  k1 = k1
  k2 = k2
  k3 = k3
  k4 = k4
  k5 = k5
  k6 = k6
  Writers <- MCWriters
  Keys <- MCKeys
  MaxSize = 4
  EvictShare = 2
  TTL = 2
  MaxClock = 4
  MaxSets = 3
  MaxFaults = 1
  Never = Never
  NoKey = NoKey
SPECIFICATION Spec
SYMMETRY L1Symmetry
CHECK_DEADLOCK FALSE
INVARIANTS SizeBounded IdleCacheExpires 
