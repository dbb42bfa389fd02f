\* The registry's own timing: a call may take the whole open timeout
\* (30 s for the HTTP client, 30 s for the breaker), one tick being 10 s.
CONSTANTS
  Callers = {c1, c2}
  FailureThreshold = 3
  OpenTimeout = 3
  MaxLatency = 3
  LastStart = 6
  MaxClock = 9
SPECIFICATION Spec
CHECK_DEADLOCK FALSE
PROPERTY TripBlocks
