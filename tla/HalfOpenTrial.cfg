\* Two callers race for the trial after the open timeout.
CONSTANTS
  Callers = {c1, c2}
  FailureThreshold = 1
  OpenTimeout = 2
  MaxLatency = 1
  LastStart = 4
  MaxClock = 6
SPECIFICATION TrialSpec
CHECK_DEADLOCK FALSE
INVARIANT HalfOpenSingleTrial
