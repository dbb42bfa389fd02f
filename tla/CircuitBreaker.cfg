\* Calls shorter than the open timeout; the clock runs past the last timeout.
CONSTANTS
  Callers = {c1, c2, c3}
  FailureThreshold = 2
  OpenTimeout = 3
  MaxLatency = 2
  LastStart = 6
  MaxClock = 9
SPECIFICATION FairSpec
CHECK_DEADLOCK FALSE
INVARIANTS OpenIffTripped OpenWindowBounds InFlightPredatesTrip
PROPERTIES NoAdmissionWhileOpen NoEarlyLapse TripBlocks Recovers
