\* Two requests race over a configured route, a provider without a client and a
\* healthy fallback that is not configured; clients hang up.
CONSTANTS
  A = A
  B = B
  openai = openai
  retired = retired
  r1 = r1
  r2 = r2
  NoName = NoName
  Boot = Boot
  Nobody = Nobody
  NoError = NoError
  Requests <- MCRequests
  Clients = {openai}
  Models <- MCModels
  DetectProvider <- MCDetectProvider
  Config <- Unconfigured
  WatchedRoute <- OpenAI_A
  HealthyRoutes <- HealthyB
  UpstreamErrors <- TwoErrors
  FailureThreshold = 1
  OpenTimeout = 1
  MaxLatency = 1
  LastStart = 1
  MaxClock = 2
SPECIFICATION Spec
CHECK_DEADLOCK FALSE
SYMMETRY RequestSymmetry
INVARIANTS TypeOK OneBreakerPerKnownRoute
PROPERTIES HealthyRouteServes ReplyExplained BreakerImplemented
