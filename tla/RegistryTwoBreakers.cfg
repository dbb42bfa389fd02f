\* Two requests on a fallback that is not configured.
CONSTANTS
  A = A
  B = B
  openai = openai
  retired = retired
  r1 = r1
  r2 = r2
  NoName = NoName
  Boot = Boot
  Nobody = Nobody
  NoError = NoError
  Requests <- MCRequests
  Clients = {openai}
  Models <- MCModels
  DetectProvider <- MCDetectProvider
  Config <- Unconfigured
  WatchedRoute <- OpenAI_A
  HealthyRoutes <- NoRoutes
  UpstreamErrors <- TwoErrors
  FailureThreshold = 1
  OpenTimeout = 1
  MaxLatency = 1
  LastStart = 1
  MaxClock = 2
SPECIFICATION Spec
CHECK_DEADLOCK FALSE
INVARIANT OneBreakerPerRoute
