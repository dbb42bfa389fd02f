\* The shared health answer, the retries of Generate and the handler around it.
\* The second wait would exceed the cap; the clock lasts for the longest call.
CONSTANTS
    r1 = r1
    r2 = r2
    c1 = c1
    None = None
    Requests <- MCRequests
    Calls <- MCCalls
    Models = {ada}
    DefaultModel = ada
    Statuses = {404, 503, 504}
    TokenCounts = {0, 5}
    HealthTTL = 2
    MaxLatency = 1
    Timeout = 1
    RetryMax = 3
    RetryBackoff = 2
    MaxBackoff = 3
    MaxClock = 9
    MaxRequests = 2
SYMMETRY RequestSymmetry
SPECIFICATION HandlerSpec
INVARIANTS
    AnswersFollowWorker
    GivesUpLate
    CallBounded
    EmbeddingRecorded
