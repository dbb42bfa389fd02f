\* Two recorders, three recordings and one restart.
CONSTANTS
    r1 = r1
    r2 = r2
    a = a
    b = b
    s1 = s1
    planning = planning
    grep = grep
    Default = default
    None = None
    Recorders <- MCRecorders
    Metrics <- MCMetrics
    MaxRecords = 3
    MaxRestarts = 1
SYMMETRY RecorderSymmetry
SPECIFICATION Spec
INVARIANTS
    SinksAgree
    ReplayAgrees
    StatsBracketed
    SummaryCoherent
    DurableAccount
CHECK_DEADLOCK FALSE
