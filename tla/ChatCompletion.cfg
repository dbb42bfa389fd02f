\* Two requests at a time, three in all.
CONSTANTS
    r1 = r1
    r2 = r2
    a = a
    b = b
    p1 = p1
    p2 = p2
    planning = planning
    None = None
    Requests <- MCRequests
    Models = {a, b}
    Steps = {planning}
    Prompts = {p1, p2}
    Meaning <- MCMeaning
    Policy <- MCPolicy
    Chain <- MCChain
    Questions <- MCQuestions
    Upstream <- MCUpstream
    Tokens = {0, 3}
    MaxRequests = 3
SYMMETRY RequestSymmetry
SPECIFICATION Spec
INVARIANTS
    AnswerMatches
    RecordsMatch
    TokensCounted
CHECK_DEADLOCK FALSE
