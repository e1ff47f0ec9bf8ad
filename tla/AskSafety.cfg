\* Safety of one request: three attempts, two sub-queries, one external call per attempt.
SPECIFICATION Spec
CONSTANTS
    MaxRetries = 3
    MaxExternal = 1
    PlannerMax = 2
    MaxParts = 3
    TopK = 2
    RerankTopM = 1
    MinCandidates = 2
    MaxScore = 1
    Threshold = 1
    AutoFallback = TRUE
    FallbackRoute = "sql"
    RemoteStore = TRUE
    Chunks = {c1, c2}
SYMMETRY ChunkSymmetry
INVARIANTS
    TypeOK
    ResponseMatchesAnswer
    ExternalBudget
    LocalFirst
    NeverExhausted
    HitsReachPrompt
    AskDeliversGradedAnswer
    FallbackKeepsAnswer
    DeadlineSpansAttempts
PROPERTIES
    MovesOn
