\* The external cap is per attempt, the documentation says per request.
SPECIFICATION Spec
CONSTANTS
    MaxRetries = 2
    MaxExternal = 1
    PlannerMax = 2
    MaxParts = 3
    TopK = 2
    RerankTopM = 1
    MinCandidates = 2
    MaxScore = 1
    Threshold = 1
    AutoFallback = TRUE
    FallbackRoute = "sql"
    RemoteStore = TRUE
    Chunks = {c1, c2}
INVARIANT ExternalCapPerRequest
