\* The direct fallback is not under the orchestrator deadline.
SPECIFICATION FairSpec
CONSTANTS
    MaxRetries = 2
    MaxExternal = 1
    PlannerMax = 1
    MaxParts = 3
    TopK = 2
    RerankTopM = 1
    MinCandidates = 2
    MaxScore = 1
    Threshold = 1
    AutoFallback = TRUE
    FallbackRoute = "catalog"
    RemoteStore = TRUE
    Chunks = {c1}
PROPERTY Terminates
