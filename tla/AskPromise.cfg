\* The contract and termination; the deadline and the direct fallback on a remote store.
SPECIFICATION FairSpec
CONSTANTS
    MaxRetries = 2
    MaxExternal = 1
    PlannerMax = 1
    MaxParts = 3
    TopK = 1
    RerankTopM = 1
    MinCandidates = 2
    MaxScore = 1
    Threshold = 1
    AutoFallback = TRUE
    FallbackRoute = "hybrid"
    RemoteStore = TRUE
    Chunks = {c1}
PROPERTIES
    KeepsContract
    EndsOrFallbackHangs
