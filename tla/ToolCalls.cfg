SPECIFICATION Spec
CONSTANTS
    Tools <- MCTools
    FunctionTools <- MCFunctionTools
    ToolLists <- MCToolLists
    Targets <- MCTargets
    Questions <- MCQuestions
    Named <- MCNamed
    MaxQuestions = 2
    MaxOutputs = 3
    MaxRequests = 2
CHECK_DEADLOCK FALSE
INVARIANTS
    TypeOK
    ToolOutputsReachAnswer
    RequiredNeverDowngraded
    TwoRequestsPerQuestion
PROPERTIES
    KeepsSession
    Settles
