SPECIFICATION Spec
CONSTANTS
    Keep = 2
    Limit = 3
    PartLimit = 9
    MaxCalls = 1
    MaxIterations = 1
    MaxMessages = 8
    MaxCrashes = 1
    LlmMayFail = FALSE
INVARIANTS NoUnansweredCalls
CHECK_DEADLOCK FALSE
