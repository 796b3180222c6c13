SPECIFICATION Spec
CONSTANTS
    Keep = 2
    Limit = 3
    PartLimit = 2
    MaxCalls = 2
    MaxIterations = 2
    MaxMessages = 8
    MaxCrashes = 1
    LlmMayFail = TRUE
INVARIANTS TypeOK PromptHasNoGap NoOrphanResults
CHECK_DEADLOCK FALSE
