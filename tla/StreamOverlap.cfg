SPECIFICATION Spec
CONSTANTS
    c1 = c1
    c2 = c2
    Terminal = Terminal
    None = None
    Cap = 2
    MaxIterations = 2
    Responses <- RemarkAndAnswer
    Limit = 2
    LlmMayFail = FALSE
    StreamMode = TRUE
    Gateway = TRUE
    UserChats <- OneChat
    DirectChats <- OneChat
    Chat <- OneChat
    MaxTurns = 2
    MaxFaults = 0
INVARIANTS NoMixedText
CHECK_DEADLOCK FALSE
