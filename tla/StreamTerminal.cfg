SPECIFICATION FairSpec
CONSTANTS
    c1 = c1
    c2 = c2
    Terminal = Terminal
    None = None
    Cap = 8
    MaxIterations = 2
    Responses <- LongAnswer
    Limit = 2
    LlmMayFail = FALSE
    StreamMode = TRUE
    Gateway = FALSE
    UserChats <- NoChat
    DirectChats <- TerminalOnly
    Chat <- NoChat
    MaxTurns = 1
    MaxFaults = 0
PROPERTIES TurnsReturn
CHECK_DEADLOCK FALSE
