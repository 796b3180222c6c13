SPECIFICATION FairSpec
CONSTANTS
    c1 = c1
    c2 = c2
    Terminal = Terminal
    None = None
    Cap = 1
    MaxIterations = 2
    Responses <- AnyResponse
    Limit = 2
    LlmMayFail = TRUE
    StreamMode = TRUE
    Gateway = TRUE
    UserChats <- OneChat
    DirectChats <- JobChats
    Chat <- TwoChats
    MaxTurns = 2
    MaxFaults = 1
INVARIANTS TypeOK NoMixedText AnswerIsShown QuietChatHasNoState
PROPERTIES EveryMessageIsAnswered
CHECK_DEADLOCK FALSE
