SPECIFICATION FairSpec
CONSTANTS
    ReasoningIds = {"r"}
    CallIds = {"c1", "c2"}
    MaxParts = 3
    MaxText = 2
    Askers = {"a1", "a2"}
    Replies = {"m1", "m2"}
    Texts = {"1"}
    OptionLists <- TwoLists
    Callers = {"loop", "cron"}
    MaxIssued = 3
    MaxCommands = 2
    Handlers = {"h1", "h2", "h3"}
    Paths = {"X", "X.bak", "X.bak.bak"}
    Files = {"X", "X.bak"}
    BakOf <- TheBackup
    MyConfigs <- SomeOfMine
    ClawConfigs <- AllOfClaw
    MaxRuns = 2
    Chats <- ChatAndPrefix
    Characters = {"telegram", ":", "1", "2"}
    Ids = {"t1", "t2"}
    Lists = {"l"}
    Statuses = {"", "pending", "done", "later"}
    Priorities = {"", "urgent"}
CONSTRAINT FilesOrConfigurations
INVARIANTS
    TypeOK
    MapsHoldTheOpenParts TextIsWhole
    AnswerIsReturned
    CommandsHold
    SuccessNeedsConsent
    KeptOrBackedUp ConfigKeepsMine
PROPERTIES
    ImplementsParts
    ClosedOnce AsksEnd
    LoginEnds
    ChatsStayApart
CHECK_DEADLOCK FALSE
