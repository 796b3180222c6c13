SPECIFICATION FairSpec
CONSTANTS
    UserChats <- Users
    JobChats <- Jobs
    OldStates <- Old
    Terminal = "cli:direct"
    Capacity = 1
    EventCapacity = 1
    MaxTurns = 2
    MaxPlugs = 1
    MaxLives = 2
INVARIANTS TypeOK StateFileIsWhole OneNotificationPerPlug NotifiesAChat DeliveredInOrder
PROPERTIES OutboundDrains ShutdownEnds
CHECK_DEADLOCK FALSE
