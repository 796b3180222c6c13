SPECIFICATION FairSpec
CONSTANTS
    Addresses <- UserChats
    JobAddresses <- JobChats
    Targets <- NoneOrHalf
    StreamMode = FALSE
    MaxTurns = 3
    MaxCalls = 2
    MaxSubs = 2
    MaxSubCalls = 1
CONSTRAINT TwoOrOverlapAndOne
INVARIANTS TypeOK OwnChat JobsReportToTheirChat EveryTurnSpeaks
PROPERTIES EveryTurnEnds
CHECK_DEADLOCK FALSE
