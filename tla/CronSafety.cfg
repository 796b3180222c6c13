SPECIFICATION Spec
CONSTANTS
    j1 = j1
    j2 = j2
    Job <- OneJob
    Delay <- AllDelays
    None = None
    Absent = Absent
    Corrupt = Corrupt
    MaxTime = 4
    MaxFaults = 1
    WithCli = TRUE
    Preset <- NoPreset
INVARIANTS TypeOK NoStrandedRecurringJob
PROPERTIES AtJobRunsAtMostOnce EveryJobKeepsItsPeriod
CHECK_DEADLOCK FALSE
