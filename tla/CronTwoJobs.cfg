SPECIFICATION FairSpec
CONSTANTS
    j1 = j1
    j2 = j2
    Job <- TwoJobs
    Delay <- UnitDelay
    None = None
    Absent = Absent
    Corrupt = Corrupt
    MaxTime = 3
    MaxFaults = 0
    WithCli = FALSE
    Preset <- OldJob
INVARIANTS AckedJobsAreDurable
PROPERTIES DueJobStarts
CHECK_DEADLOCK FALSE
