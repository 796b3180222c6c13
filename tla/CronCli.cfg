SPECIFICATION Spec
CONSTANTS
    j1 = j1
    j2 = j2
    Job <- TwoJobs
    Delay <- UnitDelay
    None = None
    Absent = Absent
    Corrupt = Corrupt
    MaxTime = 1
    MaxFaults = 0
    WithCli = TRUE
    Preset <- NoPreset
INVARIANTS AckedJobsAreDurable
CHECK_DEADLOCK FALSE
