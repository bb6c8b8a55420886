SPECIFICATION TasksSpec
CONSTANTS
    Null = Null
    Interval = 2
    Jitter = 1
    RetryMax = 1
    Cron = {1}
    Broken = {2}
    MaxTime = 3
    MaxSync = 2
    MaxManual = 1
    MaxCrash = 1
    MaxEarly = 3
    r0 = r0
    r1 = r1
    Revisions = {r0, r1}
    Empty = r0
    MaxEdit = 2
    MaxConn = 2
    MaxWire = 2
    MaxFail = 1
    MaxLost = 1
INVARIANTS TasksTypeOK NoOverlap ManualNotRepeated PlanSound AppliedIsTrue
PROPERTIES AppliedIsFinal DueRuns Synced
CHECK_DEADLOCK FALSE
