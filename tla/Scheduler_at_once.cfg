SPECIFICATION Spec
CONSTANTS
    Null = Null
    Interval = 2
    Jitter = 1
    RetryMax = 1
    Cron = {1}
    Broken = {2}
    MaxTime = 4
    MaxSync = 1
    MaxManual = 0
    MaxCrash = 0
    MaxEarly = 2
INVARIANT NotAtOnce
CHECK_DEADLOCK FALSE
