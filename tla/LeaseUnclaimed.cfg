CONSTANTS
    Task = {t1, t2}
    NoTask = NoTask
    MaxAttempts = 5
    MaxRetries = 3
    LeaseRetryMax = 10
    Claims = FALSE
    Refusals = FALSE
    Blips = FALSE
    Ageing = FALSE
SPECIFICATION FairSpec
CHECK_DEADLOCK FALSE
INVARIANTS
    OneRunner
PROPERTIES
    CrashLoopEnds
