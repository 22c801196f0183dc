CONSTANTS
    Task = {t1, t2, t3}
    NoTask = NoTask
    MaxAttempts = 3
    MaxRetries = 1
    LeaseRetryMax = 2
    Claims = TRUE
    Refusals = TRUE
    Blips = TRUE
    Ageing = TRUE
SPECIFICATION Spec
SYMMETRY Symmetry
CHECK_DEADLOCK FALSE
INVARIANTS
    TypeOK
PROPERTIES
    FirstResultStands
