CONSTANTS
    Msg = {m1, m2}
    Stream = {s1, s2}
    NoMsg = NoMsg
    MaxAttempts = 2
    MaxCalls = 1
    Blips = FALSE
    SlowResume = TRUE
SPECIFICATION FairSpec
CHECK_DEADLOCK FALSE
PROPERTIES
    KeepsPromise
    ClaimsReturn
