CONSTANTS
    Msg = {m1, m2}
    Stream = {s1, s2, s3}
    NoMsg = NoMsg
    MaxAttempts = 2
    MaxCalls = 0
    Blips = FALSE
    SlowResume = FALSE
SPECIFICATION Spec
SYMMETRY Symmetry
CHECK_DEADLOCK FALSE
INVARIANTS
    TypeOK
    
    RevokedStaysFailed
    
    OneAnswerLands
    OneResumer
PROPERTIES
    ReconcilerSparesLiving
