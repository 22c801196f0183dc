CONSTANTS
    Call = {c1}
    Session = {s1, s2}
    Proc = {p1}
    Ticket = {t1}
    None = None
    MaxChunks = 0
    Faults = TRUE
    Crashes = TRUE
SPECIFICATION FairSpec
CHECK_DEADLOCK FALSE
INVARIANTS
    OneLiveSession
PROPERTIES
    ToolEnds
