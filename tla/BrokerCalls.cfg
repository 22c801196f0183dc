CONSTANTS
    Call = {c1, c2}
    Session = {s1}
    Proc = {p1}
    Ticket = {t1}
    None = None
    MaxChunks = 1
    Faults = FALSE
    Crashes = FALSE
SPECIFICATION Spec
CHECK_DEADLOCK FALSE
SYMMETRY Symmetry
INVARIANTS
    TypeOK
    TimeoutIsTrue
    OutputIsWhole
PROPERTIES
    ReapedStayIn
