CONSTANTS
    Writer = {w1, w2}
    First = w1
    Reader = {r1, r2}
    MaxEmits = 3
    BatchSize = 2
    Blips = FALSE
    Drops = FALSE
    Aborts = TRUE
SPECIFICATION Spec
CONSTRAINT Apart
SYMMETRY Symmetry
CHECK_DEADLOCK FALSE
INVARIANTS
    TypeOK
    ReplayIsExact
    EndIsTrue
    EmissionOrder
