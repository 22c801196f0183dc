CONSTANTS
    Writer = {w1}
    First = w1
    Reader = {r1}
    MaxEmits = 3
    BatchSize = 2
    Blips = TRUE
    Drops = TRUE
    Aborts = TRUE
SPECIFICATION FairSpec
CHECK_DEADLOCK FALSE
PROPERTIES
    ReaderReleased
