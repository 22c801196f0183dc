SPECIFICATION FairSpec
CONSTANTS
    up = up
    s1 = s1
    Run = {up, s1}
    First = up
    NoRun = NoRun
    Stores = {"external", "faiss"}
    Loaders = {"file", "remote"}
    Size = 2
    MaxRetries = 1
    MaxStarts = 2
    Faults = {"init", "record", "lookup", "save", "crash", "overlap", "storage"}
INVARIANTS
    SourceIsWhole
    PartialIsShown
PROPERTIES
    ProcessingEnds
CHECK_DEADLOCK FALSE
