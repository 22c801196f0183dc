SPECIFICATION MCSpec
CONSTANTS
    Call = {c1, c2}
    Modes = {"chat", "headless"}
    MaxIterations = 2
    MaxBatch = 2
    MaxResumes = 1
    Blips = TRUE
INVARIANTS TypeOK HistoryIsPaired EffectsAreLogged
PROPERTIES OthersAndSettledStay AttemptsSettle
CHECK_DEADLOCK FALSE
