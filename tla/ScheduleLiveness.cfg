SPECIFICATION FairSpec
CONSTANTS
    Run = {r1, r2}
    Worker = {w1}
    Kinds = {"once", "recurring"}
    EndTimes = {0, 1}
    Period = 1
    Grace = 1
    AutopauseFailures = 2
    MaxTime = 2
    MaxDoubled = 0
PROPERTIES RunsSettle OnceSettles
CHECK_DEADLOCK FALSE
