SPECIFICATION Spec
CONSTANTS
    Run = {r1, r2}
    Worker = {w1, w2}
    Kinds = {"once", "recurring"}
    EndTimes = {0, 4}
    Period = 2
    Grace = 1
    AutopauseFailures = 2
    MaxTime = 4
    MaxDoubled = 1
CONSTRAINT Apart
SYMMETRY Symmetry
INVARIANTS TypeOK OneActiveRun EachTickRunsOnce AnswersAreSuccesses
PROPERTIES OutcomeStands 
CHECK_DEADLOCK FALSE
