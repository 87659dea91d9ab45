SPECIFICATION Spec
CONSTANTS
    a = a
    b = b
    Nodes <- TwoNodes
    Unresolved = none
    Chains <- CrossedTwice
    DayLength = 2
    MaxCompactBatch = 1
    ObservationRetention = 1
    RollupRetention = 2
    MaySilence = FALSE
    Windows = {0, 1, 2}
    MaxBatch = 1
    MaxId = 3
    MaxTime = 3
INVARIANTS EachReceptionCountedOnce AnswerIsBracketed
PROPERTIES PruneKeepsUnrolled CompactionCatchesUp
