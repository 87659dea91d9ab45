SPECIFICATION Spec
CONSTANTS
    a = a
    b = b
    Nodes <- TwoNodes
    Unresolved = none
    Chains <- Direct
    DayLength = 2
    MaxCompactBatch = 2
    ObservationRetention = 1
    RollupRetention = 3
    MaySilence = TRUE
    Windows = {}
    MaxBatch = 1
    MaxId = 2
    MaxTime = 5
PROPERTIES PruneKeepsUnrolled
