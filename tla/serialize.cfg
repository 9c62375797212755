SPECIFICATION FairSpec
CONSTANTS
    MaxWrites = 3
    MaxWrite = 5
    Values <- MCValues
    Thresholds = {0, 1, 2, 3}
    PayloadSize = 2
    MaxBatch = 2
CHECK_DEADLOCK FALSE
INVARIANTS
    TypeOK
    PartsAreExact
    ThresholdIsExact
    NoPanic
PROPERTIES
    PullReturns
    ThreadEnds
