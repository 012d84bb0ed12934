CONSTANTS
    k1 = k1
    other = other
    Keys = {k1}
    LimitedKeys = {k1}
    Bucket = k1
    Callers <- MCCallers
    ItemCount = 3
    Cost <- UniformCost
    Concurrency = 2
    Limit = 4
    Window = 2
    MaxWait = 2
    GcAge = 4
    MaxLateness = 0
    LastArrival = 8
    SlowUntil = 2
    MaxTime = 8
SPECIFICATION BFairSpec
INVARIANTS
    ProjectionIsLowerBound
    AcceptedBatchIsNotCut
PROPERTIES
    EveryItemSettles
