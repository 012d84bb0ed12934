CONSTANTS
    k1 = k1
    other = other
    Keys = {k1}
    LimitedKeys = {k1}
    Bucket = k1
    Callers <- LoneCallers
    ItemCount = 3
    Cost <- ReadWriteCost
    Concurrency = 5
    Limit = 4
    Window = 1
    MaxWait = 2
    GcAge = 4
    MaxLateness = 0
    LastArrival = 6
    SlowUntil = 0
    MaxTime = 6
SPECIFICATION BSpec
INVARIANTS
    AcceptedBatchIsNotCut
