SPECIFICATION Spec
CONSTANTS
    QueryRetries = 3
    PollRetries = 3
    InitialDelay = 3
    MaxDelay = 4
    Cooldown = 2
    Headroom = 2
    MaxLag = 3
INVARIANTS
    TypeOK
    NoDuplicateReport
    NoSilentLeftover
    OvershootIsBounded
    TaskFollowsWorker
PROPERTIES
    RunSettles
