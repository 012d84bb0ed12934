CONSTANTS
    MaxRetries = 2
    Initial = 2
    MaxBackoff = 3
    Waits <- MCWaits
    Lateness = 1
SPECIFICATION Spec
INVARIANTS
    WaitHonoured
