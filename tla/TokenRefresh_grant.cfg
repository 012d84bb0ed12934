SPECIFICATION Spec
CONSTANTS
    Adapters = {a1, a2}
    Calls = {c1, c2}
    None = None
    Lifetime = 3
    Buffer = 2
    Timeout = 1
    MaxRotations = 2
    MaxTime = 4
INVARIANTS
    OneRefresh
    GrantIsKept
    HandedTokenLives
PROPERTIES
    EveryCallReturns
