CONSTANTS
    c1 = c1
    c2 = c2
    c3 = c3
    k1 = k1
    k2 = k2
    Keys = {k1}
    LimitedKeys = {k1}
    Callers = {c1, c2, c3}
    Limit = 3
    Window = 3
    MaxWait = 4
    GcAge = 4
    MaxLateness = 1
    LastArrival = 4
    MaxTime = 9
SPECIFICATION Spec
SYMMETRY Symmetry
INVARIANTS
    PlatformWindow
PROPERTIES
    KeepsPromise
