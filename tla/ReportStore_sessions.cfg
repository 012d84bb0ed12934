CONSTANTS
    i1 = i1
    i2 = i2
    s1 = s1
    s2 = s2
    c1 = c1
    c2 = c2
    c3 = c3
    r1 = r1
    w1 = w1
    w2 = w2
    None = None
    Instances = {i1, i2}
    Sessions = {s1, s2}
    Calls = {c1, c2}
    Readers = {r1}
    Sweeps = {w1}
    Bodies <- StoredOrSpilled
    Ttl = 1
    MaxEntries = 1
    MaxCrashes = 1
    MaxTime = 1
SPECIFICATION Spec
SYMMETRY Symmetry
INVARIANTS
    ServedToItsSessionInTime
    MirroredIsReadable
    NewestKept
    HandedLinkWorks
    SweepIsComplete
CHECK_DEADLOCK FALSE
