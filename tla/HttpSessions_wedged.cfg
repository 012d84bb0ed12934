CONSTANTS
    s1 = s1
    s2 = s2
    a = a
    b = b
    r1 = r1
    r2 = r2
    r3 = r3
    r4 = r4
    w1 = w1
    w2 = w2
    None = None
    Sids = {s1}
    Creds = {a}
    Requests = {r1, r2, r3}
    Sweepers = {w1}
    MaxSessions = 1
    Disciplines <- OnlyOverlapping
SPECIFICATION Spec
SYMMETRY Symmetry
INVARIANTS
    NeverWedged
