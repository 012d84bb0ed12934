CONSTANTS
    s1 = s1
    s2 = s2
    a = a
    b = b
    r1 = r1
    r2 = r2
    r3 = r3
    r4 = r4
    w1 = w1
    w2 = w2
    None = None
    Sids = {s1}
    Creds = {a, b}
    Requests = {r1, r2, r3, r4}
    Sweepers = {w1, w2}
    MaxSessions = 1
    Disciplines <- EveryDiscipline
SPECIFICATION Spec
SYMMETRY Symmetry
INVARIANTS
    TypeOK
    DroppedIsForgotten
    HeldIsSwept
    OpenServerIsCached
    PublishedTransportWorks
    ServedAsCaller
    TurnsNeverWedge
