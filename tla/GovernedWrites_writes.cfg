CONSTANTS
    i1 = i1
    i2 = i2
    w1 = w1
    w2 = w2
    w3 = w3
    c1 = c1
    c2 = c2
    d1 = d1
    d2 = d2
    None = None
    Instances = {i1, i2}
    Calls = {w1, w2}
    Contracts = {c1, c2}
    Decisions = {d1}
    ContractOf <- MCContractOf
    Environments <- Everywhere
    Deadlines = {1}
    JtiTtl = 2
    SweepAt = 1
    MaxRestarts = 1
    MaxTime = 3
SPECIFICATION Spec
SYMMETRY Symmetry
INVARIANTS
    EffectWasDecided
    OneEffectPerDecision
    SpentByItsOwnWrite
PROPERTIES
    DecisionsUsedOnce
CHECK_DEADLOCK FALSE
