---------------------------- MODULE MCReportStore ----------------------------
\* A small instance of ReportStore; identities are interchangeable.
EXTENDS ReportStore, TLC
CONSTANTS i1, i2, s1, s2, c1, c2, c3, r1, w1, w2
StoredOrSpilled == {[raw |-> TRUE, large |-> FALSE], [raw |-> FALSE, large |-> TRUE]}
Symmetry == Permutations(Instances) \union Permutations(Sessions)
                \union Permutations(Calls) \union Permutations(Sweeps)
=============================================================================
