--------------------------- MODULE MCRateLimiter ---------------------------
(* Small instances of RateLimiter for TLC. *)
EXTENDS RateLimiter, TLC

CONSTANTS c1, c2, c3, k1, k2

MCCallers == {c1, c2, c3}
Symmetry == Permutations(MCCallers)
============================================================================
