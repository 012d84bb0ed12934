--------------------------- MODULE MCHttpSessions ---------------------------
(* Small instances of HttpSessions for TLC. *)
EXTENDS HttpSessions, TLC

CONSTANTS s1, s2, a, b, r1, r2, r3, r4, w1, w2

\* Three overlapping requests where only credential checks suspend, and clients
\* that take turns: three requests where every await suspends and the sweep may
\* find a session it is still closing, four where no close suspends.
Overlapping == [yields |-> {"validating"}, serial |-> FALSE, sent |-> 3, sweepers |-> {w1}]
TakingTurns == [yields |-> Brief, serial |-> TRUE, sent |-> 3, sweepers |-> {w1, w2}]
QuickCloses ==
    [TakingTurns EXCEPT !.yields = {"validating", "creatingServer", "connecting", "failing"},
                        !.sent = 4, !.sweepers = {w1}]

EveryDiscipline == {Overlapping, TakingTurns, QuickCloses}
OnlyOverlapping == {Overlapping}

Symmetry == Permutations(Requests) \cup Permutations(Sids) \cup Permutations(Creds)
=============================================================================
