-------------------------- MODULE MCGovernedWrites --------------------------
(* Small instances of GovernedWrites for TLC. *)
EXTENDS GovernedWrites, TLC

CONSTANTS i1, i2, w1, w2, w3, c1, c2, d1, d2

MCContractOf == [d \in Decisions |-> c1]

\* A configuration that sets nothing: the default of the code off-hosted.
Unset ==
    [enforce |-> {}, warn |-> {}, off |-> {}, server |-> None, global |-> None,
     hosted |-> FALSE, firestore |-> FALSE, allowInMemory |-> FALSE,
     manifest |-> Contracts, hook |-> TRUE]

Enforced == [Unset EXCEPT !.enforce = {c1}]

\* One process and its own memory: every way to set the mode of c1, and the
\* deployments that may run it.
SingleProcess ==
    {[Unset EXCEPT !.enforce = e, !.warn = w, !.off = o, !.server = s, !.global = g] :
        e, w, o \in SUBSET {c1}, s \in {None, "off", "enforce"}, g \in {None, "enforce"}}
    \cup {[Enforced EXCEPT !.hosted = TRUE, !.allowInMemory = TRUE],
          [Enforced EXCEPT !.manifest = {}]}

\* A hosted service: enforced with and without the shared store, and warned by
\* default.
Fleet ==
    {[h EXCEPT !.hosted = TRUE] :
        h \in {Enforced, Unset, [Enforced EXCEPT !.firestore = TRUE],
               [Unset EXCEPT !.firestore = TRUE, !.hook = FALSE]}}

Everywhere == SingleProcess \cup Fleet
Guarded == {Enforced}

Symmetry == Permutations(Calls) \cup Permutations(Instances)
=============================================================================
