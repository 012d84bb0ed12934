---------------------------- MODULE SlidingWindow ----------------------------
(***************************************************************************)
(* What the rate limiter promises, without how it keeps it: tokens are     *)
(* granted at instants, in order, never more than Limit within a Window;   *)
(* a caller that is granted an instant to come is let go at that instant   *)
(* or later, or when the limiter closes.                                   *)
(***************************************************************************)
EXTENDS Integers, Sequences, FiniteSets

CONSTANTS
    Keys,
    Limit, Window

VARIABLES
    clock,
    granted,  \* [Keys -> Seq(Nat)]: the instant of every token granted
    due       \* the callers that wait, each with the instant it was granted

promise == <<clock, granted, due>>
-----------------------------------------------------------------------------
InOrder(g) == \A i, j \in DOMAIN g : i <= j => g[i] <= g[j]

\* The tokens granted in the window that opens with the j-th of them.
InWindow(g, j) == {i \in DOMAIN g : g[j] <= g[i] /\ g[i] < g[j] + Window}

WithinLimit(g) == \A j \in DOMAIN g : Cardinality(InWindow(g, j)) <= Limit

Init ==
    /\ clock = 0
    /\ granted = [k \in Keys |-> <<>>]
    /\ due = {}

Grant(k, n, t) ==
    LET g == granted[k] \o [i \in 1 .. n |-> t]
    IN  /\ granted' = [granted EXCEPT ![k] = g]
        /\ InOrder(g) /\ WithinLimit(g)
        /\ UNCHANGED clock

AdmitNow(k, n) == Grant(k, n, clock) /\ UNCHANGED due

\* The instant granted is the one the caller is seen to wait for.
AdmitLater(c, k, n, t) ==
    /\ \A p \in due : p[1] # c
    /\ t > clock
    /\ due' = due \cup {<<c, t>>}
    /\ Grant(k, n, t)

LetGo(c, t) ==
    /\ <<c, t>> \in due
    /\ t <= clock
    /\ due' = due \ {<<c, t>>}
    /\ UNCHANGED <<clock, granted>>

\* A window is forgotten; the callers that wait keep their instants.
Forget(ks) ==
    /\ granted' = [k \in Keys |-> IF k \in ks THEN <<>> ELSE granted[k]]
    /\ UNCHANGED <<clock, due>>

\* The limiter closes: nobody waits any more.
Close ==
    /\ granted' = [k \in Keys |-> <<>>]
    /\ due' = {}
    /\ UNCHANGED clock

Advance == clock' = clock + 1 /\ UNCHANGED <<granted, due>>

Next ==
    \/ Advance
    \/ \E p \in due : LetGo(p[1], p[2])
    \/ \E p \in due' \ due, k \in Keys, n \in 1 .. Limit : AdmitLater(p[1], k, n, p[2])
    \/ \E k \in Keys, n \in 1 .. Limit : AdmitNow(k, n)
    \/ \E ks \in SUBSET Keys : Forget(ks)
    \/ Close

Spec == Init /\ [][Next]_promise
=============================================================================
