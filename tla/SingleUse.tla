------------------------------ MODULE SingleUse ------------------------------
(***************************************************************************)
(* What governed writes promise of a decision, whatever processes, stores  *)
(* and retries there are: it is given to at most one call, and only a call *)
(* it was given to takes effect.  A service whose memory ends with its     *)
(* process promises nothing of what that process had given.                *)
(***************************************************************************)
CONSTANTS Decisions, Calls

VARIABLES
    given,    \* pairs of a decision and the call it was given to
    effects   \* the calls that took effect

promise == <<given, effects>>
-----------------------------------------------------------------------------
Init == given = {} /\ effects = {}

Give(d, c) ==
    /\ \A g \in given : g[1] # d
    /\ given' = given \cup {<<d, c>>}
    /\ UNCHANGED effects

\* Calls take effect: one, or several that a process leaves behind.
TakeEffect(cs) ==
    /\ \A c \in cs : \E g \in given : g[2] = c
    /\ effects' = effects \cup cs
    /\ UNCHANGED given

Forget == given' = {} /\ effects' = {}

Next ==
    \/ \E d \in Decisions, c \in Calls : Give(d, c)
    \/ \E cs \in SUBSET Calls : TakeEffect(cs)
    \/ Forget

Spec == Init /\ [][Next]_promise
=============================================================================
