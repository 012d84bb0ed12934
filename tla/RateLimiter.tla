---------------------------- MODULE RateLimiter ----------------------------
(***************************************************************************)
(* The sliding-window rate limiter of packages/shared                      *)
(* (utils/http/rate-limiter.ts).  A caller reserves its admission instant  *)
(* in one synchronous step of `consume`, and then sleeps on a timer until  *)
(* that instant; reservations in the future sit in the same ascending      *)
(* array as past admissions.                                               *)
(*                                                                         *)
(* Time is a counter of clock ticks.  A timer never fires early and fires  *)
(* at most MaxLateness ticks late (a busy event loop).  MaxTime and        *)
(* LastArrival bound the run: no call arrives after LastArrival.           *)
(***************************************************************************)
EXTENDS Integers, Sequences

CONSTANTS
    Keys,          \* limiter keys, one window per key
    LimitedKeys,   \* the keys some configured pattern matches
    Callers,       \* concurrent invocations of consume
    Limit,         \* tokens per window
    Window,        \* windowMs
    MaxWait,       \* maxWaitMs, the longest a caller is queued
    GcAge,         \* TIMESTAMP_GC_AGE_MS
    MaxLateness,   \* how late the event loop may fire a timer
    LastArrival,   \* bound: last instant at which consume is called
    MaxTime        \* bound: last instant of the run

ASSUME LimiterAssumption ==
    /\ LimitedKeys \subseteq Keys
    /\ Limit \in Nat \ {0}
    /\ Window \in Nat \ {0}
    /\ MaxWait \in Nat
    /\ GcAge \in Nat /\ GcAge >= Window
    /\ MaxLateness \in Nat
    /\ LastArrival \in Nat
    /\ MaxTime \in Nat

VARIABLES
    now,        \* Date.now()
    limits,     \* the keys with a matching entry in `limits`
    requests,   \* [Keys -> Seq(Nat)]: `requests`, absent keys are empty
    pending,    \* `pending`: the callers with a running timer
    call,       \* [Callers -> record]: the consume call each caller is in
    ledger,     \* history: every reservation since the key was last reset
    wasReset,   \* history: the keys that have been reset
    issued      \* history: the last Limit + 1 instants a token was released

vars == <<now, limits, requests, pending, call, ledger, wasReset, issued>>

Idle == [pc |-> "idle"]
Queued(k, n, at, ticket) ==
    [pc |-> "queued", key |-> k, tokens |-> n, admitAt |-> at, ticket |-> ticket]

IsQueued(c) == call[c].pc = "queued"

TypeOK ==
    /\ now \in Nat
    /\ limits \subseteq LimitedKeys
    /\ requests \in [Keys -> Seq(Nat)]
    /\ pending \subseteq Callers
    /\ call \in [Callers -> {Idle} \cup
            [pc : {"queued"}, key : Keys, tokens : 1 .. Limit,
             admitAt : Nat, ticket : Nat]]
    /\ ledger \in [Keys -> Seq(Nat)]
    /\ wasReset \subseteq Keys
    /\ issued \in [Keys -> Seq(Nat)]
----------------------------------------------------------------------------
Repeat(at, n) == [i \in 1 .. n |-> at]

\* How many leading entries of an ascending array are `age` or older at t.
Expired(s, t, age) ==
    CHOOSE n \in 0 .. Len(s) : \A i \in 1 .. Len(s) : (i > n) <=> (t - s[i] < age)

\* timestamps.filter((ts) => now - ts < age)
Live(s, t, age) == SubSeq(s, Expired(s, t, age) + 1, Len(s))

\* Mutant: one entry too few has to leave the window.
BugMustExpire(s, n) == Len(s) - (Limit - n) - 1

\* The 1-based index of the entry that must have left the window before n
\* more tokens fit; none when it is not positive.
MustExpire(s, n) == Len(s) - (Limit - n)

\* Math.max(now, last reservation): nobody is placed ahead of the queue.
Behind(s, t) == IF Len(s) > 0 /\ s[Len(s)] > t THEN s[Len(s)] ELSE t

EarliestAdmission(s, t, n) ==
    IF MustExpire(s, n) > 0 /\ s[MustExpire(s, n)] + Window > Behind(s, t)
    THEN s[MustExpire(s, n)] + Window
    ELSE Behind(s, t)

Current(k) == Live(requests[k], now, Window)

AdmitAt(k, n) == EarliestAdmission(Current(k), now, n)

\* getRemainingTokens
Remaining(k) == IF Len(Current(k)) >= Limit THEN 0 ELSE Limit - Len(Current(k))

\* The last Limit + 1 release instants, after n more tokens at t.
Release(s, n, t) ==
    LET all == s \o Repeat(t, n)
    IN  IF Len(all) > Limit + 1 THEN SubSeq(all, Len(all) - Limit, Len(all)) ELSE all
----------------------------------------------------------------------------
Init ==
    /\ now = 0
    /\ limits = LimitedKeys
    /\ requests = [k \in Keys |-> <<>>]
    /\ pending = {}
    /\ call = [c \in Callers |-> Idle]
    /\ ledger = [k \in Keys |-> <<>>]
    /\ wasReset = {}
    /\ issued = [k \in Keys |-> <<>>]

CanCall(c) == ~IsQueued(c) /\ now <= LastArrival

\* consume on a key no limit matches: returns at once, nothing recorded.
ConsumeUnlimited(c, k, n) ==
    /\ CanCall(c)
    /\ k \notin limits
    /\ issued' = [issued EXCEPT ![k] = Release(@, n, now)]
    /\ UNCHANGED <<now, limits, requests, pending, call, ledger, wasReset>>

\* The synchronous part of consume that both admissions share: prune the
\* window and append n reservations at the computed instant.
Reserve(k, n) ==
    /\ requests' = [requests EXCEPT ![k] = Current(k) \o Repeat(AdmitAt(k, n), n)]
    /\ ledger' = [ledger EXCEPT ![k] = @ \o Repeat(AdmitAt(k, n), n)]

\* consume with room in the window: admitted without sleeping.
ConsumeNow(c, k, n) ==
    /\ CanCall(c)
    /\ k \in limits
    /\ AdmitAt(k, n) = now
    /\ Reserve(k, n)
    /\ issued' = [issued EXCEPT ![k] = Release(@, n, now)]
    /\ UNCHANGED <<now, limits, pending, call, wasReset>>

\* consume that queues: the slot is taken now, the caller sleeps until then.
ConsumeQueued(c, k, n) ==
    /\ CanCall(c)
    /\ k \in limits
    /\ AdmitAt(k, n) > now
    /\ AdmitAt(k, n) - now <= MaxWait
    /\ Reserve(k, n)
    /\ call' = [call EXCEPT ![c] = Queued(k, n, AdmitAt(k, n), Len(ledger[k]) + n)]
    /\ pending' = pending \cup {c}
    /\ UNCHANGED <<now, limits, wasReset, issued>>

\* consume further away than maxWaitMs: the pruned window is stored, nothing
\* is reserved, the call throws RateLimited.  (A call of more than Limit
\* tokens throws before touching anything.)
ConsumeRejected(c, k, n) ==
    /\ CanCall(c)
    /\ k \in limits
    /\ AdmitAt(k, n) - now > MaxWait
    /\ requests' = [requests EXCEPT ![k] = Current(k)]
    /\ UNCHANGED <<now, limits, pending, call, ledger, wasReset, issued>>

\* Mutant: the timer of a queued caller fires a tick early.
BugWakeEarly(c) ==
    /\ c \in pending
    /\ IsQueued(c)
    /\ now + 1 >= call[c].admitAt
    /\ pending' = pending \ {c}
    /\ call' = [call EXCEPT ![c] = Idle]
    /\ issued' = [issued EXCEPT ![call[c].key] = Release(@, call[c].tokens, now)]
    /\ UNCHANGED <<now, limits, requests, ledger, wasReset>>

\* The timer of a queued caller fires and its consume resolves.
Wake(c) ==
    /\ c \in pending
    /\ IsQueued(c)
    /\ now >= call[c].admitAt
    /\ pending' = pending \ {c}
    /\ call' = [call EXCEPT ![c] = Idle]
    /\ issued' = [issued EXCEPT ![call[c].key] = Release(@, call[c].tokens, now)]
    /\ UNCHANGED <<now, limits, requests, ledger, wasReset>>

\* reset(key) / clear(): the window is forgotten, queued callers keep their
\* instants.  The ledger restarts; tickets of the queued no longer refer to it.
Reset(ks) ==
    /\ requests' = [k \in Keys |-> IF k \in ks THEN <<>> ELSE requests[k]]
    /\ ledger' = [k \in Keys |-> IF k \in ks THEN <<>> ELSE ledger[k]]
    /\ call' = [c \in Callers |->
            IF IsQueued(c) /\ call[c].key \in ks THEN [call[c] EXCEPT !.ticket = 0] ELSE call[c]]
    /\ wasReset' = wasReset \cup ks
    /\ UNCHANGED <<now, limits, pending, issued>>

\* The five-minute garbage collection.
Cleanup ==
    /\ requests' = [k \in Keys |-> Live(requests[k], now, GcAge)]
    /\ UNCHANGED <<now, limits, pending, call, ledger, wasReset, issued>>

\* destroy(), called from onShutdown: every sleeper is rejected with
\* ServiceUnavailable, and the configuration is dropped with the data.
Destroy ==
    /\ limits' = {}
    /\ requests' = [k \in Keys |-> <<>>]
    /\ pending' = {}
    /\ call' = [c \in Callers |-> IF c \in pending THEN Idle ELSE call[c]]
    /\ ledger' = [k \in Keys |-> <<>>]
    /\ UNCHANGED <<now, wasReset, issued>>

\* The clock advances, but never past a timer overdue by MaxLateness.
Tick ==
    /\ now < MaxTime
    /\ \A c \in pending : now < call[c].admitAt + MaxLateness
    /\ now' = now + 1
    /\ UNCHANGED <<limits, requests, pending, call, ledger, wasReset, issued>>

\* The end of the bounded run.
Stop == now = MaxTime /\ pending = {} /\ UNCHANGED vars

Consume(c, k, n) ==
    \/ ConsumeUnlimited(c, k, n)
    \/ ConsumeNow(c, k, n)
    \/ ConsumeQueued(c, k, n)
    \/ ConsumeRejected(c, k, n)

Next ==
    \/ \E c \in Callers, k \in Keys, n \in 1 .. Limit : Consume(c, k, n)
    \/ \E c \in Callers : Wake(c)
    \/ \E k \in Keys : Reset({k})
    \/ Reset(Keys)
    \/ Cleanup
    \/ Destroy
    \/ Tick
    \/ Stop

Spec == Init /\ [][Next]_vars
----------------------------------------------------------------------------
Ascending(s) == \A i, j \in 1 .. Len(s) : i <= j => s[i] <= s[j]

Spaced(s, gap) == \A i \in 1 .. Len(s) : i + Limit <= Len(s) => s[i + Limit] - s[i] >= gap

\* FIFO per key (file header): reservations are made in call order, so nobody
\* who calls later is ever admitted at an earlier instant, whether it queues
\* or finds room.
FifoReservations == \A k \in Keys : Ascending(ledger[k])

\* "Cannot overshoot" (file header): over the whole history of a key since its
\* last reset, pruning and garbage collection included, any Limit + 1
\* consecutive reserved tokens span at least one window.
WindowNeverOvershot == \A k \in Keys : Spaced(ledger[k], Window)

\* What the platform observes while the limiter is configured: tokens RELEASED
\* respect the window up to the lateness of the timers.
PlatformWindow ==
    \A k \in limits \ wasReset : Spaced(issued[k], Window - MaxLateness)

\* "A reservation is never moved": a queued caller wakes at the instant its
\* ticket holds in the key's history, and no later caller's ticket precedes it.
ReservationKept ==
    \A c \in Callers : IsQueued(c) /\ call[c].ticket > 0 =>
        /\ call[c].ticket <= Len(ledger[call[c].key])
        /\ ledger[call[c].key][call[c].ticket] = call[c].admitAt

\* getRemainingTokens ("could be admitted right now without queueing") agrees
\* with consume for every cost, reservations of queued callers included.
RemainingIsExact ==
    \A k \in limits : \A n \in 1 .. Limit : (n <= Remaining(k)) <=> (AdmitAt(k, n) = now)

\* destroy "holds no timers and no promise that will never settle": exactly
\* the callers asleep in consume have a timer, at every instant.
TimersMatchSleepers == pending = {c \in Callers : IsQueued(c)}

\* The abstract promise in the terms of the limiter: what has been granted is
\* the whole history of a key, who waits is who sleeps in consume.
Waiting == {<<c, call[c].admitAt>> : c \in {d \in Callers : IsQueued(d)}}

Promise == INSTANCE SlidingWindow WITH clock <- now, granted <- ledger, due <- Waiting

\* The limiter implements the promise: whatever it prunes, collects or keeps of
\* the past, each step that grants tokens grants them in order and within the
\* limit of every window, and nobody is let go before the instant it was granted.
KeepsPromise == Promise!Spec
============================================================================
