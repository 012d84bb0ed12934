---------------------------- MODULE TokenRefresh ----------------------------
(***************************************************************************)
(* OAuth2RefreshAdapterBase: calls that need an access token take the      *)
(* cached one or share one refresh, which presents the adapter's refresh   *)
(* token and may bring a new one.  Sessions have an adapter each, and the  *)
(* sessions of one user hold the same grant.                               *)
(*                                                                         *)
(* A refresh is run by the call that started it, and its promise is named  *)
(* by that call.  The provider keeps the refresh token, rotates it, or     *)
(* rotates it and still accepts the old one; its answer may be lost.  The  *)
(* adapter's timeout ends with the headers of the answer: nothing in this  *)
(* code bounds how long its body takes.  An access token is the instant at *)
(* which the provider lets it expire.  The clock does not move while a     *)
(* settled promise's continuations are due.                                *)
(***************************************************************************)
EXTENDS Integers

CONSTANTS
    Adapters,      \* sessions with the credentials of one grant
    Calls,         \* calls of getAccessToken that can be open at once
    None,
    Lifetime,      \* expires_in
    Buffer,        \* expiryBufferMs
    Timeout,       \* TOKEN_TIMEOUT of the adapters, for the headers of an answer
    MaxRotations,  \* bound on the refresh tokens the provider issues
    MaxTime        \* bound on the clock

ASSUME TokenAssumption ==
    /\ None \notin Calls /\ None \notin [token : Int, refresh : Int] /\ Adapters # {}
    /\ Lifetime \in Nat \ {0} /\ Buffer \in Nat /\ Timeout \in Nat \ {0}
    /\ MaxRotations \in Nat /\ MaxTime \in Nat

VARIABLES
    policy,     \* the provider's: "keep", "rotate" or "grace"
    now,
    accepted,   \* refresh tokens the provider accepts; token 0 is in the credentials
    newest,     \* the last one it issued
    cached,     \* cachedToken: the instant the provider lets it expire, or None
    expiresAt,  \* tokenExpiresAt
    current,    \* currentRefreshToken
    pending,    \* pendingAuth: the call whose refresh it is, or None
    missed,     \* history: the provider replaced the token and the adapter was not told
    cachedLate, \* history: how long after its grant the cached token was received
    pc,         \* per call: "idle", "sent", "reading", "settled", "joined", "done"
    adapter,    \* per call: the adapter it was made on
    promise,    \* per call: the call whose refresh it awaits
    presented,  \* per refresh: the refresh token it sent
    timer,      \* per refresh: when fetchWithTimeout aborts it, or None
    issued,     \* per refresh: what the provider has granted, [token, refresh], or None
    got,        \* per call: whether it returned a token
    life,       \* history: how long the returned token still lives
    late        \* history: how long after its grant it was received, also per refresh

provider == <<policy, accepted, newest>>
cache    == <<cached, expiresAt, current, pending, missed, cachedLate>>
calls    == <<pc, adapter, promise, presented, timer, issued, got, life, late>>
vars     == <<now, provider, cache, calls>>

Instants == 0 .. MaxTime + Lifetime
Tokens   == 0 .. MaxRotations
Answers  == [token : Instants, refresh : Tokens]

TypeOK ==
    /\ policy \in {"keep", "rotate", "grace"} /\ now \in 0 .. MaxTime
    /\ accepted \subseteq Tokens /\ newest \in Tokens
    /\ cached \in [Adapters -> Instants \cup {None}] /\ expiresAt \in [Adapters -> -Buffer .. MaxTime + Lifetime]
    /\ current \in [Adapters -> Tokens] /\ pending \in [Adapters -> Calls \cup {None}]
    /\ missed \in [Adapters -> BOOLEAN] /\ cachedLate \in [Adapters -> Int]
    /\ pc \in [Calls -> {"idle", "sent", "reading", "settled", "joined", "done"}]
    /\ adapter \in [Calls -> Adapters] /\ promise \in [Calls -> Calls \cup {None}]
    /\ presented \in [Calls -> Tokens] /\ timer \in [Calls -> (0 .. MaxTime + Timeout) \cup {None}]
    /\ issued \in [Calls -> Answers \cup {None}]
    /\ got \in [Calls -> BOOLEAN] /\ life \in [Calls -> Int] /\ late \in [Calls -> Int]

AnyAdapter == CHOOSE a \in Adapters : TRUE

Init ==
    /\ policy \in {"keep", "rotate", "grace"} /\ now = 0
    /\ accepted = {0} /\ newest = 0
    /\ cached = [a \in Adapters |-> None] /\ expiresAt = [a \in Adapters |-> 0]
    /\ current = [a \in Adapters |-> 0] /\ pending = [a \in Adapters |-> None]
    /\ missed = [a \in Adapters |-> FALSE] /\ cachedLate = [a \in Adapters |-> 0]
    /\ pc = [c \in Calls |-> "idle"]
    /\ adapter = [c \in Calls |-> AnyAdapter]
    /\ promise = [c \in Calls |-> None] /\ presented = [c \in Calls |-> 0]
    /\ timer = [c \in Calls |-> None] /\ issued = [c \in Calls |-> None]
    /\ got = [c \in Calls |-> FALSE] /\ life = [c \in Calls |-> 0] /\ late = [c \in Calls |-> 0]

-----------------------------------------------------------------------------
(* getAccessToken.                                                         *)

Fresh(a) == cached[a] # None /\ now < expiresAt[a]

\* The call returns a token that was received so long after its grant, or throws.
Return(c, token, after) ==
    /\ pc' = [pc EXCEPT ![c] = "done"]
    /\ got' = [got EXCEPT ![c] = token # None]
    /\ life' = [life EXCEPT ![c] = IF token = None THEN 0 ELSE token - now]
    /\ late' = [late EXCEPT ![c] = after]

CallCached(c, a) ==
    /\ pc[c] = "idle" /\ Fresh(a)
    /\ Return(c, cached[a], cachedLate[a])
    /\ adapter' = [adapter EXCEPT ![c] = a]
    /\ UNCHANGED <<now, provider, cache, promise, presented, timer, issued>>

CallJoins(c, a) ==
    /\ pc[c] = "idle" /\ ~Fresh(a) /\ pending[a] # None
    /\ pc' = [pc EXCEPT ![c] = "joined"]
    /\ adapter' = [adapter EXCEPT ![c] = a]
    /\ promise' = [promise EXCEPT ![c] = pending[a]]
    /\ UNCHANGED <<now, provider, cache, presented, timer, issued, got, life, late>>

\* Every call that finds the token expired starts a refresh.
BugMayRefresh(a) == ~Fresh(a)
MayRefresh(a) == ~Fresh(a) /\ pending[a] = None

\* refreshAccessToken sends the adapter's refresh token, up to its first await.
CallRefreshes(c, a) ==
    /\ pc[c] = "idle" /\ MayRefresh(a)
    /\ pc' = [pc EXCEPT ![c] = "sent"]
    /\ pending' = [pending EXCEPT ![a] = c]
    /\ adapter' = [adapter EXCEPT ![c] = a]
    /\ promise' = [promise EXCEPT ![c] = c]
    /\ presented' = [presented EXCEPT ![c] = current[a]]
    /\ timer' = [timer EXCEPT ![c] = now + Timeout]
    /\ UNCHANGED <<now, provider, cached, expiresAt, current, missed, cachedLate, issued,
                   got, life, late>>

-----------------------------------------------------------------------------
(* The provider, and refreshAccessToken.                                   *)

\* The provider grants a token and, by its policy, replaces the refresh token: adapters
\* that hold the one it stops accepting will not hear of it, save the one that asked.
Grant(c) ==
    /\ pc[c] = "sent" /\ issued[c] = None /\ presented[c] \in accepted
    /\ \/ policy = "keep" /\ UNCHANGED <<accepted, newest, missed>>
       \/ /\ policy # "keep" /\ newest < MaxRotations
          /\ newest' = newest + 1
          /\ accepted' = IF policy = "rotate" THEN {newest'} ELSE accepted \cup {newest'}
          /\ missed' = [a \in Adapters |-> missed[a] \/ (a # adapter[c] /\ policy = "rotate")]
    /\ issued' = [issued EXCEPT ![c] =
        [token |-> now + Lifetime, refresh |-> IF policy = "keep" THEN presented[c] ELSE newest']]
    /\ UNCHANGED <<now, policy, cached, expiresAt, current, pending, cachedLate, pc, adapter, promise,
                   presented, timer, got, life, late>>

\* The headers of the answer arrive, a grant's or a refusal's: fetchWithTimeout returns
\* and clears its timer.
Headers(c) ==
    /\ pc[c] = "sent"
    /\ pc' = [pc EXCEPT ![c] = "reading"] /\ timer' = [timer EXCEPT ![c] = None]
    /\ UNCHANGED <<now, provider, cache, adapter, promise, presented, issued, got, life, late>>

\* The buffer is forgotten.
BugExpiry == now + Lifetime

\* The cache lets a token go a buffer before its life, counted from the answer.
Expiry == now + Lifetime - Buffer

\* Every refresh presents the refresh token of the credentials.
BugRotated(c) == current[adapter[c]]

\* A refresh token in the answer replaces the adapter's.
Rotated(c) == issued[c].refresh

\* How long after its grant a token is received now.
After(token) == now - (token - Lifetime)

\* The body has arrived: the token is cached and a new refresh token replaces the old one.
Receive(c) ==
    LET a == adapter[c] IN
    /\ pc[c] = "reading" /\ issued[c] # None
    /\ late' = [late EXCEPT ![c] = After(issued[c].token)]
    /\ cachedLate' = [cachedLate EXCEPT ![a] = late'[c]]
    /\ cached' = [cached EXCEPT ![a] = issued[c].token]
    /\ expiresAt' = [expiresAt EXCEPT ![a] = Expiry]
    /\ current' = [current EXCEPT ![a] = Rotated(c)]
    /\ pc' = [pc EXCEPT ![c] = "settled"]
    /\ UNCHANGED <<now, provider, pending, missed, adapter, promise, presented, timer, issued, got,
                   life>>

\* The request fails: unanswered, refused by the provider, broken off in the body, or
\* answered without a token; but for a refusal, the provider may have replaced the
\* refresh token.
Fail(c) ==
    /\ pc[c] \in {"sent", "reading"}
    /\ pc' = [pc EXCEPT ![c] = "settled"]
    /\ missed' = [missed EXCEPT ![adapter[c]] = @ \/ (issued[c] # None /\ policy = "rotate")]
    /\ issued' = [issued EXCEPT ![c] = None] /\ timer' = [timer EXCEPT ![c] = None]
    /\ UNCHANGED <<now, provider, cached, expiresAt, current, pending, cachedLate, adapter, promise,
                   presented, got, life, late>>

\* The finally of the call that started the refresh.
Settle(c) == pending' = [pending EXCEPT ![adapter[c]] = None]

Outcome(p) == IF issued[p] = None THEN None ELSE issued[p].token

\* A shared promise that is only ever fulfilled.
BugSettled(p) == pc[p] \in {"settled", "done"} /\ issued[p] # None
Settled(p) == pc[p] \in {"settled", "done"}

\* The continuation of a call whose refresh has settled.
Resume(c) ==
    LET p == promise[c] IN
    /\ pc[c] \in {"settled", "joined"} /\ Settled(p)
    /\ Return(c, Outcome(p), late[p])
    /\ IF p = c THEN Settle(c) ELSE UNCHANGED pending
    /\ UNCHANGED <<now, provider, cached, expiresAt, current, missed, cachedLate, adapter, promise,
                   presented, timer, issued>>

-----------------------------------------------------------------------------

\* The caller goes on with its token.  A refresh is forgotten once nobody awaits it.
Leave(c) ==
    /\ pc[c] = "done" /\ \A d \in Calls \ {c} : promise[d] # c
    /\ pc' = [pc EXCEPT ![c] = "idle"]
    /\ promise' = [promise EXCEPT ![c] = None] /\ issued' = [issued EXCEPT ![c] = None]
    /\ got' = [got EXCEPT ![c] = FALSE]
    /\ life' = [life EXCEPT ![c] = 0] /\ late' = [late EXCEPT ![c] = 0]
    /\ presented' = [presented EXCEPT ![c] = 0] /\ timer' = [timer EXCEPT ![c] = None]
    /\ adapter' = [adapter EXCEPT ![c] = AnyAdapter]
    /\ UNCHANGED <<now, provider, cache>>

\* The session is created anew, from the same credentials.
Recreate(a) ==
    /\ \A c \in Calls : adapter[c] = a => pc[c] = "idle"
    /\ cached' = [cached EXCEPT ![a] = None] /\ expiresAt' = [expiresAt EXCEPT ![a] = 0]
    /\ current' = [current EXCEPT ![a] = 0] /\ cachedLate' = [cachedLate EXCEPT ![a] = 0]
    /\ missed' = [missed EXCEPT ![a] = 0 \notin accepted]
    /\ UNCHANGED <<now, provider, pending, calls>>

Due(c) == pc[c] \in {"settled", "joined"} /\ Settled(promise[c])

\* A request without headers is aborted at its timeout, one whose body is being read is
\* not; continuations run before the clock moves.
Tick ==
    /\ now < MaxTime
    /\ \A c \in Calls : ~Due(c) /\ (timer[c] # None => now < timer[c])
    /\ now' = now + 1
    /\ UNCHANGED <<provider, cache, calls>>

CallStep(c) == Headers(c) \/ Receive(c) \/ Fail(c) \/ Resume(c)

Next ==
    \/ \E c \in Calls, a \in Adapters : CallCached(c, a) \/ CallJoins(c, a) \/ CallRefreshes(c, a)
    \/ \E c \in Calls : Grant(c) \/ CallStep(c) \/ Leave(c)
    \/ \E a \in Adapters : Recreate(a)
    \/ Tick
    \/ now = MaxTime /\ UNCHANGED vars      \* the end of the bounded clock

\* Headers arrive or time out, the HTTP library ends a body that stalls, and continuations
\* run.
Fairness == \A c \in Calls : WF_vars(CallStep(c))

Spec == Init /\ [][Next]_vars /\ Fairness

-----------------------------------------------------------------------------
(* Properties.                                                             *)

InFlight(c) == pc[c] \in {"sent", "reading"}

\* An adapter runs one refresh at a time, whichever calls come while one is under way,
\* settles or fails (pendingAuth).
OneRefresh ==
    \A c, d \in Calls : InFlight(c) /\ InFlight(d) /\ adapter[c] = adapter[d] => c = d

\* An adapter's own refreshes never lose its grant: unless the provider replaced the token
\* without telling it, the token it would present next is accepted, or a refresh that will
\* replace it is answered already (currentRefreshToken, whatever the provider's policy).
GrantIsKept ==
    \A a \in Adapters : ~missed[a] =>
        \/ current[a] \in accepted
        \/ \E c \in Calls : adapter[c] = a /\ InFlight(c) /\ issued[c] # None /\ issued[c].refresh \in accepted

\* What the buffer is worth: a token that getAccessToken returns, fresh, shared or from the
\* cache, lives on for the buffer (or its whole life, if that is shorter) less the time
\* that passed between its grant and its receipt.  It is dead only if that time, which
\* nothing here bounds, has used up the buffer (tokenExpiresAt).
HandedTokenLives ==
    \A c \in Calls : got[c] =>
        (IF Buffer < Lifetime THEN Buffer ELSE Lifetime) <= life[c] + late[c]

\* A failed refresh is not held against later calls: the promise an adapter shares is that
\* of a refresh whose call has not returned (the finally of getAccessToken).
NoStalePromise ==
    \A a \in Adapters : pending[a] # None =>
        pc[pending[a]] \in {"sent", "reading", "settled"} /\ adapter[pending[a]] = a

\* Every call returns or throws, those that joined another's refresh included.
EveryCallReturns == \A c \in Calls : pc[c] \in {"sent", "joined"} ~> pc[c] = "done"

=============================================================================
