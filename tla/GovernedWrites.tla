--------------------------- MODULE GovernedWrites ---------------------------
(***************************************************************************)
(* Governed writes: from the boot of a server process to the platform call *)
(* of a write tool (packages/shared governance/ and the governance block   *)
(* of utils/mcp/tool-handler-factory.ts).  A write presents a decision,    *)
(* minted elsewhere, that is bound to one write and may be used once; the  *)
(* decision's jti is consumed in a store that is per process or shared.    *)
(*                                                                         *)
(* Time is a counter of clock ticks that the processes and the minter      *)
(* share; an instant of a decision is exp plus the clock tolerance.  A     *)
(* configuration (env) is fixed for the life of the service.  Signatures,  *)
(* claims and hashes are abstracted to one bit: whether the token is valid *)
(* and bound to exactly the call that presents it.                         *)
(***************************************************************************)
EXTENDS Integers, FiniteSets

CONSTANTS
    Instances,     \* processes of the service
    Calls,         \* invocations of write tools
    Contracts,     \* contract ids of the write tools
    Decisions,     \* minted decisions, named by their jti
    ContractOf,    \* [Decisions -> Contracts]: the contract a decision names
    Environments,  \* the configurations considered (see EnvType)
    Deadlines,     \* the instants decisions may expire at
    JtiTtl,        \* jtiTtlMs
    SweepAt,       \* entries from which the in-memory store sweeps (1024)
    MaxRestarts,   \* bound: crashes and restarts of processes
    MaxTime,       \* bound: last instant of the run
    None

Modes == {"enforce", "warn", "off"}

\* The environment variables that matter: the three contract lists, the
\* per-server and the global mode, K_SERVICE, GOVERNANCE_JTI_STORE=firestore,
\* GOVERNANCE_ALLOW_INMEMORY_JTI_UNDER_ENFORCE, and whether the server's tools
\* resolve in the release manifest and it passes an onAuthError hook.
EnvType ==
    [enforce : SUBSET Contracts, warn : SUBSET Contracts, off : SUBSET Contracts,
     server : Modes \cup {None}, global : Modes \cup {None},
     hosted : BOOLEAN, firestore : BOOLEAN, allowInMemory : BOOLEAN,
     manifest : SUBSET Contracts, hook : BOOLEAN]

ASSUME GovernanceAssumption ==
    /\ ContractOf \in [Decisions -> Contracts]
    /\ Environments \subseteq EnvType
    /\ Deadlines \subseteq Nat
    /\ JtiTtl \in Nat /\ SweepAt \in Nat \ {0}
    /\ MaxRestarts \in Nat /\ MaxTime \in Nat
    /\ None \notin Decisions \cup Modes \cup Instances \cup Contracts \cup Nat

VARIABLES
    env,       \* the configuration
    now,       \* Date.now()
    deadline,  \* [Decisions -> the last instant the decision is valid at]
    up,        \* the processes that booted
    seen,      \* [Instances -> [Decisions -> expiry or None]]: InMemoryJtiStore
    docs,      \* [Decisions -> expiresAt or None]: the Firestore collection
    live,      \* the processes whose client session is in the session store
    revoked,   \* the processes whose session has a dead upstream credential
    call,      \* [Calls -> the local state of the handler]
    applied,   \* history: the calls whose write took effect on the platform
    restarts   \* history: processes that went away

vars == <<env, now, deadline, up, seen, docs, live, revoked, call, applied, restarts>>

NoCall == [pc |-> "new", on |-> None, contract |-> None, token |-> None,
           fits |-> FALSE, until |-> 0, verdict |-> "none", result |-> "none"]

CallType ==
    [pc : {"new", "arrived", "creating", "answered", "cleared", "done"},
     on : Instances \cup {None}, contract : Contracts \cup {None},
     token : Decisions \cup {None}, fits : BOOLEAN, until : Nat,
     verdict : {"none", "off", "ok", "bad", "replayed", "storeError"},
     result : {"none", "rejected", "ran", "failed", "unauthorized", "noSession", "lost"}]

TypeOK ==
    /\ env \in EnvType
    /\ now \in Nat
    /\ deadline \in [Decisions -> Nat]
    /\ up \subseteq Instances
    /\ seen \in [Instances -> [Decisions -> Nat \cup {None}]]
    /\ docs \in [Decisions -> Nat \cup {None}]
    /\ live \subseteq up /\ revoked \subseteq live
    /\ call \in [Calls -> CallType]
    /\ applied \subseteq Calls
    /\ restarts \in Nat
-----------------------------------------------------------------------------
\* The settings that may decide the mode of a contract, strongest first.
Tiers(c) ==
    <<IF c \in env.enforce THEN "enforce" ELSE None,
      IF c \in env.warn THEN "warn" ELSE None,
      IF c \in env.off THEN "off" ELSE None,
      env.server, env.global,
      IF env.hosted THEN "warn" ELSE "off">>

\* Mutant: a contract in several lists takes the weakest of them.
BugTokenMode(c) ==
    IF c \in env.off THEN "off" ELSE IF c \in env.warn THEN "warn"
    ELSE IF c \in env.enforce THEN "enforce" ELSE IF env.hosted THEN "warn" ELSE "off"

\* resolveTokenMode: the first setting there is.
TokenMode(c) ==
    LET first == CHOOSE t \in 1 .. 6 :
            Tiers(c)[t] # None /\ \A u \in 1 .. (t - 1) : Tiers(c)[u] = None
    IN  Tiers(c)[first]

AnyEnforce == \E c \in Contracts : TokenMode(c) = "enforce"

\* Mutant: the store is taken for safe whenever one was resolved.
BugPostureThrows == FALSE

\* evaluatePosture refuses to start: something is enforced, the store is not
\* distributed, and the deployment scales out without the opt-out.  (The store
\* is distributed iff firestore is configured: a client that fails to load
\* aborts the boot too.)
PostureThrows == AnyEnforce /\ ~env.firestore /\ env.hosted /\ ~env.allowInMemory

\* Only a hosted service has several processes, and one that declares the
\* in-memory opt-out is pinned to a single one.
ScalesOut == env.hosted /\ ~env.allowInMemory

Init ==
    /\ env \in Environments
    /\ now = 0
    /\ deadline \in [Decisions -> Deadlines]
    /\ up = {} /\ live = {} /\ revoked = {}
    /\ seen = [i \in Instances |-> [d \in Decisions |-> None]]
    /\ docs = [d \in Decisions |-> None]
    /\ call = [r \in Calls |-> NoCall]
    /\ applied = {}
    /\ restarts = 0

\* bootstrapMcpServer: initializeGovernanceRuntime, then the transport, on
\* which a client opens a session.
Boot(i) ==
    /\ i \notin up
    /\ ~PostureThrows
    /\ ScalesOut \/ up = {}
    /\ up' = up \cup {i}
    /\ live' = live \cup {i}
    /\ UNCHANGED <<env, now, deadline, seen, docs, revoked, call, applied, restarts>>

\* A process goes away with its memory.  What it had already sent, creates of
\* the store and calls of the platform, may or may not still arrive.
Crash(i) ==
    LET waiting(pc) == {r \in Calls : call[r].on = i /\ call[r].pc = pc}
    IN  /\ i \in up
        /\ restarts < MaxRestarts
        /\ up' = up \ {i} /\ live' = live \ {i} /\ revoked' = revoked \ {i}
        /\ seen' = [seen EXCEPT ![i] = [d \in Decisions |-> None]]
        /\ \E late \in SUBSET waiting("creating") :
            docs' = [d \in Decisions |->
                IF docs[d] = None /\ \E r \in late : call[r].token = d
                THEN call[CHOOSE r \in late : call[r].token = d].until ELSE docs[d]]
        /\ \E late \in SUBSET waiting("cleared") : applied' = applied \cup late
        /\ call' = [r \in Calls |->
            IF call[r].on = i /\ call[r].pc \notin {"new", "done"}
            THEN [call[r] EXCEPT !.pc = "done", !.result = "lost"] ELSE call[r]]
        /\ restarts' = restarts + 1
        /\ UNCHANGED <<env, now, deadline>>

\* The client opens a session again after the server dropped it.
OpenSession(i) ==
    /\ i \in up \ live
    /\ live' = live \cup {i}
    /\ UNCHANGED <<env, now, deadline, up, seen, docs, revoked, call, applied, restarts>>

\* The platform stops accepting a session's credential.
RevokeCredential(i) ==
    /\ i \in live \ revoked
    /\ revoked' = revoked \cup {i}
    /\ UNCHANGED <<env, now, deadline, up, seen, docs, live, call, applied, restarts>>
-----------------------------------------------------------------------------
\* A write tool is called in the session, with a token or without one; only a
\* token that names the tool's contract can fit the call.
Arrive(r, i, c, d, f) ==
    /\ call[r].pc = "new"
    /\ i \in live
    /\ f => d # None /\ ContractOf[d] = c
    /\ call' = [call EXCEPT ![r] = [NoCall EXCEPT !.pc = "arrived", !.on = i,
                                        !.contract = c, !.token = d, !.fits = f]]
    /\ UNCHANGED <<env, now, deadline, up, seen, docs, live, revoked, applied, restarts>>

Unbound(r) == call[r].token = None \/ ~call[r].fits

Expired(r) == call[r].token # None /\ now > deadline[call[r].token]

\* An enforced write whose definition hash is unknown is refused outright.
Unresolved(r) ==
    /\ TokenMode(call[r].contract) = "enforce"
    /\ call[r].contract \notin env.manifest

DropSession(i) ==
    IF env.hook THEN live' = live \ {i} /\ revoked' = revoked \ {i}
    ELSE UNCHANGED <<live, revoked>>

\* What the handler does with a verdict: enforce throws Unauthorized on any
\* verdict but ok, and the catch fires the hook; otherwise the call goes on.
Conclude(r, v) ==
    IF TokenMode(call[r].contract) = "enforce" /\ v # "ok"
    THEN /\ call' = [call EXCEPT ![r].pc = "done", ![r].verdict = v, ![r].result = "rejected"]
         /\ DropSession(call[r].on)
    ELSE /\ call' = [call EXCEPT ![r].pc = "cleared", ![r].verdict = v]
         /\ UNCHANGED <<live, revoked>>

\* The store reads the clock again, after the arguments were hashed: a tick
\* may have passed since the expiry was checked.
StoreClock == {t \in {now, now + 1} : t <= MaxTime}

\* consumeTtlMs: at least the life the decision had left at the first reading.
ConsumeTtl(d) == IF deadline[d] - now > JtiTtl THEN deadline[d] - now ELSE JtiTtl

\* Mutant: an entry is gone at its very last instant.
BugRemembered(i, d, t) == seen[i][d] # None /\ seen[i][d] > t

\* InMemoryJtiStore: an entry is still present at its very last instant.
Remembered(i, d, t) == seen[i][d] # None /\ seen[i][d] >= t

\* A fresh jti is stored, and a large map is rid of its expired entries.
Remember(i, d, t) ==
    LET entries == {e \in Decisions : seen[i][e] # None} \cup {d}
        kept(e) == Cardinality(entries) < SweepAt \/ Remembered(i, e, t)
    IN  seen' = [seen EXCEPT ![i] = [e \in Decisions |->
            IF e = d THEN t + ConsumeTtl(d) ELSE IF kept(e) THEN @[e] ELSE None]]

\* Mode off: the call goes on without a look at its token.
PassOff(r) ==
    /\ call[r].pc = "arrived"
    /\ TokenMode(call[r].contract) = "off"
    /\ call' = [call EXCEPT ![r].pc = "cleared", ![r].verdict = "off"]
    /\ UNCHANGED <<env, now, deadline, up, seen, docs, live, revoked, applied, restarts>>

\* Mutant: the jti is consumed before the bindings are checked.
BugVerifyBad(r) ==
    /\ call[r].pc = "arrived"
    /\ TokenMode(call[r].contract) # "off"
    /\ call[r].token # None
    /\ Unbound(r) \/ Expired(r)
    /\ Remember(call[r].on, call[r].token, now)
    /\ Conclude(r, "bad")
    /\ UNCHANGED <<env, now, deadline, up, docs, applied, restarts>>

\* verifyDecisionToken up to a verdict without the store.
VerifyBad(r) ==
    /\ call[r].pc = "arrived"
    /\ TokenMode(call[r].contract) # "off"
    /\ Unresolved(r) \/ Unbound(r) \/ Expired(r)
    /\ Conclude(r, "bad")
    /\ UNCHANGED <<env, now, deadline, up, seen, docs, applied, restarts>>

Verified(r) ==
    /\ call[r].pc = "arrived"
    /\ TokenMode(call[r].contract) # "off"
    /\ ~(Unresolved(r) \/ Unbound(r) \/ Expired(r))

\* The in-memory store answers in the same turn.
ConsumeInMemory(r) ==
    LET i == call[r].on
        d == call[r].token
    IN  /\ Verified(r)
        /\ ~env.firestore
        /\ \E t \in StoreClock :
            /\ now' = t
            /\ \/ Remembered(i, d, t) /\ Conclude(r, "replayed") /\ UNCHANGED seen
               \/ ~Remembered(i, d, t) /\ Conclude(r, "ok") /\ Remember(i, d, t)
        /\ UNCHANGED <<env, deadline, up, docs, applied, restarts>>

\* The Firestore store sends doc(jti).create().
SendCreate(r) ==
    /\ Verified(r)
    /\ env.firestore
    /\ \E t \in StoreClock :
        /\ now' = t
        /\ call' = [call EXCEPT ![r].pc = "creating", ![r].until = t + ConsumeTtl(call[r].token)]
    /\ UNCHANGED <<env, deadline, up, seen, docs, live, revoked, applied, restarts>>

\* The create reaches Firestore: it is atomic there, and the answer on its way
\* back (ALREADY_EXISTS, success, or an error in place of either) is the
\* verdict to be.
CreateLands(r) ==
    LET d == call[r].token
    IN  /\ call[r].pc = "creating"
        /\ docs' = [docs EXCEPT ![d] = IF @ = None THEN call[r].until ELSE @]
        /\ \E v \in {IF docs[d] = None THEN "ok" ELSE "replayed", "storeError"} :
            call' = [call EXCEPT ![r].pc = "answered", ![r].verdict = v]
        /\ UNCHANGED <<env, now, deadline, up, seen, live, revoked, applied, restarts>>

\* The create never reaches Firestore: the client gives up with an error.
CreateFails(r) ==
    /\ call[r].pc = "creating"
    /\ call' = [call EXCEPT ![r].pc = "answered", ![r].verdict = "storeError"]
    /\ UNCHANGED <<env, now, deadline, up, seen, docs, live, revoked, applied, restarts>>

\* consumeOnce settles; an error of the store is a verdict like the others.
Answer(r) ==
    /\ call[r].pc = "answered"
    /\ Conclude(r, call[r].verdict)
    /\ UNCHANGED <<env, now, deadline, up, seen, docs, applied, restarts>>

Finish(r, result) == call' = [call EXCEPT ![r].pc = "done", ![r].result = result]

\* tool.logic on a session another call has dropped meanwhile.
RunNoSession(r) ==
    /\ call[r].pc = "cleared"
    /\ call[r].on \notin live
    /\ Finish(r, "noSession")
    /\ UNCHANGED <<env, now, deadline, up, seen, docs, live, revoked, applied, restarts>>

\* tool.logic with a dead credential: Unauthorized, and the hook fires.
RunUnauthorized(r) ==
    /\ call[r].pc = "cleared"
    /\ call[r].on \in revoked
    /\ Finish(r, "unauthorized")
    /\ DropSession(call[r].on)
    /\ UNCHANGED <<env, now, deadline, up, seen, docs, applied, restarts>>

\* The platform applies the write; the call may still report a failure (an
\* answer lost, an output that does not validate).
RunApplied(r) ==
    /\ call[r].pc = "cleared"
    /\ call[r].on \in live \ revoked
    /\ applied' = applied \cup {r}
    /\ \E result \in {"ran", "failed"} : Finish(r, result)
    /\ UNCHANGED <<env, now, deadline, up, seen, docs, live, revoked, restarts>>

\* The platform does not apply the write.
RunFailed(r) ==
    /\ call[r].pc = "cleared"
    /\ call[r].on \in live \ revoked
    /\ Finish(r, "failed")
    /\ UNCHANGED <<env, now, deadline, up, seen, docs, live, revoked, applied, restarts>>

\* Firestore's TTL policy deletes an expired document, long after any create
\* of the same jti has been answered or has timed out.
Reclaim(d) ==
    /\ docs[d] # None /\ docs[d] < now
    /\ \A r \in Calls : call[r].pc = "creating" => call[r].token # d
    /\ docs' = [docs EXCEPT ![d] = None]
    /\ UNCHANGED <<env, now, deadline, up, seen, live, revoked, call, applied, restarts>>

Tick ==
    /\ now < MaxTime
    /\ now' = now + 1
    /\ UNCHANGED <<env, deadline, up, seen, docs, live, revoked, call, applied, restarts>>

Verify(r) == PassOff(r) \/ VerifyBad(r) \/ ConsumeInMemory(r) \/ SendCreate(r)

Run(r) == RunNoSession(r) \/ RunUnauthorized(r) \/ RunApplied(r) \/ RunFailed(r)

Step(r) == Verify(r) \/ CreateLands(r) \/ CreateFails(r) \/ Answer(r) \/ Run(r)

Next ==
    \/ \E i \in Instances : Boot(i) \/ Crash(i) \/ OpenSession(i) \/ RevokeCredential(i)
    \/ \E r \in Calls, i \in Instances, c \in Contracts, d \in Decisions \cup {None}, f \in BOOLEAN :
        Arrive(r, i, c, d, f)
    \/ \E r \in Calls : Step(r)
    \/ \E d \in Decisions : Reclaim(d)
    \/ Tick

Spec == Init /\ [][Next]_vars
-----------------------------------------------------------------------------
\* The mode an operator reads off the settings: the contract is listed under
\* enforce, or an unlisted one inherits enforce.
MustEnforce(c) ==
    \/ c \in env.enforce
    \/ /\ c \notin env.warn \cup env.off
       /\ env.server = "enforce" \/ (env.server = None /\ env.global = "enforce")

\* The calls that took effect on the strength of decision d (presented to another
\* contract's tool, which may not look at it, it decides nothing).
EffectsOf(d) ==
    {r \in applied : call[r].token = d /\ call[r].contract = ContractOf[d]}

\* "jti consumed exactly once": a decision for an enforced write takes effect
\* at most once, whatever is retried, on whichever process, at any instant of
\* its life, as long as the store remembers (distributed, or no restart).
OneEffectPerDecision ==
    env.firestore \/ restarts = 0 =>
        \A d \in Decisions : MustEnforce(ContractOf[d]) => Cardinality(EffectsOf(d)) <= 1

\* An enforced write takes effect only for a call its own decision was minted
\* for, and never for one the client was told was rejected; a contradiction
\* between the lists never turns the check off.
EffectWasDecided ==
    \A r \in applied : MustEnforce(call[r].contract) =>
        call[r].fits /\ call[r].verdict = "ok" /\ call[r].result # "rejected"

\* Only the write a decision was minted for can use it up: a call is told that
\* its decision is spent only after another fitting call has presented it.
SpentByItsOwnWrite ==
    \A r \in Calls : call[r].verdict = "replayed" =>
        \E q \in Calls \ {r} : call[q].token = call[r].token /\ call[q].fits

\* The decisions whose single use the service answers for: those of enforced
\* writes, as long as the store remembers.
Promised(d) == MustEnforce(ContractOf[d]) /\ (env.firestore \/ restarts = 0)

Given ==
    {g \in Decisions \X Calls :
        Promised(g[1]) /\ call[g[2]].token = g[1] /\ call[g[2]].verdict = "ok"}

PromisedEffects == {r \in applied : \E d \in Decisions : Promised(d) /\ r \in EffectsOf(d)}

Promise == INSTANCE SingleUse WITH given <- Given, effects <- PromisedEffects

\* The service implements the single use of a decision: two stores, several
\* processes, late answers and restarts amount to a decision being given to one
\* call, and every effect to a call that had been given its decision by then.
DecisionsUsedOnce == Promise!Spec

\* The catch of the handler drops the session of a dead credential; a session
\* whose credential works stays, whatever its calls are refused for.
LiveCredentialKeepsSession ==
    [][\A i \in live \ revoked : i \in up' => i \in live']_vars
=============================================================================
