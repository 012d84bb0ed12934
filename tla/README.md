# Formal models of the Cesteral MCP servers

TLA+ models of the shared runtime of the Cesteral advertising MCP servers, the
TLC runs that check them on small instances, and TLAPS proofs about the ones
that hold for every value of their constants. Paths below are relative to
`src/packages/shared/src` unless they start with `src/`.

The repository is a monorepo of 13 platform servers (`src/packages/*-mcp`) over
one shared package. A platform server declares tools and a thin HTTP client;
everything that has state, waits, retries or races lives in the shared package.
These models are of the shared package, and see a platform server as a
parameter: its error-class hook, its costs per bulk item, whether it passes
`onAuthError`.

## 1. Inventory

A server is one Node process. Handlers run one at a time between awaits, so a
race here is always about state read before an `await` and used after it. A
tool call passes, in this order, the HTTP transport (session), the tool handler
(governance), the platform client (rate limiter, then retrying fetch) and the
platform. Several processes of one server may run behind a load balancer; they
share nothing but Firestore and a bucket, each only when it is configured.

| Component | Source | State it keeps | Operations | Interacts with |
|---|---|---|---|---|
| Rate limiter | `utils/http/rate-limiter.ts` | per key an ascending array of instants, past admissions and future reservations alike; the timers of sleeping callers | `consume`, `projectAdmissions`, `getRemainingTokens`, `reset`, `clear`, `cleanup` (interval), `destroy` | called by every platform client; destroyed by `onShutdown` |
| Bulk pre-check and executor | `utils/mcp/bulk-capacity.ts`, `bulk-executor.ts` | none of its own: projects on the limiter, then runs items in groups | `assertBulkCapacity`, `executeBulkConcurrent` | the limiter, twice: once to project and once per item |
| Retrying HTTP client | `utils/http/retryable-fetch.ts`, `fetch-with-timeout.ts` | the loop of one request: attempt, last error, delay | `executeWithRetry`, `fetchWithTimeout` | the platform |
| HTTP sessions | `utils/transport/mcp-http-transport-factory.ts`, `mcp-transport-helpers.ts`, `session-store.ts` | five maps keyed by session id: services, fingerprint and auth context, creation and activity times, servers, transports | POST and DELETE handlers, idle sweep, `cleanupSession`, `detachSession`, `shutdown` | the MCP SDK's server and transport objects; the tool handler's `onAuthError` |
| Governance | `governance/*.ts` | consumed `jti`s, in memory or in Firestore; the posture decided at boot | `initializeGovernanceRuntime`, `resolveTokenMode`, `verifyDecisionToken`, `consumeOnce` | the tool handler; Firestore |
| Tool handler factory | `utils/mcp/tool-handler-factory.ts` | none across calls | one call: governance, `tool.logic`, error path | governance, sessions (drops one), the platform client |
| OAuth2 refresh | `auth/oauth2-refresh-adapter-base.ts` | cached access token and its expiry, current refresh token, the refresh under way | `getAccessToken`, `refreshAccessToken` | one adapter per session; platform clients, the token endpoint |
| Report run and polling | `utils/reporting/report-polling.ts`, `src/packages/dbm-mcp/src/services/bid-manager/` | of one run: the query and report ids it knows, the attempt, the cap's signal | create, run, poll, download, delete, retry | the Bid Manager; its callers below |
| Async task tools | `utils/mcp/async-task-tool.ts`, the task store of a `dbm-mcp` session | tasks with a TTL and a status | create, the detached worker, store of a result or failure | a report run; the session's end |
| CSV store, mirror and spill | `utils/reporting/report-csv-store.ts`, `report-csv-resource.ts`, `report-spill.ts` | entries with a TTL and a cap in each process; copies and spilled objects in a bucket | `store`, `get`, `getRemote`, `list`, `clearForSession`, spill, delete by prefix | GCS; the session's end (`onDelete` hook of `session-services.ts`) |
| Interaction logger | `utils/observability/interaction-logger.ts` | buffered records, the flush under way, the registry of live loggers | `append`, flush, `close`, `closeAllInteractionLoggers` | GCS; one logger per MCP server, that is per session |
| Bootstrap and shutdown | `utils/transport/server-bootstrap.ts` | the order of start and stop | start, signal handlers | every component above |
| Schemas, hashes, report views, elicitation, pagination, platform servers, tooling | see `PROJECT.json` | none that outlives a call | pure functions | |

`PROJECT.json` lists each of them with its files and its status, and the
hazards of each at the line where they bite.

What is hard in each, and what makes it correct:

* **Rate limiter.** Callers overlap on a key, sleep on timers that fire late,
  and the periodic collection and shutdown run while they sleep. Correct means:
  no window of the platform sees more than `limit` tokens, callers are admitted
  in the order they called, a reservation never moves, every sleeper settles.
* **Bulk.** The projection is taken at one instant and used over many, and it
  walks the items in another order than the executor runs them. Correct means:
  an accepted batch is not rate limited half-way, the projection never promises
  an item too late an instant, every item is settled, shutdown included.
* **Retrying client.** An answer that is lost leaves open whether the platform
  acted. Correct means: a create is never processed twice, a refusal can be
  relied on, no attempt precedes the wait the platform named, the call ends.
* **Sessions.** Four awaits between "no session" and "serving", any of which
  can interleave with a DELETE, the idle sweep, an upstream rejection or
  another request of the same id. Correct means: a tool runs with its own
  caller's services, nothing is held that no cleanup can find, no server or
  transport leaks, a session that exists can be used.
* **OAuth2 refresh.** Calls overlap with a refresh that may fail, come late, or
  rotate the refresh token. Correct means: one refresh at a time, a returned
  token lives as long as the buffer is worth after the time its answer took, a
  failure is not held against later calls, and the adapter's own refreshes never
  lose the grant.
* **Reports.** A run makes many requests, any of which may be lost or refused,
  under a cap that may pass at any moment or as a worker nobody awaits. Correct
  means: no second report beside one that runs, no query left behind in
  silence, a task that lives as long as its worker, and an end.
* **CSV store and spill.** Memory, mirror and objects are written at different
  times, by calls that may outlive their session, in several processes.
  Correct means: a body reaches only its own session and only in time; eviction
  and clean-up take what they should and nothing else.
* **Logger and shutdown.** An append to an object is a download and a save, and
  the final flush meets one under way. Correct means: nothing recorded is
  dropped or taken back, what was recorded before a signal is stored at exit,
  and a signal ends the process.
* **Governance.** A decision is single-use across retries, processes, crashes
  and store failures, and every verdict but "ok" must stop an enforced write.
  Correct means: at most one effect per decision, no enforced write without its
  own decision, and a decision spent by nobody but its own write.

## 2. Modules

| Module | Models | State | Actions |
|---|---|---|---|
| `RateLimiter` | the limiter | `now`, `limits`, `requests`, `pending`, `call`; history `ledger`, `wasReset`, `issued` | `ConsumeUnlimited`, `ConsumeNow`, `ConsumeQueued`, `ConsumeRejected`, `Wake`, `Reset`, `Cleanup`, `Destroy`, `Tick` |
| `SlidingWindow` | what the limiter promises: tokens granted at instants, in order, within the limit of every window; who waits is let go at its instant | `clock`, `granted`, `due` | `AdmitNow`, `AdmitLater`, `LetGo`, `Forget`, `Close`, `Advance` |
| `RateLimiter_proofs`, `RetryableFetch_proofs`, `HttpSessions_proofs`, `GovernedWrites_proofs`, `AsyncTask_proofs`, `ReportStore_proofs`, `TokenRefresh_proofs`, `ProcessEnd_proofs` | theorems; the first and the fourth also prove the mappings to the abstract modules, and the first is about `BulkBatch` too | | |
| `BulkBatch` | a bulk tool over the limiter; extends `RateLimiter` and conjoins its actions | `phase`, `budgeted`, `step`, `failed` | `Refuse`, `Accept`, `ItemCall`, `ItemWake`, `OtherCall`, `OtherWake`, `Shutdown`, `BTick` |
| `RetryableFetch` | one platform request | `req`, `pc`, `attempt`, `now`, `resumeAt`, `answer`, `wait`, `result` | one per branch of the loop, plus the platform's `Process` and `Refuse` |
| `HttpSessions` | the session maps and the handlers on them | `m` (the maps), `req` (handlers), `job` (cleanups) | one per stretch of code from one await to the next |
| `GovernedWrites` | boot, decision verification, both stores, the write | `env`, `up`, `seen`, `docs`, `live`, `revoked`, `call` | boot, crash, arrival, each step of verification, the store's answers, the write |
| `SingleUse` | what decision tokens promise: a decision is given to one call, and only a call it was given to takes effect | `given`, `effects` | `Give`, `TakeEffect`, `Forget` |
| `TokenRefresh` | the OAuth2 adapters of one grant and the provider | `cached`, `expiresAt`, `current`, `pending` per adapter; `pc`, `promise`, … per call; the provider's `accepted`, `newest` | `CallCached`, `CallJoins`, `CallRefreshes`, `Grant`, `Headers`, `Receive`, `Fail`, `Resume`, `Leave`, `Recreate`, `Tick` |
| `ReportRun` | one report run against a Bid Manager | `pc`, `attempt`, `reads`, `delay`, what is known, `query`, `report`, the cap | one per request begun, answered, lost or refused, one per sleep |
| `AsyncTask` | the callers of a run; extends `ReportRun` | `worker`, `task`, `since`, `closed`, `lag` | `Executed`, `StoreCompleted`, `StoreFailed`, `TaskExpires`, `CloseSession`, `Lag` |
| `ReportStore` | report bodies in memory, mirror and bucket, over processes and sessions | `open`, `call`, `entries`, `mirror`, `objects`, `sweep`, `read` | open and close of a session, the steps of a download, of a read and of a deletion, `Crash`, `Tick` |
| `InteractionLog` | the loggers' buffered GCS mode | `buffer`, `flight`, `batch`, `existing`, `object`, `closing` per logger | `Construct`, `Append1`, `TimerFlush`, the steps of a flush, `CloseAll`, `Drain` |
| `ProcessEnd` | both shutdown handlers over the loggers; extends `InteractionLog` | `mode`, `handler`, `snapshot`, `exited` | `Signal`, `StartDrain`, `Drained`, `Exit`, with the logger's |
| `MC…` | instances for TLC | | |

`PROJECT.json` maps every definition to the lines it translates. Variables
called *history* in a module are not in the code: they record what happened, so
that a property can speak of it.

### RateLimiter

`consume` computes its admission instant and appends its reservations in one
synchronous step, so it is one action, split by outcome. `requests[k]` is the
code's array for the key that pattern matching selected; a `limit` and a window
per pattern are the constants, and keys that no pattern matches are those
outside `LimitedKeys`. `EarliestAdmission` is the code's index arithmetic, not
a specification of it; `WindowNeverOvershot` over `ledger`, which no pruning
touches, is the specification. `Tick` may not pass a timer by more than
`MaxLateness`, which stands for a busy event loop.

After `destroy` the limits are gone and `consume` lets everybody through: that
is what the code does in the seconds between `onShutdown` and exit, and why
`PlatformWindow` speaks of keys whose limit is configured.

### BulkBatch

Item `i` of the batch is caller `i` of the limiter. `Projection` walks the
batch as `projectAdmissions` does, `Running` and `MayCall` hold the executor's
groups and the order in which `batch.map` starts a group. Others may call the
same bucket until `SlowUntil`; `crowded` remembers whether they did.

### RetryableFetch

The platform answers with a class of response. `Process` counts what the
platform did; the answer it sends may be a 5xx or nothing. `SafeToResend`,
`RetryableStatus` and the two tests of the retry budget are the code's.
`BrokenOff` says what each class becomes when its body ends early: an error's
text is read as empty, a 2xx does not parse. `Predicates` holds the three
error-class hooks found in the platform clients.

### HttpSessions

An action runs from one await to the next. An await on I/O lets other handlers
run; one that resolves in microtasks does not. Which is which depends on the
platform and the SDK, and so does whether clients wait for an answer before
they ask again. A *discipline* fixes both: the awaits of `Brief` that yield
(`Turn` keeps the loop for the others), and whether requests take turns, which
the protocol asks of a well-behaved client and the code does not enforce.
A discipline also bounds the requests sent and the cleanups the sweep may have in
flight, two of which may be of one session, since `startSweep` looks only at what
is tracked. `Init` chooses one of `Disciplines`, so that one run checks several. Verifying
a credential, building a platform's services and serving a call always yield.
The SDK is external; what the code relies on is that `connect` on a connected
server throws and that closing either end disconnects both.

### GovernedWrites

`env` is one deployment: the three contract lists, both modes, whether it is
hosted, which store it has, the opt-out. `Init` chooses it, so a run checks all
of them. `PostureThrows` is the refusal to boot. `Crash` loses a process with
its memory, and lets whatever it had already sent arrive or not. A jti's entry
lives as `consumeTtlMs` computes; `StoreClock` is the store's own reading of
the clock, taken after the arguments are hashed, so a tick may lie between it and
the verifier's. Signature, claims and
argument hash are one bit, `fits`.

### SlidingWindow and SingleUse

Neither knows queues, timers, stores or verification. `RateLimiter` maps the
history of a key to what was granted and its sleepers to who is due;
`GovernedWrites` maps the calls whose verdict is "ok" to the decisions given,
and the enforced writes that were applied to the effects. The mapped
specifications, `KeepsPromise` and `DecisionsUsedOnce`, are properties of a run,
and `RateLimiter_proofs` and `GovernedWrites_proofs` prove them.

### TokenRefresh

A promise of the code is named by the call that started it, so that sharing it
is `promise[c] = promise[d]`. `Headers` is where `fetchWithTimeout` returns and
clears its `timer`; the adapter then awaits `response.json()`, and nothing in the
code bounds how long (`Tick` stops at a running timer only). `Receive`, `Fail` and
`Resume` are the continuations after the body and after the shared promise; the
clock may not move while a settled promise's are due. `late` remembers how long
after its grant a token was received. The provider keeps, rotates, or rotates and
still accepts the old token; `missed` remembers that it replaced one without
the adapter hearing of it, through another session of the grant or a lost
answer. No server passes a persistence hook, so a session that is created anew
starts from the client's credentials.

### ReportRun and AsyncTask

`pc` names what a run awaits. Between any two of its steps the cap may pass
(`Expire`), and the platform may finish or fail the report (`Generate`). A report
that is under way is "running" (QUEUED, RUNNING or no state, which
`getReportStatus` reads as QUEUED) or "unspecified" (STATE_UNSPECIFIED): polling
goes on for either, `continueQuery` resumes only the first. `overlaps` remembers
what it had read when a query was run beside a report that had not failed. A
request's answer is a step of its own; it may be lost after the platform acted.
`slept` adds up the sleeps; in `AsyncTask` the clock is `slept + lag`, so that the
task's TTL, which is sized from the worst case of the sleeps, can be compared
with what a run takes.

### ReportStore

A body is named by the call that downloaded it. Storing is synchronous, the
mirror write is started and not awaited, the save of a spilled body is awaited and
may land after its caller gave up (`lost`). A deletion is a `deleteFiles`: a
listing, then one deletion after another, each of which may be the last. `late`,
`undisturbed`, `owed`, `there`, `inTime` and `failed` are history. A read that the storage
fails (`FetchFails`) is answered like one of a body that is gone, as in the code. Two processes may hold
the same session, because a process rebuilds a session it does not know; the
hook runs in the one where it ends.

### InteractionLog and ProcessEnd

A record is its number, so a log is right when entry `i` is `i`. A flush is a
download and a save of the whole object; the request may fail at either, and a
save that landed may lose its answer, after which the lines are written again.
`ProcessEnd` adds the signal handlers: the HTTP handler runs once, each stdio
signal runs its own.

## 3. Runs

All bounds are constants of the modules and appear in the `.cfg` files. A run checks
what only a run can show and the properties a reader should see on an instance;
the type invariants and the narrower invariants that section 4 proves for every
instance (`FifoReservations`, `WindowNeverOvershot`, `ReservationKept`,
`RemainingIsExact`, `TimersMatchSleepers`, `SleepsToRetry`,
`ClosedKeepsOnlyLateEntries`, `NoStalePromise`) are left to their theorems.

| Run | What it asks | Bounds, and why they are enough |
|---|---|---|
| `RateLimiter_safety` | Does the platform see the window, whatever fires late; does the limiter implement `SlidingWindow` (grants in call order, inside the window, never moved, sleepers let go at their instant) | 3 callers with costs 1–3, one key, limit 3, window 3, wait up to 4, calls until 4, time until 9: a queue builds past a whole window, calls are rejected, the collection (age 4) and resets happen while callers sleep. Timers may be one tick late. Callers are symmetric. |
| `BulkBatch_uniform` | Is an accepted batch of one-write items never cut, is the projection a lower bound, does every item settle | 3 items in groups of 2, cost 2, limit 4, one other caller until instant 2, shutdown at any time: two groups, the second held back by the window. |
| `BulkBatch_readwrite` | The same promise for items that read and then write | 3 items of cost (1, 3), limit 4, nobody else. **Violated**, see below. |
| `RetryableFetch_request` | Is a create processed at most once, can a refusal be relied on, is a status's wait honoured, does the call end | 2 retries, a backoff that reaches its cap, named waits below, at and above the cap, timers up to one tick late; every method, opt-in, hook and kind of platform. |
| `RetryableFetch_haste` | The wait promise without the restriction to statuses | as above. **Violated**. |
| `HttpSessions_requests` | Do overlapping requests leave a consistent session: forgotten when dropped, found by the sweep when held, no server leaked, published transports open; and with clients that take turns, does a tool run with its caller's services and is the session never stuck | One id, 2 credentials; 3 requests that overlap where only credential checks, service construction and tool calls yield; of clients that take turns, 3 where every await does and the sweep has up to two cleanups in flight, of the same session, and 4 where the closes do not. Three suffice for one to be between two awaits while a second rebuilds and a third deletes. |
| `HttpSessions_wedged` | Is the session never stuck when its requests overlap | 3 requests, one credential. **Violated**. |
| `GovernedWrites_writes` | At most one effect per decision, no enforced write without its own decision, a decision spent only by its own write, and is `SingleUse` implemented | 2 calls, 1 decision, 2 contracts, 2 processes, one crash, time until 3, every combination of the mode settings on one process and hosted deployments with and without the shared store. Two calls are a call and its retry; two processes are where the retry may go; the sweep threshold of 1 makes every store sweep. |
| `TokenRefresh_grant` | Is there one refresh at a time, does a returned token live, is the grant kept, does every call return | 2 adapters of one grant, 2 open calls, 2 rotations, tokens of lifetime 3 with a buffer of 2, headers up to one tick late and bodies any time later, until time 4: a body may take less than the buffer, as long, or longer than the token lives, and a token expires and is renewed twice, while the second call comes before, during and after. |
| `AsyncTask_reports` | Is no query created twice or run beside a report under way (save after STATE_UNSPECIFIED), is no query left behind in silence, how far does a run overshoot its cap, is a task "working" exactly as long as its worker, does the run end | 3 attempts of 3 reads with a delay that reaches its cap (3, then 4), a cooldown of 2, a TTL headroom of 2 and a lag of up to 3: the first, a middle and the last attempt differ, and the lag can exceed the headroom. |
| `ReportStore_sessions` | Is a body served to its own session in time and found while the mirror has it (save by a read the storage fails), does a body stay in memory until it expires, its own session ends or others take its place, do links work, are deletions complete | 2 processes, 2 sessions, 2 downloads (each stored or spilled), one read, one deletion, capacity 1, lifetime 1, time until 1, one crash, with and without a bucket. Two bodies are one and the one that evicts it, or one of each session. With room for one the order of eviction does not show: that the first stored goes is proved for every capacity, with the rest of section 4. |
| `ProcessEnd_drain` | Is no record dropped or taken back, is what preceded a signal stored at exit, does a signal end the process | 2 loggers, up to 2 records in each and 3 together, one signal in stdio mode and two in HTTP mode, one lost answer per logger: a record arrives during a flush and another during the drain. |

`CHECK_DEADLOCK FALSE` in the `GovernedWrites` and `ReportStore` configurations:
the bounded systems really stop there, when every call, read and deletion is
done and the clock has reached its bound. The other modules end in an explicit
stuttering step (`Stop`, `BStop`, `Finished`, `Settled`), so that TLC reports any
other state without a successor.

### Disagreements met while modelling

Each is a run that states what a comment or a test says, and a counterexample
of what the code does; `PROJECT.json` quotes the lines.

* `BulkBatch_readwrite`: costs are projected item after item, but a group of
  items starts together, so their reads reserve before their writes. A batch of
  three read-then-write items, alone on its bucket, is accepted and then
  rate limited half-way.
* `HttpSessions_wedged`: the catch of the POST handler deletes the session's
  published transport after an await, whichever transport it is by then. The
  server stays connected to the one that was unpublished, and each later request
  fails to connect until the session ends.
* `RetryableFetch_haste`: the envelope path cuts a `Retry-After` to
  `maxBackoffMs`, which the status path refuses to do.

### Fairness

* `BulkBatch`: time passes and a due timer fires (`WF` of `BTick` and of each wake):
  the event loop runs. An item that may call calls: each platform request is sent
  with a timeout, so the work between two consumes ends.
* `RetryableFetch`: the handler's steps are the event loop's; a request that is
  out is answered or aborted by `fetchWithTimeout`. The timer of
  `fetchWithTimeout` ends with the headers, so that a body that stalls is ended by
  the HTTP library and nothing in this repository; `WF` of `ReadBody` assumes
  that it does.
* `TokenRefresh`: the headers of a token request arrive or its timeout aborts it, a
  body that stalls is ended by the HTTP library and nothing in this repository
  (as for `RetryableFetch`), and a continuation that is due runs. Nobody is obliged to grant, and `Headers`,
  `Receive` and `Fail` are one fair choice.
* `AsyncTask`: every request of a run is answered or fails, every sleep ends, the
  worker's next step runs. The platform need not finish a report, the cap need not
  pass.
* `ProcessEnd`: storage requests settle, `close()` polls on, a handler whose await is
  over goes on. No signal, flush or call has to come.
* Nobody is obliged to call, to crash, to reset or to shut down.

## 4. Proofs

`RateLimiter_proofs` proves, for every set of keys and callers and all values of
the limit, window, wait, collection age and lateness (`LimiterAssumption`:
positive limit and window, a collection age no shorter than the window):

| Theorem | Says |
|---|---|
| `TypeCorrect` | `Spec => []TypeOK` |
| `FifoAdmission` | `Spec => []FifoReservations` |
| `WindowBound` | `Spec => []WindowNeverOvershot` |
| `ReservationsStay` | `Spec => []ReservationKept` |
| `NoOrphanTimer` | `Spec => []TimersMatchSleepers` |
| `RemainingExact` | `Spec => []RemainingIsExact` |
| `PlatformSeesWindow` | `Spec => []PlatformWindow` |
| `Implements` | `Spec => KeepsPromise`: every step of the limiter is a step of `SlidingWindow` or none |
| `BatchUsesTheLimiter` | `BSpec => Spec`: a bulk batch makes no step the limiter does not, so all of the above holds while one runs |
| `ProjectionBoundsBatch` | `SameCost` implies `BSpec => []ProjectionIsLowerBound` |
| `AcceptedBatchRuns` | `SameCost` implies `BSpec => []AcceptedBatchIsNotCut` |

The window bound is about the whole history of a key, but the code decides on a
pruned array. `QueueOK(r, g, t)` ties them: the array `r` is the unexpired end of
the history `g`, everything before it is a window old, and a queue that reaches
into the future starts exactly one window after the entry `Limit` places before
it. The last conjunct is what makes `EarliestAdmission` right for a call that
lands behind a queue: without it, pushing behind the last reservation could put
too many tokens in one window. The inductive invariant is

    IInv == TypeOK /\ AllQueuesOK /\ ReservationKept /\ TimersMatchSleepers

The lemmas follow the code: filtering an ascending array drops a prefix
(`ExpiredIsPrefix`, `LiveIsSuffix`), pruning keeps `QueueOK` for any age no
shorter than the window (`PruneKeepsQueue`), where the admission instant lies
(`AdmissionInstant`), and that appending `n` tokens at it keeps `QueueOK`
(`PushKeepsQueue`). `StepIInv` has one step per action.

The induction does not depend on how callers interleave, on the lateness of
timers, or on the bounds `LastArrival` and `MaxTime`.

What a platform sees is another sequence: tokens leave when a timer fires, which may
be late and in another order than they were reserved. `PlatformInv` is the
invariant next to `IInv`: no timer is overdue by more than `MaxLateness`, every
sleeper holds a stretch of the key's history of its own (`SleepersHold`), and the
last releases are matched one to one with reservations that nobody holds any more,
each released at its instant or at most `MaxLateness` after it (`ReleasesMatch`).
`Limit + 1` releases are then `Limit + 1` distinct reservations, and of those two
lie a window apart (`MatchedIsSpaced`). `reset` breaks the match, for the queued keep
their instants while the history restarts, hence `limits \ wasReset`.

The theorems about `BulkBatch` add `BatchAssumption` (an item is a caller, a request
costs between one token and the limit) and hold for every batch size, group size and
number of other callers, however late the items' calls come. Both need `SameCost`,
that all consume calls of the batch ask for the same number of tokens: without it
neither is true, since a group runs the requests in another order than they were
projected in (`BulkBatch_readwrite`). `BatchInv` compares two queues, the projected
one (`Projected`, with `ProjectedQueue` shown to exist and to satisfy its recursion
equation in `QueuesExist` and `ProjectionIs`) and the history of the bucket:

* `Ahead(q, g)`: some map sends the entries of the projected queue to entries of the
  history no earlier than they are and at least as far apart. Entry by entry the
  history may be earlier than the projection, when others fill a gap the batch could
  not use; but the entry `Limit` places before the batch's next one is at or after
  the image of the one the projection counted from, so the next request is not
  granted before its instant (`AheadGrows`), and others only add entries
  (`AheadStays`).
* `Aligned(q, g, t, d)`: with nobody else on the bucket the history ends in the
  projected queue, late by no more than the time `d` since the projection. A request
  then waits no longer from its call than it was projected to wait from the
  projection (`AlignedGrows`), and all of those waits are within the budget
  (`AllItemsFit`, `WithinBudget`).
* `Numbered`: the admissions are numbered one to one by item and call, so that there
  are never more of them than requests projected.

`RetryableFetch_proofs` proves, for every retry budget, backoff, lateness and set of
waits (`RetryAssumption`; it also says that `2^n` is a natural number, which the
provers are not told of `^` and TLC evaluates):

| Theorem | Says |
|---|---|
| `TypeCorrect` | `Spec => []TypeOK` |
| `CreateOnce` | `Spec => []NoDuplicateWrite` |
| `RefusalClean` | `Spec => []RefusalIsClean` |
| `StatusWait` | `Spec => []StatusWaitHonoured` |
| `NoIdleSleep` | `Spec => []SleepsToRetry` |

The strengthening: a create that is about to be sent, or that sleeps before being
sent again, was not processed, and after any answer that is not ambiguous it was
not either (`CleanUntilAmbiguous`); what is slept is what was named
(`WaitKept`); the rounds are counted (`RoundsCounted`).

`GovernedWrites_proofs` proves, for any number of processes, calls, contracts and
decisions and every set of deployments (`GovernanceAssumption`):

| Theorem | Says |
|---|---|
| `TypeCorrect` | `Spec => []TypeOK` |
| `SingleUse` | `LongTtl` implies `Spec => []OneEffectPerDecision` |
| `DecidedEffects` | `Spec => []EffectWasDecided` |
| `OwnSpending` | `Spec => []SpentByItsOwnWrite` |

`LongTtl` says that `jtiTtlMs` exceeds the life of every decision, counted from
the start of the run. It is needed for the in-memory store only, and section 5
says why without it the statement is false. The
default, `DEFAULT_JTI_TTL_MS` in `tool-handler-factory.ts`, is ten minutes.

The invariant has one part per reason a decision cannot be accepted twice:
`OneProcess` (without the shared store an enforced service has one process,
which is what `evaluatePosture` buys), `Memory` (that process remembers an
accepted decision until it has expired, sweeps included), `Ledger` (so does
Firestore, which deletes no document a create is on its way to), and from them
`AcceptedOnce`. `CallOK` holds what is true of a call by itself; `Spenders` says
where a stored entry came from. `EnforceWins` shows that the first setting wins,
so that no combination of lists weakens `enforce`.

`ReportStore_proofs` proves, for any processes, sessions, calls, readers and
deletions, and every lifetime and capacity (`ReportAssumption`: finitely many
calls, room for at least one entry):

| Theorem | Says |
|---|---|
| `TypeCorrect` | `Spec => []TypeOK`, the bound on the entries of a process included |
| `ServedRightly` | `Spec => []ServedToItsSessionInTime` |
| `MirrorServes` | `Spec => []MirroredIsReadable` |
| `NewestStays` | `Spec => []NewestKept` |
| `ClosedIsCleared` | `Spec => []ClosedKeepsOnlyLateEntries` |
| `LinksWork` | `Spec => []HandedLinkWorks` |
| `SweepsComplete` | `Spec => []SweepIsComplete` |

Three parts of its invariant carry the argument. `OrderOK`: stores are numbered as
the clock goes on, so that the entry `evictOldest` drops, the least
`createdAt` and the first inserted among equals, is the first stored
(`EvictsFirstStored`), and the store that evicts it is the last of the
`maxEntries` that followed. `SweepsOK`: a deletion has the calls of its session
marked and owes only what had landed when it began, so that a save that lands later
is neither owed nor spared by accident. `ReadsOK`: what a read saw in the mirror
stays there, because a body is stored once.

`TokenRefresh_proofs` proves, for any sessions of a grant and any open calls, every
provider policy and every lifetime, buffer and timeout (`TokenAssumption`: a token
lives for some time and the timeout is positive; neither is compared with the buffer,
and how long an answer's body takes is not bounded at all):

| Theorem | Says |
|---|---|
| `TypeCorrect` | `Spec => []TypeOK` |
| `RefreshesOnce` | `Spec => []OneRefresh` |
| `GrantStays` | `Spec => []GrantIsKept` |
| `TokensLive` | `Spec => []HandedTokenLives` |
| `PromisesAreLive` | `Spec => []NoStalePromise` |

`PromisesOK` ties a running call to the promise its adapter shares, and from it follow
the first and the last. `AnswersOK` and `CacheOK` tie the age of an answer, when it is
cached or passed on, to the time its receipt took; `GrantOK` says which refresh tokens on their way the provider
still accepts.

`ProcessEnd_proofs` proves, for any loggers, records and signals:

| Theorem | Says |
|---|---|
| `TypeCorrect` | `Spec => []TypeOK` |
| `NothingDropped` | `Spec => []NoRecordDropped` |
| `LogIsPrefix` | `Spec => []LogInOrder` |
| `StoredStays` | `Spec => AppendOnly` |
| `DrainedByExit` | with `StdioSignals <= 1`, `Spec => []DrainedBeforeExit` |

The invariant of a logger says that its buffer holds the last records in order, that
a flush takes the head of the buffer and that no other save comes between its
download and its save, and that the object holds what has left the buffer
(`BufferOK`, `BatchOK`, `ObjectOK`). On top of it `EInv` says that one handler works at
a time, that it awaits every logger which had a record when the signal came, and
that a logger closed without a failure has stored what the signal found.

`AsyncTask_proofs` proves, for every retry budget, backoff, cooldown, headroom and lag:

| Theorem | Says |
|---|---|
| `TypeCorrect` | `Spec => []TypeOK` |
| `NeverAskedTwice` | `Spec => []NoDuplicateReport` |
| `LeftoversAreTried` | `Spec => []NoSilentLeftover` |
| `OneStepAfterCap` | `Spec => []OvershootIsBounded` |
| `TtlCoversTheSleeps` | `Spec => [](slept <= WorstCase)` |
| `TaskLivesWithWorker` | `Spec => []TaskFollowsWorker` |

The invariant of a run ties each program point to what the run knows and what the
platform was asked for (`LoopsOK`, `IdsOK`, `AskedOK`, `LeftOK`, `LateOK`). The task's
TTL is computed before the run from the retry budgets alone; the run must never sleep
longer. `SleptOK` says that what was slept and what the current attempt may
still sleep (`Owed`) fit in the attempts begun, each at the full cost of its polls
and cooldown; it needs the second term, for one attempt's sleeps are not bounded by
the cost of that attempt unless one knows how many it has left. `PollSleeps` is a
recursive function of the source's own backoff, so its values exist by a downward
induction over the reads that are left, done from the least element of a set of
naturals, since the provers cannot use the induction theorems.

`HttpSessions_proofs` proves, for any number of sessions, credentials, requests and
sweeps, every capacity and every set of disciplines:

| Theorem | Says |
|---|---|
| `TypeCorrect` | `Spec => []TypeOK` |
| `DroppedSessionsAreForgotten` | `Spec => []DroppedIsForgotten` |
| `HeldSessionsAreSwept` | `Spec => []HeldIsSwept` |
| `CallersAreServedAsThemselves` | `Spec => []ServedAsCaller` |
| `OpenServersAreCached` | `Spec => [](ServersInTurn => OpenServerIsCached)` |
| `PublishedTransportsWork` | `Spec => [](ConnectsInTurn => PublishedTransportWorks)` |
| `ClientsInTurnNeverWedge` | `Spec => []TurnsNeverWedge` |

A run checks the few disciplines named in `MCHttpSessions`; the proofs cover all of
them, and show how much each property asks of the platform. Being forgotten, being
served as oneself and never being stuck need nothing of it. `ServersInTurn` and
`ConnectsInTurn` say that the clients take turns or that `createMcpServer`,
respectively `connect`, does no I/O. The disciplines of the run all satisfy both.
They are needed: let overlapping requests of one session yield in
`createMcpServer` and each makes a server, of which the second replaces the first in
the cache; let them yield in `connect` and a cleanup closes the transport that is
about to be published. TLC shows either within seconds.

The maps are changed in many ways, but `store.delete`, `detachSession` and
`cleanupSession`, whole or resumed after an await, have one thing in common: they
take from one session only, close what they forget, and leave a job where something
is still to be done. `Cleans` states that and the operators are proved to satisfy it
once. `StepMoves` then puts every action in a normal form (a handler arrives,
passes, dispatches, connects, throws or unpublishes; a session goes idle; something
cleans up), and each part of `HInv` is preserved form by form. The parts are
what each property is made of while handlers are under way: `Forgotten` (a session
without services is untracked, or a job will), `Swept`, `Cached`, `Served`, `Wired`
(a server is connected to the published transport or to the one being connected)
and `Working` (a published transport is open or somebody is about to unpublish it),
over `Known`, `Named` and `Turns`, which say what handlers know of themselves, that
servers and transports stay with the session that made them, and that clients who
take turns do. `Working` also has to say that no transport is being connected for a
session a cleanup has begun, without which a second half of that cleanup could
close it.

`GovernedWrites_proofs!ImplementsSingleUse`: with `LongTtl`, `Spec => DecisionsUsedOnce`,
from the same invariant as the theorems above.

Only model-checked: liveness everywhere (fairness and `ENABLED` are outside the
prover's reach), and what the runs that expect a violation show.

## 5. Limits of the code the models make visible

These are not stated as properties of a passing run, because the code does not
promise them or promises the contrary. Where a definition is named, adding it to
the configuration shows the counterexample.

* `LiveCredentialKeepsSession` (`GovernedWrites`): a rejected decision and a rejected
  credential are both `Unauthorized`, and the session is dropped for either.
* `OneEffectPerDecision` with a `JtiTtl` no longer than the decision's life: the
  verifier and the in-memory store read the clock separately, and the entry can
  lapse by the second reading while the first still accepted the decision. In
  `GovernedWrites_writes` entries outlive their decisions by a tick.
* `NothingSentAfterCap` (`ReportRun`): the comment at `maxWallTimeMs`
  (`BidManagerService.ts:80-82`) says that nothing new is sent after the cap. The
  loop looks at the cap before an attempt (`:473`) and the polling before a read;
  an attempt whose `createQuery` is answered after the cap still runs the query.
  `OvershootIsBounded` is what does hold: one more request.
* `NoReportBesideUnfinished` (`ReportRun`): the table at `retry-policy.ts:16` says that a
  report still under way is resumed and no POST re-sent. `pollForCompletion`
  takes a report for unfinished that is neither DONE nor FAILED
  (`BidManagerService.ts:348-349`), `continueQuery` resumes DONE, RUNNING and QUEUED
  only (`:389-401`): after an exhausted poll budget, STATE_UNSPECIFIED (`types.ts:203`)
  makes it run the query again beside a report that may yet finish.
  `NoDuplicateReport` allows that and nothing else.
* A storage error reads as "not found": `fetchFromMirror` returns `undefined` whatever
  fails (`report-csv-store.ts:346-367`) and the handler answers "not found or expired"
  (`report-csv-resource.ts:147-148`), although the comment at `getRemote` (`:211-216`) names
  only a missing, an expired and an unmirrored entry. A bucket whose resolution failed is
  cached as a rejected promise (`:308-313`), so every later read and mirror write of that
  process fails. `MirroredIsReadable` excepts a read that the storage failed itself.
* A token may be dead when it is handed out. `fetchWithTimeout` clears its timer when
  the headers arrive (`fetch-with-timeout.ts:37`) and the adapters then await
  `response.json()` unbounded (`gads-auth-adapter.ts:111`; Amazon DSP, LinkedIn, Meta,
  Pinterest and Snapchat alike), while the expiry counts from the receipt
  (`oauth2-refresh-adapter-base.ts:127`). A body that takes longer than the buffer after
  the grant leaves a token in the cache that is served past its life.
  `HandedTokenLives` says what holds: the buffer, less that time.
* `DrainedBeforeExit` with `StdioSignals = 2`: each stdio signal runs a handler of its
  own (`server-bootstrap.ts:175-189`). The second finds no live logger, awaits none
  and exits while the first still drains. The HTTP handler is guarded.
* Records appended after the drain are lost, in both modes. The logger of an HTTP session
  that ended is closed by nobody and keeps its timer until the process ends.
* Capacity of the session store is checked before the awaits of a creation, so
  overlapping creations may exceed it.
* The limiter admits everybody after `destroy`.
* The in-memory `jti` store forgets on restart; `OneEffectPerDecision` is stated
  for the shared store, or for runs without a restart.
* `needsRebuild` is computed before an await; with overlapping requests a tool
  may run with services another credential of the same user has just bound.
  `ServedAsCaller` therefore speaks of clients that take turns.
* A call that outlives its session stores its body where no hook will clear it and
  may spill an object no deletion will list; both go with their TTL or the bucket's
  lifecycle rule. `ClosedKeepsOnlyLateEntries` and `SweepIsComplete` say exactly how
  far the clean-up reaches.
* A rotated refresh token lives in one adapter: another session of the grant, or one
  created anew, presents the old one. `GrantIsKept` speaks of an adapter whose token
  the provider has not replaced behind its back.

## 6. What is not modelled, and the plan

Not modelled because it has no state or only pure functions over unbounded data:
schemas and canonical hashing, report parsing and views, elicitation,
pagination, prompts and resources, telemetry export, the platform servers' tool
tables, scripts and deployment. Most of the repository's lines are of that kind:
the generated API types and tool definitions of the 13 platform servers.

Abstractions inside the modelled parts: signatures and hashes are one bit; one
clock for the minter and all processes (skew is not modelled); every process of a
service has the same configuration; a session id is not reused by the client of
another session; `shutdown()` of the session manager is left out, since the
process is about to exit and what its handlers still do is in `ProcessEnd`;
redaction and truncation of report bodies, and entries without a session.

What is left of the plan:

1. `LimitedRequest`: `RetryableFetch` over `RateLimiter`. A request reserves once
   and may be sent several times; what the platform's window then sees.
2. `shutdown()` in `HttpSessions`.
