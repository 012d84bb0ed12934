------------------------------ MODULE ReportRun ------------------------------
(***************************************************************************)
(* One Bid Manager report: BidManagerService.runReportAndFetch over        *)
(* runQueryAttempts, continueQuery, pollForCompletion, pollUntilComplete   *)
(* and classifyReportError.                                                *)
(*                                                                         *)
(* A run creates a saved query, runs it, polls the report and downloads    *)
(* it; a retryable failure is followed by a cooldown and another attempt   *)
(* that continues the same query and report; the query is deleted at the   *)
(* end.  A synchronous run ends at a wall-time cap, which may pass at any  *)
(* moment: during a sleep, a request, or the limiter's wait before one.    *)
(*                                                                         *)
(* The pc names what is awaited.  A request is begun when its method is    *)
(* called, which is where it may queue on the rate limiter, and its answer *)
(* is a later step.  The platform may lose the answer of a request it has  *)
(* processed.                                                              *)
(*                                                                         *)
(* A report is "running" while the platform answers QUEUED, RUNNING or no  *)
(* state, and "unspecified" while it answers STATE_UNSPECIFIED: polling    *)
(* takes both for unfinished, continueQuery resumes only the first.        *)
(***************************************************************************)
EXTENDS Naturals

CONSTANTS
    QueryRetries,    \* reportQueryRetries: attempts of one run
    PollRetries,     \* reportPollMaxRetries: status reads of one attempt
    InitialDelay,    \* reportPollInitialDelayMs
    MaxDelay,        \* reportPollMaxDelayMs
    Cooldown         \* reportRetryCooldownMs

ASSUME ReportAssumption ==
    /\ QueryRetries \in Nat \ {0} /\ PollRetries \in Nat \ {0}
    /\ InitialDelay \in Nat \ {0} /\ MaxDelay \in Nat \ {0} /\ Cooldown \in Nat

VARIABLES
    capped,      \* a synchronous call, with a wall-time cap
    expired,     \* the cap's signal has aborted
    pc,          \* what the run awaits
    attempt,     \* of runQueryAttempts, from 0
    reads,       \* status reads of this pollUntilComplete, the current one included
    delay,       \* its next sleep
    queryKnown,  \* createdQueryId of runReportAndFetch is set
    reportKnown, \* reportId of runQueryAttempts is set
    outcome,     \* how executeQueryWithRetry and the download ended
    query,       \* the saved query in the account
    report,      \* the report of the latest run the platform processed
    deleteTried, \* history: the deletion has been sent
    creates,     \* history: queries the platform has created
    lastSaid,    \* history: what continueQuery has read since the latest run, or "none"
    overlaps,    \* history: what had been read when a run was processed beside a report
                 \* that had not failed
    slept,       \* history: the sleeps that were slept to their end
    late,        \* history: requests begun after the cap
    lateSlept    \* history: sleeps slept to their end after the cap

progress == <<pc, attempt, reads, delay>>
ids     == <<queryKnown, reportKnown, lastSaid, deleteTried>>
platform == <<query, report, creates, overlaps>>
clock   == <<capped, expired>>
history  == <<slept, late, lateSlept>>
reportVars == <<progress, ids, platform, clock, history, outcome>>

Requests == {"create", "status", "run", "fetch"}
Sleeps   == {"first", "pause", "deafPause", "cooldown"}
Unfinished == {"running", "unspecified"}
Reports  == Unfinished \cup {"none", "done", "failed"}

RTypeOK ==
    /\ capped \in BOOLEAN /\ expired \in BOOLEAN /\ (expired => capped)
    /\ pc \in Requests \cup Sleeps \cup {"head", "download", "delete", "done"}
    /\ attempt \in 0 .. QueryRetries /\ reads \in 0 .. PollRetries /\ delay \in Nat
    /\ queryKnown \in BOOLEAN /\ reportKnown \in BOOLEAN
    /\ outcome \in {"none", "csv", "error", "exhausted", "wallTime"}
    /\ query \in {"none", "live", "deleted"}
    /\ report \in Reports /\ lastSaid \in Reports /\ overlaps \subseteq Reports
    /\ creates \in Nat /\ deleteTried \in BOOLEAN
    /\ slept \in Nat /\ late \in Nat /\ lateSlept \in Nat

Init ==
    /\ capped \in BOOLEAN /\ expired = FALSE
    /\ pc = "head" /\ attempt = 0 /\ reads = 0 /\ delay = InitialDelay
    /\ queryKnown = FALSE /\ reportKnown = FALSE /\ outcome = "none"
    /\ query = "none" /\ report = "none" /\ creates = 0 /\ lastSaid = "none" /\ overlaps = {}
    /\ deleteTried = FALSE
    /\ slept = 0 /\ late = 0 /\ lateSlept = 0

-----------------------------------------------------------------------------
(* Control: requests, sleeps, and the three ways an attempt can end.       *)

\* The method of request r is called.
Begin(r) ==
    /\ pc' = r
    /\ late' = IF expired THEN late + 1 ELSE late

\* A run that deletes its query only when it succeeds.
BugOver(o, known) ==
    /\ outcome' = o
    /\ pc' = IF known /\ o = "csv" THEN "delete" ELSE "done"
    /\ UNCHANGED late

\* The run throws with outcome o (or returns the csv); the finally deletes a known query.
Over(o, known) ==
    /\ outcome' = o
    /\ pc' = IF known THEN "delete" ELSE "done"
    /\ UNCHANGED late

\* The catch of runQueryAttempts, for a failure another attempt may fix.
Retry(known) ==
    /\ IF attempt < QueryRetries - 1
       THEN IF expired THEN Over("wallTime", known)
                       ELSE pc' = "cooldown" /\ UNCHANGED <<outcome, late>>
       ELSE Over("exhausted", known)
    /\ UNCHANGED attempt

\* One completed sleep of d.
Slept(d) ==
    /\ slept' = slept + d
    /\ lateSlept' = IF expired THEN lateSlept + d ELSE lateSlept

\* A request fails: refused before the platform processed it (local limiter, 429),
\* or for a reason no retry can fix.
Refused(known)  == Retry(known)
Fatal(known)    == Over("error", known) /\ UNCHANGED attempt

-----------------------------------------------------------------------------
(* The loop head, create and continueQuery.                                *)

\* After the create: continueQuery reads the report it knows, or runs the query.
Continue == Begin(IF reportKnown THEN "status" ELSE "run")

Head ==
    /\ pc = "head"
    /\ IF expired
       THEN Over("wallTime", queryKnown)
       ELSE /\ IF queryKnown THEN Continue ELSE Begin("create")
            /\ UNCHANGED outcome
    /\ UNCHANGED <<attempt, reads, delay, ids, platform, clock, slept, lateSlept>>

\* The platform processes a queries.create, whatever happens to the answer.
Create == query' = "live" /\ creates' = creates + 1 /\ UNCHANGED <<report, overlaps>>

CreateAnswered ==
    /\ pc = "create"
    /\ Create
    /\ queryKnown' = TRUE
    /\ Continue
    /\ UNCHANGED <<attempt, reads, delay, reportKnown, lastSaid, deleteTried, outcome, clock, slept,
                   lateSlept>>

\* Every failed POST is retried.
BugAmbiguous(known) == Retry(known)

\* A POST whose outcome is ambiguous is not sent again.
Ambiguous(known) == Fatal(known)

CreateLost ==
    /\ pc = "create"
    /\ Create \/ UNCHANGED platform
    /\ Ambiguous(FALSE)
    /\ UNCHANGED <<reads, delay, ids, clock, slept, lateSlept>>

CreateRefused ==
    /\ pc = "create"
    /\ Refused(FALSE)
    /\ UNCHANGED <<reads, delay, ids, platform, clock, slept, lateSlept>>

\* The reads of the attempt before are counted on.
BugStartPolling == pc' = "first" /\ delay' = InitialDelay /\ UNCHANGED <<reads, late>>

\* pollForCompletion sleeps once before pollUntilComplete begins.
StartPolling == pc' = "first" /\ reads' = 0 /\ delay' = InitialDelay /\ UNCHANGED late

\* The report continueQuery has read is DONE, RUNNING or QUEUED.
Usable == report \in {"running", "done"}

\* continueQuery resumes a usable report and runs the query again for any other.
StatusAnswered ==
    /\ pc = "status"
    /\ IF Usable THEN StartPolling ELSE Begin("run") /\ UNCHANGED <<reads, delay>>
    /\ lastSaid' = report
    /\ UNCHANGED <<attempt, queryKnown, reportKnown, deleteTried, platform, clock, outcome, slept,
                   lateSlept>>

\* A status read that fails: transient (5xx, network, 429, local refusal), or not.
ReadFailed ==
    /\ pc \in {"status", "fetch"}
    /\ Refused(queryKnown) \/ Fatal(queryKnown)
    /\ UNCHANGED <<reads, delay, ids, platform, clock, slept, lateSlept>>

\* The platform processes a queries.run.
Run ==
    /\ report' \in Unfinished
    /\ overlaps' = overlaps \cup (IF report \in Unfinished \cup {"done"} THEN {lastSaid} ELSE {})
    /\ UNCHANGED <<query, creates>>

RunAnswered ==
    /\ pc = "run"
    /\ Run
    /\ reportKnown' = TRUE /\ lastSaid' = "none"
    /\ StartPolling
    /\ UNCHANGED <<attempt, queryKnown, deleteTried, clock, outcome, slept, lateSlept>>

RunLost ==
    /\ pc = "run"
    /\ Run \/ UNCHANGED platform
    /\ Ambiguous(queryKnown)
    /\ UNCHANGED <<reads, delay, ids, clock, slept, lateSlept>>

RunRefused ==
    /\ pc = "run"
    /\ Refused(queryKnown)
    /\ UNCHANGED <<reads, delay, ids, platform, clock, slept, lateSlept>>

-----------------------------------------------------------------------------
(* pollForCompletion and pollUntilComplete.                                *)

\* pollUntilComplete without the cap's signal.
BugPoll == Begin("fetch") /\ reads' = reads + 1 /\ UNCHANGED outcome

\* The head of pollUntilComplete's loop: ReportAbortedError after the cap, else a read.
Poll ==
    IF expired
    THEN Over("wallTime", queryKnown) /\ UNCHANGED reads
    ELSE Begin("fetch") /\ reads' = reads + 1 /\ UNCHANGED outcome

\* sleepUntil: an aborted signal ends it, before or during.
FirstSleep ==
    /\ pc = "first"
    /\ IF expired THEN UNCHANGED <<slept, lateSlept>> ELSE Slept(InitialDelay)
    /\ Poll
    /\ UNCHANGED <<attempt, delay, ids, platform, clock>>

\* The read finds the report unfinished: another sleep, or ReportTimeoutError.  A signal
\* that aborted while the read was awaited is not heard by the sleep's new listener.
FetchUnfinished ==
    /\ pc = "fetch" /\ report \in Unfinished
    /\ IF reads = PollRetries
       THEN Retry(queryKnown)
       ELSE /\ pc' = IF expired THEN "deafPause" ELSE "pause"
            /\ UNCHANGED <<attempt, outcome, late>>
    /\ UNCHANGED <<reads, delay, ids, platform, clock, slept, lateSlept>>

\* ReportGenerationError: retried, and the next attempt runs the query again.
FetchFailed ==
    /\ pc = "fetch" /\ report = "failed"
    /\ Retry(queryKnown)
    /\ UNCHANGED <<reads, delay, ids, platform, clock, slept, lateSlept>>

\* The report is done: download it, unless it came without a path.
FetchDone ==
    /\ pc = "fetch" /\ report = "done"
    /\ \/ pc' = "download" /\ UNCHANGED <<outcome, late>>
       \/ Over("error", queryKnown)
    /\ UNCHANGED <<attempt, reads, delay, ids, platform, clock, slept, lateSlept>>

NextDelay == IF delay * 2 < MaxDelay THEN delay * 2 ELSE MaxDelay

Pause ==
    /\ pc \in {"pause", "deafPause"}
    /\ IF pc = "pause" /\ expired   \* the listener rejects with ReportAbortedError
       THEN Over("wallTime", queryKnown) /\ UNCHANGED <<reads, delay, slept, lateSlept>>
       ELSE Slept(delay) /\ delay' = NextDelay /\ Poll
    /\ UNCHANGED <<attempt, ids, platform, clock>>

\* An attempt that is not counted.
BugCooldownOver ==
    /\ pc = "cooldown"
    /\ pc' = "head"
    /\ UNCHANGED <<attempt, reads, delay, ids, platform, clock, history, outcome>>

CooldownOver ==
    /\ pc = "cooldown"
    /\ IF expired THEN UNCHANGED <<slept, lateSlept>> ELSE Slept(Cooldown)
    /\ pc' = "head" /\ attempt' = attempt + 1
    /\ UNCHANGED <<reads, delay, ids, platform, clock, late, outcome>>

-----------------------------------------------------------------------------
(* The download and the deletion.                                          *)

\* fetchReportData: the report is gone with its query, and the request may fail.
Download ==
    /\ pc = "download"
    /\ \/ report = "done" /\ query = "live" /\ Over("csv", queryKnown)
       \/ Over("error", queryKnown)
    /\ UNCHANGED <<attempt, reads, delay, ids, platform, clock, slept, lateSlept>>

\* deleteQueryBestEffort: a failure is logged.
Delete ==
    /\ pc = "delete"
    /\ query' \in {"deleted", query} /\ deleteTried' = TRUE
    /\ pc' = "done"
    /\ UNCHANGED <<attempt, reads, delay, queryKnown, reportKnown, lastSaid, report, creates, overlaps,
                   clock, history, outcome>>

\* The wall-time cap passes.  dispose() clears its timer when executeQueryWithRetry ends.
Expire ==
    /\ capped /\ ~expired /\ pc \notin {"download", "delete", "done"}
    /\ expired' = TRUE
    /\ UNCHANGED <<capped, progress, ids, platform, history, outcome>>

\* The platform works on the report, and may say so or not.
Generate ==
    /\ report \in Unfinished /\ query = "live"
    /\ report' \in (Unfinished \ {report}) \cup {"done", "failed"}
    /\ UNCHANGED <<query, creates, overlaps, progress, ids, clock, history, outcome>>

RunStep ==
    \/ Head \/ CreateAnswered \/ CreateLost \/ CreateRefused
    \/ StatusAnswered \/ ReadFailed \/ RunAnswered \/ RunLost \/ RunRefused
    \/ FirstSleep \/ FetchUnfinished \/ FetchFailed \/ FetchDone \/ Pause
    \/ CooldownOver \/ Download \/ Delete

-----------------------------------------------------------------------------
(* Properties.                                                             *)

\* What a call may ask for twice: the platform creates at most one query per call, and runs
\* it beside a report that has not failed only if it had just answered STATE_UNSPECIFIED
\* for that report, although answers get lost and attempts are repeated (retry-policy.ts;
\* continueQuery resumes what it knows to run instead of running it again).
NoDuplicateReport == creates <= 1 /\ overlaps \subseteq {"unspecified"}

\* What the table of retry-policy.ts says: a report that is still under way is resumed.
NoReportBesideUnfinished == overlaps = {}

\* A call that ends has tried to delete the query it knows of, however it ended; a query
\* is left in the account only when its id was lost or its deletion failed
\* (runReportAndFetch, deleteQueryBestEffort), and a downloaded report was complete.
NoSilentLeftover ==
    /\ pc = "done" /\ query = "live" => deleteTried \/ ~queryKnown
    /\ outcome = "csv" => report = "done"

\* What a synchronous call still does after its cap: it begins at most one more request,
\* and sleeps at most one more poll delay (runQueryAttempts, pollUntilComplete).
OvershootIsBounded ==
    /\ late <= 1
    /\ lateSlept <= IF InitialDelay < MaxDelay THEN MaxDelay ELSE InitialDelay

\* What the documentation of maxWallTimeMs says: nothing new is sent after the cap.
NothingSentAfterCap == late = 0

=============================================================================
