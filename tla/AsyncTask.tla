------------------------------ MODULE AsyncTask ------------------------------
(***************************************************************************)
(* The callers of a report run: the synchronous tool, which returns the    *)
(* run's outcome, and dbm_run_custom_query_async, whose run has no cap and *)
(* is the detached worker of an MCP task (registerAsyncTaskTool).          *)
(*                                                                         *)
(* The task store belongs to the session (dbm-mcp createMcpServer).  It    *)
(* drops a task when its TTL has passed, whatever its status, restarts the *)
(* TTL when a result is stored, and is cleared when the session closes.    *)
(* The TTL is the worst case of a run's sleeps plus a headroom; lag counts *)
(* the time spent otherwise (requests, limiter, event loop).               *)
(***************************************************************************)
EXTENDS ReportRun

CONSTANTS
    Headroom,   \* TASK_TTL_HEADROOM_MS
    MaxLag      \* bound on the time that passes outside the sleeps

ASSUME TaskAssumption == Headroom \in Nat /\ MaxLag \in Nat

VARIABLES
    worker,   \* runInBackground: "running", "storing", "failing", "done"; "none": synchronous
    task,     \* the store's task: "none", "working", "completed", "failed", "gone"
    since,    \* when its TTL last began
    closed,   \* the session's server has been closed
    lag       \* time passed outside the sleeps

taskVars == <<worker, task, since, closed, lag>>
vars     == <<reportVars, taskVars>>

now == slept + lag

-----------------------------------------------------------------------------
(* computeWorstCaseReportDurationMs.                                       *)

\* The loop over the poll attempts: what the reads after the i-th sleep between them,
\* from delay d on.
PollSleeps[i \in 1 .. PollRetries] ==
    [d \in Nat |->
        IF i = PollRetries THEN 0
        ELSE d + PollSleeps[i + 1][IF 2 * d < MaxDelay THEN 2 * d ELSE MaxDelay]]

\* A worst case that forgets the sleep before the first read.
BugWorstCase ==
    QueryRetries * PollSleeps[1][InitialDelay] + (QueryRetries - 1) * Cooldown

WorstCase ==
    QueryRetries * (InitialDelay + PollSleeps[1][InitialDelay])
        + (QueryRetries - 1) * Cooldown

Ttl == WorstCase + Headroom

-----------------------------------------------------------------------------

TypeOK ==
    /\ RTypeOK
    /\ worker \in {"none", "running", "storing", "failing", "done"}
    /\ task \in {"none", "working", "completed", "failed", "gone"}
    /\ since \in 0 .. now /\ closed \in BOOLEAN /\ lag \in 0 .. MaxLag

\* createTask stores the task and starts the worker before it answers.
TaskInit ==
    /\ Init
    /\ worker = IF capped THEN "none" ELSE "running"
    /\ task = IF capped THEN "none" ELSE "working"
    /\ since = 0 /\ closed = FALSE /\ lag = 0

\* config.execute has returned or thrown; formatting the output may throw as well.
Executed ==
    /\ worker = "running" /\ pc = "done"
    /\ \/ outcome = "csv" /\ worker' = "storing"
       \/ worker' = "failing"
    /\ UNCHANGED <<reportVars, task, since, closed, lag>>

\* storeTaskResult: only a task that is still there and working takes a result.
Stored(result) ==
    /\ task = "working"
    /\ task' = result /\ since' = now

\* The result is stored; storing it fails for a task that is gone.
StoreCompleted ==
    /\ worker = "storing"
    /\ \/ Stored("completed") /\ worker' = "done"
       \/ task # "working" /\ worker' = "failing" /\ UNCHANGED <<task, since>>
    /\ UNCHANGED <<reportVars, closed, lag>>

\* The failure result; failing to store it is logged.
StoreFailed ==
    /\ worker = "failing"
    /\ \/ Stored("failed")
       \/ task # "working" /\ UNCHANGED <<task, since>>
    /\ worker' = "done"
    /\ UNCHANGED <<reportVars, closed, lag>>

\* The store's timer.
TaskExpires ==
    /\ task \in {"working", "completed", "failed"} /\ now >= since + Ttl
    /\ task' = "gone"
    /\ UNCHANGED <<reportVars, worker, since, closed, lag>>

\* server.close: taskStore.cleanup(); the worker is not told.
CloseSession ==
    /\ worker # "none" /\ ~closed
    /\ closed' = TRUE /\ task' = "gone"
    /\ UNCHANGED <<reportVars, worker, since, lag>>

Lag ==
    /\ worker # "none" /\ lag < MaxLag
    /\ lag' = lag + 1
    /\ UNCHANGED <<reportVars, worker, task, since, closed>>

WorkerStep == Executed \/ StoreCompleted \/ StoreFailed

\* A settled call, after which only the clock, the timer and the client go on.
Settled == pc = "done" /\ worker \in {"none", "done"} /\ UNCHANGED vars

Next ==
    \/ (RunStep \/ Expire \/ Generate) /\ UNCHANGED taskVars
    \/ WorkerStep \/ TaskExpires \/ CloseSession \/ Lag
    \/ Settled

\* Every request is answered or fails, every sleep ends, the worker is not blocked.
\* Nothing obliges the platform to finish a report, the session to close or time to pass.
Fairness ==
    /\ WF_vars(RunStep /\ UNCHANGED taskVars)
    /\ WF_vars(WorkerStep)

Spec == TaskInit /\ [][Next]_vars /\ Fairness

-----------------------------------------------------------------------------
(* Properties.                                                             *)

\* A client that polls a task of an open session sees it working as long as its worker
\* does: the task outlives the run, if what the run spends outside its sleeps stays below
\* the headroom (computeAsyncQueryTaskTtlMs sizes the TTL from the worst case of the loop),
\* and it does not stay "working" once the worker has left it (runInBackground stores a
\* failure for whatever the work throws).
TaskFollowsWorker ==
    /\ worker \in {"running", "storing", "failing"} /\ ~closed /\ lag < Headroom
        => task = "working"
    /\ worker = "done" => task # "working"

\* Every call ends: the run settles though the report may never finish, and its worker
\* with it (runQueryAttempts is bounded; runInBackground catches everything).
RunSettles == <>(pc = "done" /\ worker \in {"none", "done"})

=============================================================================
