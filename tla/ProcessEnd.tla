----------------------------- MODULE ProcessEnd -----------------------------
(***************************************************************************)
(* bootstrapMcpServer's shutdown over the interaction loggers.  A signal   *)
(* closes the server or the sessions, drains the loggers, flushes the      *)
(* telemetry and exits.  In HTTP mode the handler runs once and leaves     *)
(* five seconds for the requests in flight; in stdio mode each signal runs *)
(* a handler of its own.  Tool calls go on appending, and sessions may     *)
(* still open on connections that are kept alive, until the process exits. *)
(***************************************************************************)
EXTENDS InteractionLog, FiniteSets

CONSTANTS
    MaxCalls,      \* bound on the records of all loggers
    Signals,       \* SIGTERM and SIGINT, each delivered at most once here
    StdioSignals   \* how many of them a stdio process receives

ASSUME EndAssumption == IsFiniteSet(Signals) /\ MaxCalls \in Nat /\ StdioSignals \in Nat

VARIABLES
    mode,       \* transportMode
    handler,    \* per signal: what its handler awaits, "idle" before and "returned" after
    snapshot,   \* per signal: the loggers its closeAllInteractionLoggers awaits
    shuttingDown, \* the HTTP handler's flag
    exited,     \* process.exit
    atSignal    \* history: records of each logger when the first signal came

endVars == <<mode, handler, snapshot, shuttingDown, exited, atSignal>>
vars    == <<logVars, endVars>>

Signalled == \E s \in Signals : handler[s] # "idle"

TypeOK ==
    /\ LTypeOK
    /\ mode \in {"stdio", "http"}
    /\ handler \in [Signals -> {"idle", "closing", "draining", "ending", "returned"}]
    /\ snapshot \in [Signals -> SUBSET Loggers]
    /\ shuttingDown \in BOOLEAN /\ exited \in BOOLEAN
    /\ atSignal \in [Loggers -> 0 .. MaxRecords]

Init ==
    /\ LogInit
    /\ mode \in {"stdio", "http"}
    /\ handler = [s \in Signals |-> "idle"] /\ snapshot = [s \in Signals |-> {}]
    /\ shuttingDown = FALSE /\ exited = FALSE
    /\ atSignal = [l \in Loggers |-> 0]

\* The stdio server is created once, before the transport runs; HTTP servers per session.
OpenServer(l) ==
    /\ ~exited /\ (mode = "stdio" => made = {})
    /\ Construct(l)
    /\ UNCHANGED endVars

Records == FoldFunction(+, 0, appended)

ToolCall(l) ==
    /\ ~exited /\ Records < MaxCalls
    /\ Append1(l)
    /\ UNCHANGED endVars

Flush(l) ==
    /\ \/ ~exited /\ (TimerFlush(l) \/ FlushStep(l) \/ Drain(l))
       \/ exited /\ SaveLands(l)      \* a request that was sent before the exit
    /\ UNCHANGED endVars

\* handleHttpShutdown returns if it already runs; handleStdioShutdown has no such guard.
Signal(s) ==
    /\ ~exited /\ handler[s] = "idle" /\ (mode = "stdio" => made # {})
    /\ mode = "stdio" => Cardinality({t \in Signals : handler[t] # "idle"}) < StdioSignals
    /\ handler' = [handler EXCEPT ![s] = IF mode = "http" /\ shuttingDown THEN "returned" ELSE "closing"]
    /\ shuttingDown' = TRUE
    /\ atSignal' = IF Signalled THEN atSignal ELSE appended
    /\ UNCHANGED <<logVars, mode, snapshot, exited>>

\* server.close or shutdown() has ended: the loggers are closed and awaited.
StartDrain(s) ==
    /\ ~exited /\ handler[s] = "closing"
    /\ CloseAll
    /\ snapshot' = [snapshot EXCEPT ![s] = live]
    /\ handler' = [handler EXCEPT ![s] = "draining"]
    /\ UNCHANGED <<mode, shuttingDown, exited, atSignal>>

Drained(s) ==
    /\ ~exited /\ handler[s] = "draining"
    /\ \A l \in snapshot[s] : closing[l] = "closed"
    /\ handler' = [handler EXCEPT ![s] = "ending"]
    /\ UNCHANGED <<logVars, mode, snapshot, shuttingDown, exited, atSignal>>

\* shutdownOpenTelemetry has ended and, in HTTP mode, the five seconds have passed.
Exit(s) ==
    /\ ~exited /\ handler[s] = "ending"
    /\ exited' = TRUE
    /\ UNCHANGED <<logVars, mode, handler, snapshot, shuttingDown, atSignal>>

HandlerStep(s) == StartDrain(s) \/ Drained(s) \/ Exit(s)

Next ==
    \/ \E l \in Loggers : OpenServer(l) \/ ToolCall(l) \/ Flush(l)
    \/ \E s \in Signals : Signal(s) \/ HandlerStep(s)
    \/ exited /\ UNCHANGED vars

\* Storage requests settle, close() polls on, and handlers proceed when what they await
\* is done.  Nothing obliges a signal to come, a call to be made or the timer to fire.
Fairness ==
    /\ \A l \in Loggers : WF_vars(~exited /\ (FlushStep(l) \/ Drain(l)) /\ UNCHANGED endVars)
    /\ \A s \in Signals : WF_vars(HandlerStep(s))

Spec == Init /\ [][Next]_vars /\ Fairness

-----------------------------------------------------------------------------
(* Properties.                                                             *)

\* What had been recorded when the first signal came is stored when the process exits,
\* unless a request of its logger's final flush failed (the comments at liveLoggers and at step
\* 3 of handleHttpShutdown: buffered entries would otherwise be lost).
DrainedBeforeExit ==
    exited => \A l \in Loggers : ~faulty[l] =>
        \A n \in 1 .. atSignal[l] : \E i \in 1 .. Len(object[l]) : object[l][i] = n

\* A signal ends the process, whatever the storage answers and whoever goes on appending
\* (close() waits for a flush, and no new one may keep it waiting).
SignalExits == Signalled ~> exited

=============================================================================
