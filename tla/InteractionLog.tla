--------------------------- MODULE InteractionLog ---------------------------
(***************************************************************************)
(* InteractionLogger in its GCS mode: records are appended to a buffer and *)
(* written to an object of the logger's own by flushBuffer, on a timer and *)
(* once more in close().  GCS has no append: a flush downloads the object  *)
(* and saves it again with the buffered lines behind it.  Either request   *)
(* may fail, and a save whose answer is lost has landed all the same.      *)
(*                                                                         *)
(* A record is its number in its logger: the n-th record appended is n.    *)
(***************************************************************************)
EXTENDS Naturals, Sequences, SequencesExt

CONSTANTS
    Loggers,      \* one per MCP server instance, that is per session
    MaxRecords    \* bound on the records of one logger

ASSUME LogAssumption == MaxRecords \in Nat

VARIABLES
    made,       \* loggers that have been constructed
    live,       \* liveLoggers, the registry of closeAllInteractionLoggers
    timers,     \* loggers whose flush timer runs
    appended,   \* history: how many records each logger was given
    buffer,     \* buffer
    flight,     \* flushBuffer: "no" (flushing = false), else what it awaits
    batch,      \* lines: the part of the buffer being flushed
    existing,   \* what the download returned
    object,     \* the object in the bucket
    closing,    \* close(): "no", "waiting" for a flush, "draining", "closed"
    doubt,      \* history: a save landed and its answer was lost
    faulty      \* history: a storage request of the final flush failed

flushVars == <<buffer, flight, batch, existing, object, doubt, faulty>>
logVars   == <<made, live, timers, appended, closing, flushVars>>

LTypeOK ==
    /\ live \subseteq made /\ timers \subseteq live /\ made \subseteq Loggers
    /\ appended \in [Loggers -> 0 .. MaxRecords]
    /\ flight \in [Loggers -> {"no", "download", "save", "landed"}]
    /\ closing \in [Loggers -> {"no", "waiting", "draining", "closed"}]
    /\ buffer \in [Loggers -> Seq(1 .. MaxRecords)] /\ batch \in [Loggers -> Seq(1 .. MaxRecords)]
    /\ existing \in [Loggers -> Seq(1 .. MaxRecords)] /\ object \in [Loggers -> Seq(1 .. MaxRecords)]
    /\ doubt \in [Loggers -> BOOLEAN] /\ faulty \in [Loggers -> BOOLEAN]

LogInit ==
    /\ made = {} /\ live = {} /\ timers = {}
    /\ appended = [l \in Loggers |-> 0]
    /\ buffer = [l \in Loggers |-> <<>>] /\ flight = [l \in Loggers |-> "no"]
    /\ batch = [l \in Loggers |-> <<>>] /\ existing = [l \in Loggers |-> <<>>]
    /\ object = [l \in Loggers |-> <<>>] /\ closing = [l \in Loggers |-> "no"]
    /\ doubt = [l \in Loggers |-> FALSE] /\ faulty = [l \in Loggers |-> FALSE]

Construct(l) ==
    /\ l \notin made
    /\ made' = made \cup {l} /\ live' = live \cup {l} /\ timers' = timers \cup {l}
    /\ UNCHANGED <<appended, closing, flushVars>>

\* Nothing stops an append to a closed logger.
Append1(l) ==
    /\ l \in made /\ appended[l] < MaxRecords
    /\ appended' = [appended EXCEPT ![l] = @ + 1]
    /\ buffer' = [buffer EXCEPT ![l] = Append(@, appended'[l])]
    /\ UNCHANGED <<made, live, timers, closing, flight, batch, existing, object, doubt, faulty>>

-----------------------------------------------------------------------------
(* flushBuffer and appendToGcs.                                            *)

Flushable(l) == buffer[l] # <<>> /\ flight[l] = "no"

StartFlush(l) ==
    /\ flight' = [flight EXCEPT ![l] = "download"]
    /\ batch' = [batch EXCEPT ![l] = buffer[l]]

TimerFlush(l) ==
    /\ l \in timers /\ Flushable(l)
    /\ StartFlush(l)
    /\ UNCHANGED <<made, live, timers, appended, closing, buffer, existing, object, doubt, faulty>>

\* The whole buffer is emptied, or nothing of it.
BugSplice(l) == <<>>
BugNoSplice(l) == buffer[l]

\* The lines that were saved leave the buffer.
Splice(l) == SubSeq(buffer[l], Len(batch[l]) + 1, Len(buffer[l]))

\* The end of flushBuffer; a final flush ends close() as well.
FlushEnds(l) ==
    /\ flight' = [flight EXCEPT ![l] = "no"]
    /\ batch' = [batch EXCEPT ![l] = <<>>] /\ existing' = [existing EXCEPT ![l] = <<>>]
    /\ closing' = [closing EXCEPT ![l] = IF @ = "draining" THEN "closed" ELSE @]

Downloaded(l) ==
    /\ flight[l] = "download"
    /\ existing' = [existing EXCEPT ![l] = object[l]]
    /\ flight' = [flight EXCEPT ![l] = "save"]
    /\ UNCHANGED <<made, live, timers, appended, closing, buffer, batch, object, doubt, faulty>>

SaveLands(l) ==
    /\ flight[l] = "save"
    /\ object' = [object EXCEPT ![l] = existing[l] \o batch[l]]
    /\ flight' = [flight EXCEPT ![l] = "landed"]
    /\ UNCHANGED <<made, live, timers, appended, closing, buffer, batch, existing, doubt, faulty>>

SaveAnswered(l) ==
    /\ flight[l] = "landed"
    /\ buffer' = [buffer EXCEPT ![l] = Splice(l)]
    /\ FlushEnds(l)
    /\ UNCHANGED <<made, live, timers, appended, object, doubt, faulty>>

\* A download that fails is taken for an object that does not exist yet.
BugRequestFails(l) ==
    /\ flight[l] = "download"
    /\ existing' = [existing EXCEPT ![l] = <<>>]
    /\ flight' = [flight EXCEPT ![l] = "save"]
    /\ UNCHANGED <<made, live, timers, appended, closing, buffer, batch, object, doubt, faulty>>

\* The download or the save fails, or the answer of a save that landed is lost: the
\* lines stay in the buffer.  One lost answer per logger bounds the object.
RequestFails(l) ==
    /\ flight[l] # "no" /\ (flight[l] = "landed" => ~doubt[l])
    /\ doubt' = [doubt EXCEPT ![l] = @ \/ flight[l] = "landed"]
    /\ faulty' = [faulty EXCEPT ![l] = @ \/ closing[l] = "draining"]
    /\ FlushEnds(l)
    /\ UNCHANGED <<made, live, timers, appended, buffer, object>>

-----------------------------------------------------------------------------
(* close.                                                                  *)

\* A close that leaves the timer running.
BugCloseAll ==
    /\ closing' = [l \in Loggers |-> IF l \in live THEN "waiting" ELSE closing[l]]
    /\ live' = {}
    /\ UNCHANGED <<made, timers, appended, flushVars>>

\* closeAllInteractionLoggers calls close() of every registered logger.
CloseAll ==
    /\ closing' = [l \in Loggers |-> IF l \in live THEN "waiting" ELSE closing[l]]
    /\ live' = {} /\ timers' = timers \ live
    /\ UNCHANGED <<made, appended, flushVars>>

\* A close that does not wait: flushBuffer returns at once while a flush is under way.
BugDrain(l) ==
    /\ closing[l] = "waiting"
    /\ IF Flushable(l)
       THEN StartFlush(l) /\ closing' = [closing EXCEPT ![l] = "draining"]
       ELSE closing' = [closing EXCEPT ![l] = "closed"] /\ UNCHANGED <<flight, batch>>
    /\ UNCHANGED <<made, live, timers, appended, buffer, existing, object, doubt, faulty>>

\* The flush under way has ended: the final one, unless the buffer is empty.
Drain(l) ==
    /\ closing[l] = "waiting" /\ flight[l] = "no"
    /\ IF Flushable(l)
       THEN StartFlush(l) /\ closing' = [closing EXCEPT ![l] = "draining"]
       ELSE closing' = [closing EXCEPT ![l] = "closed"] /\ UNCHANGED <<flight, batch>>
    /\ UNCHANGED <<made, live, timers, appended, buffer, existing, object, doubt, faulty>>

FlushStep(l) == Downloaded(l) \/ SaveLands(l) \/ SaveAnswered(l) \/ RequestFails(l)

-----------------------------------------------------------------------------
(* Properties.                                                             *)

\* No record is dropped while the process lives: what was appended is in the object or
\* still buffered, though records arrive during a flush and flushes fail (flushBuffer).
NoRecordDropped ==
    \A l \in Loggers : \A n \in 1 .. appended[l] :
        \/ \E i \in 1 .. Len(object[l]) : object[l][i] = n
        \/ \E i \in 1 .. Len(buffer[l]) : buffer[l][i] = n

\* Without a lost answer the object is a prefix of the log: each record once, in the order
\* of the calls, whatever failed and was flushed again (appendToGcs, flushBuffer).
LogInOrder ==
    \A l \in Loggers : ~doubt[l] =>
        \A i \in 1 .. Len(object[l]) : object[l][i] = i

\* The log is append-only: no save takes back what an earlier one has stored, although
\* each one writes the whole object.
AppendOnly == [][\A l \in Loggers : IsPrefix(object[l], object'[l])]_logVars

=============================================================================
