----------------------------- MODULE ReportStore -----------------------------
(***************************************************************************)
(* Report bodies outside an answer: the report-csv store of each process   *)
(* with its mirror in a bucket, the objects large bodies are spilled to,   *)
(* and the hook that drops both when a session ends                        *)
(* (utils/reporting/report-csv-store.ts, report-csv-resource.ts,           *)
(* report-spill.ts, report-download-view.ts and the servers'               *)
(* session-services.ts).                                                   *)
(*                                                                         *)
(* A body is the call that downloaded it: its resource id and its object   *)
(* name are unique (a UUID; the report id and a timestamp).  A session may *)
(* be held by several processes at a time, because a process rebuilds a    *)
(* session whose id it does not know.  One clock; bodies below the size    *)
(* limit; entries without a session (stdio) are left out.                  *)
(***************************************************************************)
EXTENDS Integers, FiniteSets

CONSTANTS
    Instances,      \* server processes
    Sessions,
    Calls,          \* calls of a download tool; a body is named by its call
    Readers,        \* reads of a report-csv resource
    Sweeps,         \* deletions of a session's objects, one for each session end
    None,
    Bodies,         \* what calls download: [raw, large], storeRawCsv and above a threshold
    Ttl,            \* ttlMs
    MaxEntries,     \* maxEntries
    MaxCrashes,     \* bound on the processes that end without a shutdown
    MaxTime         \* bound on the clock

ASSUME ReportAssumption ==
    /\ IsFiniteSet(Calls)
    /\ Ttl \in Nat /\ MaxTime \in Nat
    /\ MaxEntries \in Nat \ {0}
    /\ None \notin Instances \union Sessions \union Calls
    /\ Bodies \subseteq [raw : BOOLEAN, large : BOOLEAN]

VARIABLES
    now,
    bucket,     \* is REPORT_SPILL_BUCKET set?
    open,       \* open[i]: the sessions the store of process i holds
    call,       \* call[c]: where a download is, its session, process and instant
    entries,    \* entries[i]: the bodies in the memory of process i
    mirror,     \* mirror[c]: the copy of c's body under csv-index/
    objects,    \* the spilled objects in the bucket
    sweep,      \* sweep[w]: a deleteFiles of one session's prefix
    read,       \* read[r]: a read of a report-csv URI
    crashed     \* the processes that have crashed

vars == <<now, bucket, open, call, entries, mirror, objects, sweep, read, crashed>>

-----------------------------------------------------------------------------
NoCall == [pc |-> "idle", by |-> None, on |-> None, at |-> 0, nth |-> 0, late |-> FALSE,
           undisturbed |-> TRUE]
NoSweep == [pc |-> "idle", of |-> None, on |-> None, left |-> {}, owed |-> {}]
NoRead == [pc |-> "idle", by |-> None, on |-> None, of |-> None, there |-> FALSE, inTime |-> TRUE,
           failed |-> FALSE]
\* A deletion that failed owes nothing.
Abandoned == [NoSweep EXCEPT !.pc = "failed"]
Unanswered == [NoRead EXCEPT !.pc = "unanswered"]

Owner(c) == call[c].by
Expiry(c) == call[c].at + Ttl
OfSession(s) == {c \in Calls : Owner(c) = s}

\* The calls that have stored their body; call[c].nth is which store c's was.
Stored == {c \in Calls : call[c].nth > 0}

InTime(c) == now < Expiry(c)
Fresh(i) == {c \in entries[i] : InTime(c)}

\* evictOldest: the least createdAt, the first inserted among equals.
Older(c, d) == \/ call[c].at < call[d].at
               \/ call[c].at = call[d].at /\ call[c].nth < call[d].nth
WithoutOldest(S) == {c \in S : \E d \in S : Older(d, c)}

\* store(): expired entries go first, then the oldest if the store is full.
MakeRoom(i) == IF Cardinality(Fresh(i)) >= MaxEntries THEN WithoutOldest(Fresh(i)) ELSE Fresh(i)

-----------------------------------------------------------------------------
Init ==
    /\ now = 0
    /\ bucket \in BOOLEAN
    /\ open = [i \in Instances |-> {}]
    /\ call = [c \in Calls |-> NoCall]
    /\ entries = [i \in Instances |-> {}]
    /\ mirror = [c \in Calls |-> "none"]
    /\ objects = {}
    /\ sweep = [w \in Sweeps |-> NoSweep]
    /\ read = [r \in Readers |-> NoRead]
    /\ crashed = {}

\* A process creates a session, or rebuilds one another process holds or that has ended.
Open(i, s) ==
    /\ s \notin open[i]
    /\ i \notin crashed
    /\ open' = [open EXCEPT ![i] = @ \union {s}]
    /\ UNCHANGED <<now, bucket, call, entries, mirror, objects, sweep, read, crashed>>

-----------------------------------------------------------------------------
(* A download: the body arrives, is stored and mirrored, and is spilled.   *)

Sweeping(s) == \E w \in Sweeps : sweep[w].pc \in {"listing", "deleting"} /\ sweep[w].of = s

StartDownload(c, i, s) ==
    /\ call[c].pc = "idle"
    /\ s \in open[i]
    /\ call' = [call EXCEPT ![c] = [@ EXCEPT !.pc = "downloading", !.by = s, !.on = i,
                                             !.undisturbed = ~Sweeping(s)]]
    /\ UNCHANGED <<now, bucket, open, entries, mirror, objects, sweep, read, crashed>>

\* The spill that follows is attempted if the bucket is set and the body is large.
Spill(b) == IF bucket /\ b.large THEN "saving" ELSE "done"

\* store(): synchronous, with the mirror write started and not awaited.
Store(c, b) ==
    LET i == call[c].on IN
    /\ b.raw
    /\ call[c].pc = "downloading"
    /\ call' = [call EXCEPT ![c] = [@ EXCEPT !.pc = Spill(b), !.at = now,
                                             !.nth = Cardinality(Stored) + 1,
                                             !.late = Owner(c) \notin open[i]]]
    /\ entries' = [entries EXCEPT ![i] = MakeRoom(i) \union {c}]
    /\ mirror' = IF bucket THEN [mirror EXCEPT ![c] = "writing"] ELSE mirror
    /\ UNCHANGED <<now, bucket, open, objects, sweep, read, crashed>>

\* Without storeRawCsv the body is at most spilled.
NotStored(c, b) ==
    /\ ~b.raw
    /\ call[c].pc = "downloading"
    /\ call' = [call EXCEPT ![c].pc = Spill(b)]
    /\ UNCHANGED <<now, bucket, open, entries, mirror, objects, sweep, read, crashed>>

MirrorLands(c) ==
    /\ mirror[c] = "writing"
    /\ mirror' = [mirror EXCEPT ![c] = "there"]
    /\ UNCHANGED <<now, bucket, open, call, entries, objects, sweep, read, crashed>>

MirrorFails(c) ==
    /\ mirror[c] = "writing"
    /\ mirror' = [mirror EXCEPT ![c] = "none"]
    /\ UNCHANGED <<now, bucket, open, call, entries, objects, sweep, read, crashed>>

SaveLands(c) ==
    /\ call[c].pc \in {"saving", "lost"}
    /\ objects' = objects \union {c}
    /\ call' = [call EXCEPT ![c].pc = IF @ = "saving" THEN "signing" ELSE "done"]
    /\ UNCHANGED <<now, bucket, open, entries, mirror, sweep, read, crashed>>

\* getSignedUrl signs a name; it does not look whether the object is there.
Signed(c) ==
    /\ call[c].pc = "signing"
    /\ call' = [call EXCEPT ![c].pc = "handed"]
    /\ UNCHANGED <<now, bucket, open, entries, mirror, objects, sweep, read, crashed>>

\* The save or the signature fails and the call goes on without a link; a
\* save nobody waits for any more may still land.
GivenUp(pc) == IF pc = "saving" THEN "lost" ELSE "done"

SpillFails(c) ==
    /\ call[c].pc \in {"saving", "signing"}
    /\ call' = [call EXCEPT ![c].pc = GivenUp(@)]
    /\ UNCHANGED <<now, bucket, open, entries, mirror, objects, sweep, read, crashed>>

-----------------------------------------------------------------------------
(* The end of a session in one process: the delete hook.                   *)

\* The whole store is cleared.
BugClearForSession(i, s) == {}

\* clearForSession: the entries of this session.
ClearForSession(i, s) == entries[i] \ OfSession(s)

Disturb(s) ==
    [c \in Calls |-> IF Owner(c) = s THEN [call[c] EXCEPT !.undisturbed = FALSE] ELSE call[c]]

StartSweep(i, s) ==
    IF bucket
    THEN \E w \in Sweeps :
            /\ sweep[w].pc = "idle"
            /\ sweep' = [sweep EXCEPT ![w] = [pc |-> "listing", of |-> s, on |-> i, left |-> {},
                                              owed |-> objects \intersect OfSession(s)]]
    ELSE sweep' = sweep

Close(i, s) ==
    /\ s \in open[i]
    /\ open' = [open EXCEPT ![i] = @ \ {s}]
    /\ StartSweep(i, s)
    /\ entries' = [entries EXCEPT ![i] = ClearForSession(i, s)]
    /\ call' = Disturb(s)
    /\ UNCHANGED <<now, bucket, mirror, objects, read, crashed>>

\* The objects under {server}/{sessionId}/.
BugWithPrefix(s) == objects
WithPrefix(s) == objects \intersect OfSession(s)

BugListed(s) == {}
Listed(s) == WithPrefix(s)

List(w) ==
    /\ sweep[w].pc = "listing"
    /\ sweep' = [sweep EXCEPT ![w].pc = "deleting", ![w].left = Listed(sweep[w].of)]
    /\ UNCHANGED <<now, bucket, open, call, entries, mirror, objects, read, crashed>>

DeleteObject(w, c) ==
    /\ sweep[w].pc = "deleting"
    /\ c \in sweep[w].left
    /\ objects' = objects \ {c}
    /\ sweep' = [sweep EXCEPT ![w].left = @ \ {c}]
    /\ UNCHANGED <<now, bucket, open, call, entries, mirror, read, crashed>>

SweepEnds(w) ==
    /\ sweep[w].pc = "deleting"
    /\ sweep[w].left = {}
    /\ sweep' = [sweep EXCEPT ![w].pc = "ended"]
    /\ UNCHANGED <<now, bucket, open, call, entries, mirror, objects, read, crashed>>

\* A failure is logged; the bucket's lifecycle rule is relied on.
SweepFails(w) ==
    /\ sweep[w].pc \in {"listing", "deleting"}
    /\ sweep' = [sweep EXCEPT ![w] = Abandoned]
    /\ UNCHANGED <<now, bucket, open, call, entries, mirror, objects, read, crashed>>

-----------------------------------------------------------------------------
(* Reading report-csv://{id}: memory first, then the mirror.               *)

\* The read handler serves a body to its own session only.
BugVerdict(c, s) == IF Owner(c) = s THEN "served" ELSE "notFound"
Verdict(c, s) == IF InTime(c) /\ Owner(c) = s THEN "served" ELSE "notFound"

\* Without an entry in memory the mirror is asked, if there is one.
BugMiss == "notFound"
Miss == IF bucket THEN "fetching" ELSE "notFound"

Answered(pc, s, c, there) ==
    [pc |-> pc, by |-> s, on |-> None, of |-> c, there |-> there, inTime |-> InTime(c),
     failed |-> FALSE]

\* get() deletes an entry it finds expired.
ReadResource(r, i, s, c) ==
    /\ read[r].pc = "idle"
    /\ s \in open[i]
    /\ c \in Stored
    /\ read' = [read EXCEPT ![r] =
                    IF c \in Fresh(i) THEN Answered(Verdict(c, s), s, c, FALSE)
                    ELSE IF Miss = "notFound" THEN Answered(Miss, s, c, mirror[c] = "there")
                    ELSE [pc |-> Miss, by |-> s, on |-> i, of |-> c,
                          there |-> mirror[c] = "there", inTime |-> TRUE, failed |-> FALSE]]
    /\ entries' = [entries EXCEPT ![i] = IF c \in Fresh(i) THEN @ ELSE @ \ {c}]
    /\ UNCHANGED <<now, bucket, open, call, mirror, objects, sweep, crashed>>

Fetched(r) ==
    LET c == read[r].of  s == read[r].by IN
    /\ read[r].pc = "fetching"
    /\ read' = [read EXCEPT ![r] =
                    Answered(IF mirror[c] = "there" THEN Verdict(c, s) ELSE "notFound",
                             s, c, read[r].there)]
    /\ UNCHANGED <<now, bucket, open, call, entries, mirror, objects, sweep, crashed>>

\* The bucket does not resolve or the storage fails the read, and fetchFromMirror returns
\* undefined as for a body that is gone.  (A resolution that failed is kept and fails every
\* read and mirror write of its process; here each may fail by itself.)
FetchFails(r) ==
    /\ read[r].pc = "fetching"
    /\ read' = [read EXCEPT ![r] =
                    [Answered("notFound", @.by, @.of, @.there) EXCEPT !.failed = TRUE]]
    /\ UNCHANGED <<now, bucket, open, call, entries, mirror, objects, sweep, crashed>>

\* resources/list: list() drops what has expired.
ListResources(i) ==
    /\ entries[i] # Fresh(i)
    /\ entries' = [entries EXCEPT ![i] = Fresh(i)]
    /\ UNCHANGED <<now, bucket, open, call, mirror, objects, sweep, read, crashed>>

-----------------------------------------------------------------------------
\* A process ends without a shutdown: no hook runs, its calls stop, and a
\* request it has sent may still land.
Crash(i) ==
    /\ i \notin crashed
    /\ Cardinality(crashed) < MaxCrashes
    /\ crashed' = crashed \union {i}
    /\ open' = [open EXCEPT ![i] = {}]
    /\ entries' = [entries EXCEPT ![i] = {}]
    /\ call' = [c \in Calls |-> IF call[c].on = i /\ call[c].pc \in {"downloading", "saving", "signing"}
                                THEN [call[c] EXCEPT !.pc = GivenUp(@)] ELSE call[c]]
    /\ sweep' = [w \in Sweeps |-> IF sweep[w].on = i /\ sweep[w].pc \in {"listing", "deleting"}
                                  THEN Abandoned ELSE sweep[w]]
    /\ read' = [r \in Readers |-> IF read[r].on = i /\ read[r].pc = "fetching"
                                  THEN Unanswered ELSE read[r]]
    /\ UNCHANGED <<now, bucket, mirror, objects>>

Tick ==
    /\ now < MaxTime
    /\ now' = now + 1
    /\ UNCHANGED <<bucket, open, call, entries, mirror, objects, sweep, read, crashed>>

Next ==
    \/ \E i \in Instances, s \in Sessions : Open(i, s) \/ Close(i, s)
    \/ \E i \in Instances, s \in Sessions, c \in Calls : StartDownload(c, i, s)
    \/ \E c \in Calls, b \in Bodies : Store(c, b) \/ NotStored(c, b)
    \/ \E c \in Calls : \/ MirrorLands(c) \/ MirrorFails(c)
                        \/ SaveLands(c) \/ Signed(c) \/ SpillFails(c)
    \/ \E w \in Sweeps : \/ List(w) \/ SweepEnds(w) \/ SweepFails(w)
                         \/ \E c \in Calls : DeleteObject(w, c)
    \/ \E r \in Readers, i \in Instances, s \in Sessions, c \in Calls : ReadResource(r, i, s, c)
    \/ \E r \in Readers : Fetched(r) \/ FetchFails(r)
    \/ \E i \in Instances : ListResources(i) \/ Crash(i)
    \/ Tick

Spec == Init /\ [][Next]_vars

-----------------------------------------------------------------------------
(* Properties                                                              *)

CallRecord ==
    [pc : {"idle", "downloading", "saving", "signing", "handed", "lost", "done"},
     by : Sessions \union {None}, on : Instances \union {None}, at : 0 .. MaxTime, nth : Nat,
     late : BOOLEAN, undisturbed : BOOLEAN]

SweepRecord ==
    [pc : {"idle", "listing", "deleting", "ended", "failed"}, of : Sessions \union {None},
     on : Instances \union {None}, left : SUBSET Calls, owed : SUBSET Calls]

ReadRecord ==
    [pc : {"idle", "fetching", "served", "notFound", "unanswered"}, by : Sessions \union {None},
     on : Instances \union {None}, of : Calls \union {None}, there : BOOLEAN, inTime : BOOLEAN,
     failed : BOOLEAN]

\* Well-typed, and no process holds more than maxEntries bodies
\* (evictExpired and evictOldest in store()).
TypeOK ==
    /\ now \in 0 .. MaxTime
    /\ bucket \in BOOLEAN
    /\ open \in [Instances -> SUBSET Sessions]
    /\ call \in [Calls -> CallRecord]
    /\ entries \in [Instances -> SUBSET Stored]
    /\ \A i \in Instances : Cardinality(entries[i]) <= MaxEntries
    /\ mirror \in [Calls -> {"none", "writing", "there"}]
    /\ objects \in SUBSET Calls
    /\ sweep \in [Sweeps -> SweepRecord]
    /\ read \in [Readers -> ReadRecord]
    /\ crashed \in SUBSET Instances

\* A body is served to the session that stored it and to no other, and never
\* at or after its expiry, from the memory of any process or through the
\* mirror, whatever time the fetch takes.
ServedToItsSessionInTime ==
    \A r \in Readers : read[r].pc = "served" =>
        /\ read[r].by = Owner(read[r].of)
        /\ read[r].inTime

\* A session whose body had reached the mirror when it asked is told "not found", by any
\* process, only if the body has expired or the storage failed this very read, which the
\* answer does not tell apart: eviction, the end of the session elsewhere, crashes and
\* failed reads before it do not lose the body (getRemote, fetchFromMirror).
MirroredIsReadable ==
    \A r \in Readers :
        read[r].pc = "notFound" /\ read[r].there /\ read[r].by = Owner(read[r].of)
            => ~read[r].inTime \/ read[r].failed

\* A body leaves the memory of its process before it expires only because
\* its session ended or because the process has stored maxEntries since.
NewestKept ==
    \A c \in Stored :
        LET i == call[c].on IN
        call[c].undisturbed /\ i \notin crashed /\ InTime(c) /\ c \notin entries[i] =>
            Cardinality({d \in Stored : call[d].on = i /\ call[d].nth > call[c].nth})
                >= MaxEntries

\* What a process keeps of a session it no longer holds was stored by a call
\* that outlived the session (the hook cannot see it).
ClosedKeepsOnlyLateEntries ==
    \A i \in Instances : \A c \in entries[i] : Owner(c) \notin open[i] => call[c].late

\* A link the client was handed leads to an object, whatever sessions end
\* beside its own: only an end of its own session, or a deletion that an
\* earlier end of it started, takes the object away.
HandedLinkWorks ==
    \A c \in Calls : call[c].pc = "handed" /\ call[c].undisturbed => c \in objects

\* A deletion that succeeds leaves nothing of what its session had spilled
\* when it ended, in whichever process.
SweepIsComplete ==
    \A w \in Sweeps : sweep[w].pc = "ended" => sweep[w].owed \intersect objects = {}
=============================================================================
