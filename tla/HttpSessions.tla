---------------------------- MODULE HttpSessions ----------------------------
(***************************************************************************)
(* Session lifecycle of the streamable-HTTP transport of packages/shared:  *)
(* the POST and DELETE handlers of mcp-http-transport-factory.ts, the      *)
(* SessionManager of mcp-transport-helpers.ts and the SessionServiceStore. *)
(*                                                                         *)
(* Node runs handlers one at a time between awaits, so an action here is   *)
(* the code from one await to the next.  An await that does I/O lets the   *)
(* other handlers run; one that only waits for microtasks keeps the loop,  *)
(* and which ones do I/O depends on the platform.  Init chooses one of the  *)
(* Disciplines: that, and whether the clients of a session take turns.  A  *)
(* request is served once; servers and transports are named after the      *)
(* request that made them.  The MCP SDK is external: `connect` throws "Already          *)
(* connected to a transport" on a connected server, and closing either end *)
(* disconnects both.                                                       *)
(***************************************************************************)
EXTENDS Naturals, FiniteSets

CONSTANTS
    Sids,         \* session ids
    Creds,        \* credentials (their fingerprints)
    Requests,     \* HTTP requests
    Sweepers,     \* names for the cleanups the idle sweep has in flight
    MaxSessions,  \* capacity of the service store
    Disciplines,  \* what is considered of platforms and clients (see DisciplineType)
    None

\* Awaits that may resolve in the same turn of the event loop.  Verifying a
\* credential, building a platform's services and serving a call always do I/O.
Brief == {"validating", "creatingServer", "connecting", "failing",
          "closingTransport", "closingServer"}

\* The awaits of Brief that do I/O on the platform, whether the clients of a
\* session send one request at a time, and two bounds: the requests sent, and
\* the cleanups that the sweep may have in flight at a time.
DisciplineType ==
    [yields : SUBSET Brief, serial : BOOLEAN, sent : Nat, sweepers : SUBSET Sweepers]

ASSUME SessionAssumption ==
    /\ Disciplines \subseteq DisciplineType
    /\ MaxSessions \in Nat \ {0}
    /\ None \notin Sids \cup Creds \cup Requests
    /\ Requests \cap Sweepers = {}

VARIABLES
    m,      \* the maps of the process, a record (see MapsType)
    req,    \* [Requests -> the local state of the handler]
    job,    \* [Requests \cup Sweepers -> the cleanup running on its behalf]
    how,    \* the discipline of this run
    ranAs,  \* history: [Requests -> the services a tool call resolved]
    used    \* history: the ids that were ever generated or presented

vars == <<m, req, job, how, ranAs, used>>

Jobs == Requests \cup Sweepers

NoReq == [pc |-> "new", sid |-> None, cred |-> None, rebuild |-> FALSE, tr |-> None]
NoJob == [pc |-> "none", sid |-> None, drop |-> FALSE]

Pcs == {"new", "validating", "authenticating", "creatingServer", "connecting",
        "handling", "failing", "verifyingDelete", "done"}

MapsType ==
    [store      : [Sids -> Creds \cup {None}],    \* services, fingerprint, auth context
     tracked    : SUBSET Sids,                    \* sessionCreatedAt
     idle       : SUBSET Sids,                    \* last activity older than the timeout
     servers    : [Sids -> Requests \cup {None}], \* sessionServers
     transports : [Sids -> Requests \cup {None}], \* sessionTransports
     conn       : [Requests -> Requests \cup {None}], \* server -> its transport
     openS      : SUBSET Requests,                \* servers not closed
     openT      : SUBSET Requests]                \* transports not closed

TypeOK ==
    /\ m \in MapsType
    /\ req \in [Requests -> [pc : Pcs, sid : Sids \cup {None}, cred : Creds \cup {None},
                             rebuild : BOOLEAN, tr : Requests \cup {None}]]
    /\ job \in [Jobs -> [pc : {"none", "closingTransport", "closingServer"},
                         sid : Sids \cup {None}, drop : BOOLEAN]]
    /\ how \in DisciplineType
    /\ ranAs \in [Requests -> Creds \cup {None}]
    /\ used \subseteq Sids
-----------------------------------------------------------------------------
Held(s) == m.store[s] # None
IsFull == Cardinality({s \in Sids : Held(s)}) >= MaxSessions

InFlight(r) == req[r].pc \notin {"new", "done"}
Busy(s) == \E r \in Requests : InFlight(r) /\ req[r].sid = s
MayArrive(s) == how.serial => ~Busy(s)

\* Work of j resumes within this turn of the event loop.
HoldsLoop(j) ==
    \/ job[j].pc \in Brief \ how.yields
    \/ j \in Requests /\ req[j].pc \in Brief \ how.yields

\* Nobody but (the cleanup of) j is in the middle of a turn.
Turn(j) == \A i \in Jobs \ {j} : ~HoldsLoop(i)

\* Closing a transport disconnects the server it serves (Protocol.onclose).
CloseTransport(x, t) ==
    [x EXCEPT !.openT = @ \ {t},
              !.conn = [v \in Requests |-> IF x.conn[v] = t THEN None ELSE x.conn[v]]]

DropTransport(x, s) ==
    IF x.transports[s] = None THEN x
    ELSE [CloseTransport(x, x.transports[s]) EXCEPT !.transports[s] = None]

\* Mutant: the cached server is forgotten and never closed.
BugDropServer(x, s) == [x EXCEPT !.servers[s] = None]

\* Forget the cached server and close it, and with it its transport.
DropServer(x, s) ==
    LET v == x.servers[s]
    IN  [CloseTransport(x, x.conn[v]) EXCEPT !.servers[s] = None, !.openS = @ \ {v}]

Untrack(x, s) == [x EXCEPT !.tracked = @ \ {s}, !.idle = @ \ {s}]

Closing(pc, s, drop) == [pc |-> pc, sid |-> s, drop |-> drop]

\* detachSession up to its await, or to its end when no server is cached; the
\* pair of the maps and the job that is left.
Detach(x, s) ==
    IF x.servers[s] # None
    THEN <<DropServer(x, s), Closing("closingServer", s, FALSE)>>
    ELSE <<Untrack(x, s), NoJob>>

\* Mutant: the store forgets a session without its onDelete hook.
BugStoreDelete(x, s) == <<[x EXCEPT !.store[s] = None], NoJob>>

\* store.delete: a session that is held loses its services and fires the
\* transport's hook, which drops the transport and detaches the session.
StoreDelete(x, s) ==
    IF x.store[s] = None THEN <<x, NoJob>>
    ELSE Detach(DropTransport([x EXCEPT !.store[s] = None], s), s)

\* cleanupSession after its transport is closed: detach, then store.delete.
CleanupRest(x, s) ==
    IF x.servers[s] # None
    THEN <<DropServer(x, s), Closing("closingServer", s, TRUE)>>
    ELSE StoreDelete(Untrack(x, s), s)

\* cleanupSession from its start: onBeforeCleanup awaits transport.close.
Cleanup(x, s) ==
    IF x.transports[s] # None
    THEN <<CloseTransport(x, x.transports[s]), Closing("closingTransport", s, TRUE)>>
    ELSE CleanupRest(x, s)

Becomes(j, result) == m' = result[1] /\ job' = [job EXCEPT ![j] = result[2]]

Goto(r, pc) == req' = [req EXCEPT ![r].pc = pc]
-----------------------------------------------------------------------------
Init ==
    /\ m = [store |-> [s \in Sids |-> None], tracked |-> {}, idle |-> {},
            servers |-> [s \in Sids |-> None], transports |-> [s \in Sids |-> None],
            conn |-> [r \in Requests |-> None], openS |-> {}, openT |-> {}]
    /\ req = [r \in Requests |-> NoReq]
    /\ job = [j \in Jobs |-> NoJob]
    /\ how \in Disciplines
    /\ ranAs = [r \in Requests |-> None]
    /\ used = {}

\* POST without a session id, up to the await on the auth strategy.
PostNew(r, c) ==
    /\ req[r].pc = "new"
    /\ req' = [req EXCEPT ![r].pc = IF IsFull THEN "done" ELSE "authenticating", ![r].cred = c]
    /\ UNCHANGED <<m, job, ranAs, used>>

\* POST with a session id: needsRebuild is computed here, before the await in
\* validateSessionReuse.
PostWithId(r, c, s) ==
    /\ req[r].pc = "new"
    /\ MayArrive(s)
    /\ req' = [req EXCEPT ![r] = [NoReq EXCEPT !.pc = "validating", !.sid = s, !.cred = c,
                                  !.rebuild = ~Held(s) /\ s \notin m.tracked]]
    /\ used' = used \cup {s}
    /\ UNCHANGED <<m, job, ranAs>>

\* From the session's server on: reuse or create the server, reuse or connect
\* the transport, up to the next await.  x is the state of the maps so far.
Dispatch(r, s, x) ==
    LET v == x.servers[s]
        t == x.transports[s]
    IN  \/ /\ v = None
           /\ m' = x
           /\ req' = [req EXCEPT ![r].pc = "creatingServer", ![r].sid = s]
        \/ /\ v # None /\ t # None
           /\ m' = x
           /\ req' = [req EXCEPT ![r].pc = "handling", ![r].sid = s, ![r].tr = t]
        \/ /\ v # None /\ t = None /\ x.conn[v] = None
           /\ m' = [x EXCEPT !.conn[v] = r, !.openT = @ \cup {r}]
           /\ req' = [req EXCEPT ![r].pc = "connecting", ![r].sid = s, ![r].tr = r]
        \/ /\ v # None /\ t = None /\ x.conn[v] # None
           /\ m' = x
           /\ req' = [req EXCEPT ![r].pc = "failing", ![r].sid = s]

Touch(x, s) == IF s \in x.tracked THEN [x EXCEPT !.idle = @ \ {s}] ELSE x

\* Mutant: the fingerprint is compared before the await only, that is not at
\* all for a session that was bound meanwhile.
BugValidate(r) ==
    /\ req[r].pc = "validating"
    /\ Dispatch(r, req[r].sid, Touch(m, req[r].sid))
    /\ UNCHANGED <<job, ranAs, used>>

\* Back from validateSessionReuse with the caller's fingerprint: a bound
\* session refuses another one; a rebuild is an allocation.
Validate(r) ==
    LET s == req[r].sid
    IN  /\ req[r].pc = "validating"
        /\ \/ /\ Held(s) /\ m.store[s] # req[r].cred
              /\ Goto(r, "done")
              /\ UNCHANGED m
           \/ /\ ~(Held(s) /\ m.store[s] # req[r].cred)
              /\ req[r].rebuild /\ IsFull
              /\ m' = Touch(m, s)
              /\ Goto(r, "done")
           \/ /\ ~(Held(s) /\ m.store[s] # req[r].cred)
              /\ req[r].rebuild /\ ~IsFull
              /\ m' = Touch(m, s)
              /\ Goto(r, "authenticating")
           \/ /\ ~(Held(s) /\ m.store[s] # req[r].cred)
              /\ ~req[r].rebuild
              /\ Dispatch(r, s, Touch(m, s))
        /\ UNCHANGED <<job, ranAs, used>>

\* verify or createSessionForAuth rejects the credential: 401.
AuthFails(r) ==
    /\ req[r].pc \in {"validating", "authenticating", "verifyingDelete"}
    /\ Goto(r, "done")
    /\ UNCHANGED <<m, job, ranAs, used>>

\* Mutant: a rebuilt session is not tracked.
BugBind(r, s) == Dispatch(r, s, [m EXCEPT !.store[s] = req[r].cred])

\* Verified and the platform's services built: bind them to the id (store.set
\* replaces what is there), track the session and go on to its server.
Bind(r, s) ==
    Dispatch(r, s, [m EXCEPT !.store[s] = req[r].cred,
                             !.tracked = @ \cup {s}, !.idle = @ \ {s}])

CreateSession(r) ==
    /\ req[r].pc = "authenticating"
    /\ \/ req[r].sid # None /\ Bind(r, req[r].sid) /\ UNCHANGED used
       \/ \E s \in Sids \ used :
            req[r].sid = None /\ Bind(r, s) /\ used' = used \cup {s}
    /\ UNCHANGED <<job, ranAs>>

\* createMcpServer resolves; setServer overwrites.
ServerCreated(r) ==
    /\ req[r].pc = "creatingServer"
    /\ Dispatch(r, req[r].sid, [m EXCEPT !.servers[req[r].sid] = r, !.openS = @ \cup {r}])
    /\ UNCHANGED <<job, ranAs, used>>

\* connect resolves; the transport is published for later requests.
Connected(r) ==
    /\ req[r].pc = "connecting"
    /\ m' = [m EXCEPT !.transports[req[r].sid] = r]
    /\ Goto(r, "handling")
    /\ UNCHANGED <<job, ranAs, used>>

\* Mutant: the services are looked up in the map of servers.
BugHandled(r) ==
    /\ req[r].pc = "handling"
    /\ ranAs' = [ranAs EXCEPT ![r] = m.servers[req[r].sid]]
    /\ Goto(r, "done")
    /\ UNCHANGED <<m, job, used>>

\* handleRequest resolves; a tool call in it resolved the session's services
\* from the store when it ran.
Handled(r) ==
    /\ req[r].pc = "handling"
    /\ ranAs' = [ranAs EXCEPT ![r] = m.store[req[r].sid]]
    /\ Goto(r, "done")
    /\ UNCHANGED <<m, job, used>>

\* The tool call is refused upstream: onAuthError drops the session.
HandledUnauthorized(r) ==
    /\ req[r].pc = "handling"
    /\ Held(req[r].sid)
    /\ ranAs' = [ranAs EXCEPT ![r] = m.store[req[r].sid]]
    /\ Becomes(r, StoreDelete(m, req[r].sid))
    /\ Goto(r, "done")
    /\ UNCHANGED used

\* Mutant: the catch leaves the transport open.
BugHandleThrows(r) ==
    /\ req[r].pc = "handling"
    /\ Goto(r, "failing")
    /\ UNCHANGED <<m, job, ranAs, used>>

\* handleRequest throws: the catch closes the transport the request used.
HandleThrows(r) ==
    /\ req[r].pc = "handling"
    /\ m' = CloseTransport(m, req[r].tr)
    /\ Goto(r, "failing")
    /\ UNCHANGED <<job, ranAs, used>>

\* Mutant: the closed transport stays published.
BugForgetTransport(r) ==
    /\ req[r].pc = "failing"
    /\ Goto(r, "done")
    /\ UNCHANGED <<m, job, ranAs, used>>

\* The rest of the catch, after its await: the session's entry is deleted,
\* whichever transport it holds by now.
ForgetTransport(r) ==
    /\ req[r].pc = "failing"
    /\ m' = [m EXCEPT !.transports[req[r].sid] = None]
    /\ Goto(r, "done")
    /\ UNCHANGED <<job, ranAs, used>>

\* DELETE, up to its await on the auth strategy.
Delete(r, c, s) ==
    /\ req[r].pc = "new"
    /\ MayArrive(s)
    /\ req' = [req EXCEPT ![r] = [NoReq EXCEPT !.pc = "verifyingDelete", !.sid = s, !.cred = c]]
    /\ used' = used \cup {s}
    /\ UNCHANGED <<m, job, ranAs>>

\* Verified: a mismatch is refused, anything else is cleaned up.
DeleteVerified(r) ==
    LET s == req[r].sid
    IN  /\ req[r].pc = "verifyingDelete"
        /\ IF Held(s) /\ m.store[s] # req[r].cred
           THEN UNCHANGED <<m, job>>
           ELSE Becomes(r, Cleanup(m, s))
        /\ Goto(r, "done")
        /\ UNCHANGED <<ranAs, used>>

\* A session has been idle for longer than the timeout.  The awaits before
\* handling are far shorter than the timeout, so they never straddle it.
GoIdle(s) ==
    /\ s \in m.tracked \ m.idle
    /\ \A r \in Requests : InFlight(r) /\ req[r].sid = s => req[r].pc = "handling"
    /\ m' = [m EXCEPT !.idle = @ \cup {s}]
    /\ UNCHANGED <<req, job, ranAs, used>>

\* The sweep starts the cleanup of an idle session without awaiting it, and may
\* find the session still tracked, its last cleanup under way, when it runs again.
Sweep(w, s) ==
    /\ w \in how.sweepers
    /\ job[w] = NoJob
    /\ s \in m.idle
    /\ Becomes(w, Cleanup(m, s))
    /\ UNCHANGED <<req, ranAs, used>>

\* onBeforeCleanup after its await: the entry is deleted, then the rest.
TransportClosed(j) ==
    /\ job[j].pc = "closingTransport"
    /\ Becomes(j, CleanupRest([m EXCEPT !.transports[job[j].sid] = None], job[j].sid))
    /\ UNCHANGED <<req, ranAs, used>>

\* detachSession after its await, and store.delete when cleanupSession called.
ServerClosed(j) ==
    LET s == job[j].sid
    IN  /\ job[j].pc = "closingServer"
        /\ Becomes(j, IF job[j].drop THEN StoreDelete(Untrack(m, s), s)
                      ELSE <<Untrack(m, s), NoJob>>)
        /\ UNCHANGED <<req, ranAs, used>>

Sent == {r \in Requests : req[r].pc # "new"}

Finished ==
    /\ \A r \in Requests : ~InFlight(r)
    /\ Cardinality(Sent) = how.sent
    /\ UNCHANGED vars

Step(r) ==
    \/ Validate(r) \/ AuthFails(r) \/ CreateSession(r) \/ ServerCreated(r) \/ Connected(r)
    \/ Handled(r) \/ HandledUnauthorized(r) \/ HandleThrows(r) \/ ForgetTransport(r)
    \/ DeleteVerified(r)

Arrive(r) ==
    /\ Cardinality(Sent) < how.sent
    /\ \E c \in Creds : PostNew(r, c) \/ \E s \in Sids : PostWithId(r, c, s) \/ Delete(r, c, s)

Act ==
    \/ \E r \in Requests : Turn(r) /\ (Arrive(r) \/ Step(r))
    \/ \E s \in Sids : GoIdle(s)
    \/ \E w \in Sweepers, s \in Sids : Turn(w) /\ Sweep(w, s)
    \/ \E j \in Jobs : Turn(j) /\ (TransportClosed(j) \/ ServerClosed(j))

Next == (Act /\ UNCHANGED how) \/ Finished

Spec == Init /\ [][Next]_vars
-----------------------------------------------------------------------------
\* No handler and no cleanup is in the middle of its work.
Quiet == (\A r \in Requests : ~InFlight(r)) /\ \A j \in Jobs : job[j].pc = "none"

\* A tool call runs with services built from the credential its own request
\* presented, through rebuilds, sweeps and deletes of its session (the
\* fingerprint check of validateSessionReuse, when a client takes turns).
ServedAsCaller == how.serial => \A r \in Requests : ranAs[r] \in {None, req[r].cred}

\* A session the store has dropped is forgotten by the session manager too, so
\* that the next request re-authenticates (comment on detachSession).
DroppedIsForgotten == Quiet => \A s \in m.tracked : Held(s)

\* Closing a server or a transport does no I/O, as in the SDK's transports.
ClosesAtOnce == how.yields \cap {"closingTransport", "closingServer"} = {}

\* Services live in the store only under an id the idle sweep can find; others
\* would hold an authenticated client for good.  (detachSession untracks after
\* its await: a close that suspends could untrack a session bound meanwhile.)
HeldIsSwept == Quiet /\ ClosesAtOnce => \A s \in Sids : Held(s) => s \in m.tracked

\* Every server that is still open is the cached server of a session, so that
\* some cleanup can close it: overlapping rebuilds leak none.
OpenServerIsCached == Quiet => \A v \in m.openS : \E s \in Sids : m.servers[s] = v

\* A transport later requests will be handed is open, again if closing does not
\* suspend: a cleanup that waits would close what a request connects meanwhile.
PublishedTransportWorks ==
    Quiet /\ ClosesAtOnce => \A s \in Sids : m.transports[s] # None => m.transports[s] \in m.openT

\* A session with no published transport can connect a new one, rather than
\* fail each request with "Already connected to a transport".
NeverWedged ==
    Quiet => \A s \in Sids :
        m.servers[s] # None /\ m.transports[s] = None => m.conn[m.servers[s]] = None

\* Clients that take turns never find their session stuck, whichever awaits let
\* a sweep or a cleanup in between: every path of the handler that unpublishes a
\* transport has closed it, and with it the server's connection.
TurnsNeverWedge == how.serial => NeverWedged
=============================================================================
