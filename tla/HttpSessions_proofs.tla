------------------------ MODULE HttpSessions_proofs ------------------------
(***************************************************************************)
(* Safety of the session lifecycle, for every number of sessions, callers, *)
(* requests and sweeps, every capacity and every discipline.               *)
(*                                                                         *)
(* First, what the operators on the maps do (store.delete, detachSession   *)
(* and cleanupSession all `Cleans` one session).  Then every action is put *)
(* in one of a few normal forms, by what it does to the maps and to the    *)
(* one handler or cleanup that takes it; the parts of the invariant are    *)
(* preserved form by form.                                                 *)
(***************************************************************************)
EXTENDS HttpSessions, TLAPS
-----------------------------------------------------------------------------
(* Invariants.                                                             *)

\* The handlers that have not reached their session's server, and those with an id.
Early == {"new", "validating", "authenticating", "creatingServer", "verifyingDelete"}
WithId == {"validating", "creatingServer", "connecting", "handling", "failing", "verifyingDelete"}

\* What a handler and a cleanup know of themselves.
Known ==
    /\ \A r \in Requests :
        /\ req[r].pc = "new" => req[r].sid = None /\ ranAs[r] = None
        /\ req[r].pc \in WithId => req[r].sid # None
        /\ req[r].pc = "handling" => req[r].tr # None
        /\ req[r].pc = "connecting" => req[r].tr = r
        /\ req[r].pc # "new" => req[r].cred # None
        /\ req[r].sid # None => req[r].sid \in used
        /\ job[r].pc # "none" => req[r].pc = "done"
    /\ \A j \in Jobs : job[j].pc # "none" => job[j].sid # None

\* Servers and transports bear the name of the request of their session that made them.
Named ==
    /\ \A s \in Sids : m.servers[s] # None =>
        req[m.servers[s]].pc \notin Early /\ req[m.servers[s]].sid = s
    /\ \A s \in Sids : m.transports[s] # None => req[m.transports[s]].sid = s
    /\ \A v \in Requests : m.conn[v] # None =>
        /\ req[v].pc \notin Early /\ req[v].sid # None
        /\ req[m.conn[v]].sid = req[v].sid
    /\ \A r \in Requests : req[r].pc = "handling" => req[req[r].tr].sid = req[r].sid

\* Clients that take turns.
Turns ==
    how.serial => \A r, q \in Requests :
        r # q /\ InFlight(r) /\ InFlight(q) /\ req[r].sid # None => req[r].sid # req[q].sid

\* A session without services is untracked, or a cleanup is about to untrack it.
Forgotten ==
    \A s \in m.tracked : Held(s) \/ \E j \in Jobs : job[j].pc = "closingServer" /\ job[j].sid = s

\* Services are held for tracked sessions only, and not while a job untracks theirs.
Swept ==
    ClosesAtOnce =>
        /\ \A s \in Sids : Held(s) => s \in m.tracked
        /\ \A j \in Jobs : job[j].pc = "closingServer" /\ ~job[j].drop => ~Held(job[j].sid)

\* The server of a session is not made twice at a time: clients take turns, or making
\* one does no I/O.
ServersInTurn == how.serial \/ "creatingServer" \notin how.yields

\* An open server is cached, and none is made for a session that has one.
Cached ==
    ServersInTurn =>
        /\ \A v \in m.openS : \E s \in Sids : m.servers[s] = v
        /\ \A r \in Requests : req[r].pc = "creatingServer" => m.servers[req[r].sid] = None

\* What a handler of a client that takes turns ran with, and what it will find.
Served ==
    how.serial => \A r \in Requests :
        /\ ranAs[r] \in {None, req[r].cred}
        /\ req[r].pc \in {"creatingServer", "connecting", "handling"} =>
            m.store[req[r].sid] \in {None, req[r].cred}

\* When clients take turns, a server is connected to the transport its session has
\* published or is connecting, and a handler that fails has closed that one.
Wired ==
    how.serial =>
        /\ \A s \in Sids :
            m.servers[s] # None /\ m.conn[m.servers[s]] # None =>
                \/ m.conn[m.servers[s]] = m.transports[s]
                \/ LET t == m.conn[m.servers[s]] IN req[t].pc = "connecting" /\ req[t].sid = s
        /\ \A r \in Requests :
            /\ req[r].pc = "connecting" => m.transports[req[r].sid] = None
            /\ req[r].pc = "handling" => m.transports[req[r].sid] \in {None, req[r].tr}
            /\ req[r].pc = "failing" /\ m.servers[req[r].sid] # None =>
                m.conn[m.servers[req[r].sid]] = None

\* The handlers between the check of a session and its use.
Fresh == {"authenticating", "creatingServer", "connecting"}

\* Nothing comes between a connect and its publication: clients take turns, or
\* connecting does no I/O.
ConnectsInTurn == how.serial \/ "connecting" \notin how.yields

\* A published transport is open or about to be unpublished, and no cleanup closes one
\* that is being connected.
Working ==
    ClosesAtOnce /\ ConnectsInTurn =>
        /\ \A r \in Requests : req[r].pc = "connecting" => r \in m.openT
        /\ \A r \in Requests : how.serial /\ req[r].pc \in Fresh => req[r].sid \notin m.idle
        /\ \A s \in Sids : m.transports[s] # None /\ m.transports[s] \notin m.openT =>
            \/ \E r \in Requests : req[r].pc = "failing" /\ req[r].sid = s
            \/ \E j \in Jobs : job[j].pc = "closingTransport" /\ job[j].sid = s
        /\ \A r \in Requests, j \in Jobs :
            req[r].pc = "connecting" /\ job[j].pc # "none" => job[j].sid # req[r].sid

\* Only a tracked session is idle.
IdleTracked == m.idle \subseteq m.tracked
\* The inductive invariant, next to TypeOK.
HInv ==
    /\ Known /\ Named /\ Turns /\ IdleTracked
    /\ Forgotten /\ Swept /\ Cached /\ Served /\ Wired /\ Working

-----------------------------------------------------------------------------
(* The operators on the maps.                                              *)

\* The local state of handlers and of cleanups.
ReqType == [pc : Pcs, sid : Sids \cup {None}, cred : Creds \cup {None},
            rebuild : BOOLEAN, tr : Requests \cup {None}]
JobType == [pc : {"none", "closingTransport", "closingServer"},
            sid : Sids \cup {None}, drop : BOOLEAN]

\* Closing a transport: it is open no longer, and no server is connected to it.
LEMMA CloseTransportIs ==
    ASSUME NEW x \in MapsType, NEW t
    PROVE  LET y == CloseTransport(x, t) IN
           /\ y \in MapsType
           /\ y.store = x.store /\ y.tracked = x.tracked /\ y.idle = x.idle
           /\ y.servers = x.servers /\ y.transports = x.transports
           /\ y.openS = x.openS /\ y.openT = x.openT \ {t}
           /\ \A v \in Requests : y.conn[v] = IF x.conn[v] = t THEN None ELSE x.conn[v]
<1> DEFINE c == [v \in Requests |-> IF x.conn[v] = t THEN None ELSE x.conn[v]]
<1>1. c \in [Requests -> Requests \cup {None}]
  BY DEF MapsType
<1> HIDE DEF c
<1>2. CloseTransport(x, t) = [x EXCEPT !.openT = @ \ {t}, !.conn = c]
  BY DEF CloseTransport, c
<1>3. CloseTransport(x, t).conn = c
  BY <1>2 DEF MapsType
<1>4. \A v \in Requests : c[v] = IF x.conn[v] = t THEN None ELSE x.conn[v]
  BY DEF c
<1>5. CloseTransport(x, t) \in MapsType
  BY <1>1, <1>2 DEF MapsType
<1> QED BY <1>2, <1>3, <1>4, <1>5 DEF MapsType

\* Forgetting that a session is tracked.
LEMMA UntrackIs ==
    ASSUME NEW x \in MapsType, NEW s \in Sids
    PROVE  LET y == Untrack(x, s) IN
           /\ y \in MapsType
           /\ y.tracked = x.tracked \ {s} /\ y.idle = x.idle \ {s}
           /\ y.store = x.store /\ y.servers = x.servers /\ y.transports = x.transports
           /\ y.conn = x.conn /\ y.openS = x.openS /\ y.openT = x.openT
BY DEF Untrack, MapsType

\* Dropping a session's transport closes it and unpublishes it.
LEMMA DropTransportIs ==
    ASSUME NEW x \in MapsType, NEW s \in Sids
    PROVE  LET y == DropTransport(x, s) IN
           /\ y \in MapsType
           /\ y.store = x.store /\ y.tracked = x.tracked /\ y.idle = x.idle
           /\ y.servers = x.servers /\ y.openS = x.openS
           /\ y.transports[s] = None
           /\ \A u \in Sids \ {s} : y.transports[u] = x.transports[u]
           /\ y.openT = x.openT \ {x.transports[s]}
           /\ \A v \in Requests :
                y.conn[v] = IF x.conn[v] = x.transports[s] THEN None ELSE x.conn[v]
<1>0. /\ None \notin Requests /\ x.openT \subseteq Requests
      /\ x.conn \in [Requests -> Requests \cup {None}]
  BY SessionAssumption DEF MapsType
<1>1. CASE x.transports[s] = None
  BY <1>0, <1>1 DEF DropTransport
<1>2. CASE x.transports[s] # None
  <2> DEFINE z == CloseTransport(x, x.transports[s])
  <2>1. /\ z \in MapsType
        /\ z.store = x.store /\ z.tracked = x.tracked /\ z.idle = x.idle
        /\ z.servers = x.servers /\ z.transports = x.transports
        /\ z.openS = x.openS /\ z.openT = x.openT \ {x.transports[s]}
        /\ \A v \in Requests :
             z.conn[v] = IF x.conn[v] = x.transports[s] THEN None ELSE x.conn[v]
    BY CloseTransportIs
  <2>2. DropTransport(x, s) = [z EXCEPT !.transports[s] = None]
    BY <1>2 DEF DropTransport
  <2> HIDE DEF z
  <2> QED BY <2>1, <2>2 DEF MapsType
<1> QED BY <1>1, <1>2

\* Dropping a session's server forgets it, closes it, and closes its transport.
LEMMA DropServerIs ==
    ASSUME NEW x \in MapsType, NEW s \in Sids, x.servers[s] # None
    PROVE  LET y == DropServer(x, s)
               v == x.servers[s] IN
           /\ y \in MapsType
           /\ y.store = x.store /\ y.tracked = x.tracked /\ y.idle = x.idle
           /\ y.transports = x.transports
           /\ y.servers[s] = None
           /\ \A u \in Sids \ {s} : y.servers[u] = x.servers[u]
           /\ y.openS = x.openS \ {v} /\ y.openT = x.openT \ {x.conn[v]}
           /\ \A w \in Requests : y.conn[w] = IF x.conn[w] = x.conn[v] THEN None ELSE x.conn[w]
<1> DEFINE v == x.servers[s]
           z == CloseTransport(x, x.conn[v])
<1>1. /\ z \in MapsType
      /\ z.store = x.store /\ z.tracked = x.tracked /\ z.idle = x.idle
      /\ z.servers = x.servers /\ z.transports = x.transports
      /\ z.openS = x.openS /\ z.openT = x.openT \ {x.conn[v]}
      /\ \A w \in Requests : z.conn[w] = IF x.conn[w] = x.conn[v] THEN None ELSE x.conn[w]
  BY CloseTransportIs
<1>2. DropServer(x, s) = [z EXCEPT !.servers[s] = None, !.openS = @ \ {v}]
  BY DEF DropServer
<1> HIDE DEF z, v
<1>3. DropServer(x, s) \in MapsType
  <2>1. z.openS \ {v} \subseteq Requests
    BY <1>1 DEF MapsType
  <2>2. [z.servers EXCEPT ![s] = None] \in [Sids -> Requests \cup {None}]
    BY <1>1 DEF MapsType
  <2>3. DropServer(x, s) = [z EXCEPT !.servers = [z.servers EXCEPT ![s] = None],
                                     !.openS = z.openS \ {v}]
    BY <1>2
  <2> QED BY ZenonT(30), <1>1, <2>1, <2>2, <2>3 DEF MapsType
<1>4. /\ DropServer(x, s).servers = [z.servers EXCEPT ![s] = None]
      /\ DropServer(x, s).openS = z.openS \ {v}
      /\ DropServer(x, s).store = z.store /\ DropServer(x, s).tracked = z.tracked
      /\ DropServer(x, s).idle = z.idle /\ DropServer(x, s).transports = z.transports
      /\ DropServer(x, s).conn = z.conn /\ DropServer(x, s).openT = z.openT
  BY <1>1, <1>2 DEF MapsType
<1>5. z.servers \in [Sids -> Requests \cup {None}]
  BY <1>1 DEF MapsType
<1> QED BY <1>1, <1>3, <1>4, <1>5 DEF v
-----------------------------------------------------------------------------
(* What a cleanup of session s makes of the maps x, up to its next await:  *)
(* the maps y, and the job k that is left.                                 *)

\* It takes away from s, and from no other session.
Less(x, y, s) ==
    /\ \A u \in Sids \ {s} :
        /\ y.store[u] = x.store[u] /\ y.servers[u] = x.servers[u]
        /\ y.transports[u] = x.transports[u]
    /\ y.store[s] \in {None, x.store[s]} /\ y.servers[s] \in {None, x.servers[s]}
    /\ y.transports[s] \in {None, x.transports[s]}
    /\ \A v \in Requests : y.conn[v] \in {None, x.conn[v]}

\* What all cleanups have in common.
Cleans(x, y, s, k) ==
    /\ y \in MapsType /\ k \in JobType
    /\ Less(x, y, s)
    /\ y.tracked \in {x.tracked, x.tracked \ {s}} /\ y.idle \in {x.idle, x.idle \ {s}}
    /\ y.tracked = x.tracked \/ y.idle = x.idle \ {s}
    /\ k.pc # "none" => k.sid = s
    \* a server is closed when it is forgotten
    /\ y.openS = IF y.servers[s] = x.servers[s] THEN x.openS ELSE x.openS \ {x.servers[s]}
    \* a transport is closed as the published one, or with the server
    /\ y.openT \subseteq x.openT
    /\ \A t \in x.openT \ y.openT :
        t = x.transports[s] \/ (x.servers[s] # None /\ t = x.conn[x.servers[s]])
    \* a session whose server is still open has not lost its transport, and a
    \* published transport is closed by a job that will unpublish it
    /\ y.servers[s] = None \/ y.transports[s] = x.transports[s]
    /\ y.transports[s] # None => k.pc = "closingTransport" \/ y.openT = x.openT
    \* a session that is dropped is untracked, now or by the job
    /\ s \in y.tracked /\ y.store[s] = None /\ x.store[s] # None => k.pc = "closingServer"
    /\ k.pc = "closingServer" /\ ~k.drop => y.store[s] = None

\* The end of a cleanup, and one that waits for a close.
LEMMA NoJobIs == NoJob \in JobType /\ NoJob.pc = "none"
BY DEF NoJob, JobType

\* A cleanup that waits for a close knows its session.
LEMMA ClosingIs ==
    ASSUME NEW s \in Sids, NEW pc \in {"closingTransport", "closingServer"}, NEW drop \in BOOLEAN
    PROVE  LET k == Closing(pc, s, drop) IN
           k \in JobType /\ k.pc = pc /\ k.sid = s /\ k.drop = drop
BY DEF Closing, JobType

\* store.delete, and all it calls.
LEMMA StoreDeleteCleans ==
    ASSUME NEW x \in MapsType, NEW s \in Sids
    PROVE  LET y == StoreDelete(x, s)[1]
               k == StoreDelete(x, s)[2] IN
           /\ Cleans(x, y, s, k)
           /\ y.store[s] = None
           /\ y.store[s] # x.store[s] => y.servers[s] = None
           /\ x.servers[s] = None => k.pc = "none"
<1>0. None \notin Requests \cup Creds
  BY SessionAssumption
<1>t. /\ x.store \in [Sids -> Creds \cup {None}]
      /\ x.servers \in [Sids -> Requests \cup {None}]
      /\ x.transports \in [Sids -> Requests \cup {None}]
      /\ x.conn \in [Requests -> Requests \cup {None}]
  BY DEF MapsType
<1>1. CASE x.store[s] = None
  <2>1. StoreDelete(x, s)[1] = x /\ StoreDelete(x, s)[2] = NoJob
    BY <1>1 DEF StoreDelete
  <2>2. Less(x, x, s)
    BY <1>t DEF Less
  <2>3. Cleans(x, x, s, NoJob)
    BY <2>2, <1>1, NoJobIs DEF Cleans
  <2> QED BY <1>1, <2>1, <2>3, NoJobIs
<1>2. CASE x.store[s] # None
  <2> DEFINE x1 == [x EXCEPT !.store[s] = None]
             x2 == DropTransport(x1, s)
             v  == x.servers[s]
  <2>1. /\ x1 \in MapsType
        /\ x1.store = [x.store EXCEPT ![s] = None]
        /\ x1.tracked = x.tracked /\ x1.idle = x.idle /\ x1.servers = x.servers
        /\ x1.transports = x.transports /\ x1.conn = x.conn
        /\ x1.openS = x.openS /\ x1.openT = x.openT
    BY DEF MapsType
  <2> HIDE DEF x1
  <2>2. /\ x2 \in MapsType
        /\ x2.store = x1.store /\ x2.tracked = x1.tracked /\ x2.idle = x1.idle
        /\ x2.servers = x1.servers /\ x2.openS = x1.openS
        /\ x2.transports[s] = None
        /\ \A u \in Sids \ {s} : x2.transports[u] = x1.transports[u]
        /\ x2.openT = x1.openT \ {x1.transports[s]}
        /\ \A w \in Requests :
             x2.conn[w] = IF x1.conn[w] = x1.transports[s] THEN None ELSE x1.conn[w]
    BY <2>1, DropTransportIs
  <2> HIDE DEF x2
  <2>3. CASE v = None
    <3> DEFINE y == Untrack(x2, s)
    <3>1. StoreDelete(x, s)[1] = y /\ StoreDelete(x, s)[2] = NoJob
      BY <1>2, <2>1, <2>2, <2>3 DEF StoreDelete, Detach, x1, x2
    <3>2. /\ y \in MapsType
          /\ y.tracked = x2.tracked \ {s} /\ y.idle = x2.idle \ {s}
          /\ y.store = x2.store /\ y.servers = x2.servers /\ y.transports = x2.transports
          /\ y.conn = x2.conn /\ y.openS = x2.openS /\ y.openT = x2.openT
      BY <2>2, UntrackIs
    <3> HIDE DEF y
    <3>3. Less(x, y, s)
      BY <1>t, <2>1, <2>2, <3>2 DEF Less
    <3>4. y.store[s] = None /\ y.servers[s] = None /\ y.transports[s] = None
      BY <1>t, <2>1, <2>2, <2>3, <3>2
    <3>5. /\ y.tracked = x.tracked \ {s} /\ y.idle = x.idle \ {s} /\ y.openS = x.openS
          /\ y.openT = x.openT \ {x.transports[s]}
      BY <2>1, <2>2, <3>2
    <3>6. Cleans(x, y, s, NoJob)
      BY <2>3, <3>2, <3>3, <3>4, <3>5, NoJobIs DEF Cleans
    <3> QED BY <3>1, <3>4, <3>6, NoJobIs
  <2>4. CASE v # None
    <3> DEFINE y == DropServer(x2, s)
               k == Closing("closingServer", s, FALSE)
    <3>0. x2.servers[s] = v /\ v \in Requests
      BY <1>t, <2>1, <2>2, <2>4
    <3>1. StoreDelete(x, s)[1] = y /\ StoreDelete(x, s)[2] = k
      BY ZenonT(30), <1>2, <2>1, <2>2, <2>4 DEF StoreDelete, Detach, x1, x2
    <3>2. /\ y \in MapsType
          /\ y.store = x2.store /\ y.tracked = x2.tracked /\ y.idle = x2.idle
          /\ y.transports = x2.transports
          /\ y.servers[s] = None
          /\ \A u \in Sids \ {s} : y.servers[u] = x2.servers[u]
          /\ y.openS = x2.openS \ {v} /\ y.openT = x2.openT \ {x2.conn[v]}
          /\ \A w \in Requests :
               y.conn[w] = IF x2.conn[w] = x2.conn[v] THEN None ELSE x2.conn[w]
      BY <2>2, <2>4, <3>0, DropServerIs
    <3>k. k \in JobType /\ k.pc = "closingServer" /\ k.sid = s /\ k.drop = FALSE
      BY ClosingIs
    <3> HIDE DEF y, k
    <3>3. Less(x, y, s)
      BY <1>t, <2>1, <2>2, <3>2 DEF Less
    <3>4. y.store[s] = None /\ y.servers[s] = None /\ y.transports[s] = None
      BY <1>t, <2>1, <2>2, <2>3, <3>2
    <3>5. y.tracked = x.tracked /\ y.idle = x.idle /\ y.openS = x.openS \ {v}
      BY <2>1, <2>2, <3>2
    <3>6. y.openT \subseteq x.openT
      BY <2>1, <2>2, <3>2
    <3>7. ASSUME NEW t \in x.openT \ y.openT
          PROVE  t = x.transports[s] \/ (x.servers[s] # None /\ t = x.conn[x.servers[s]])
      <4>1. t \in Requests
        BY DEF MapsType
      <4>2. t = x1.transports[s] \/ t = x2.conn[v]
        BY <2>1, <2>2, <3>2
      <4>3. x2.conn[v] \in {None, x1.conn[v]}
        BY <2>2, <3>0
      <4> QED BY <1>0, <2>1, <2>4, <4>1, <4>2, <4>3
    <3>8. Cleans(x, y, s, k)
      BY <2>4, <3>2, <3>3, <3>4, <3>5, <3>6, <3>7, <3>k DEF Cleans
    <3> QED BY <2>4, <3>1, <3>4, <3>8
  <2> QED BY <2>3, <2>4
<1> QED BY <1>1, <1>2

\* The same, from maps that differ from x in no more than the cleanup takes away.
LEMMA CleansAfter ==
    ASSUME NEW x \in MapsType, NEW x1 \in MapsType, NEW s \in Sids, NEW y, NEW k,
           Cleans(x1, y, s, k),
           x1.store = x.store, x1.servers = x.servers, x1.conn = x.conn,
           x1.openS = x.openS, x1.openT = x.openT,
           \A u \in Sids \ {s} : x1.transports[u] = x.transports[u],
           \/ x1.transports = x.transports /\ y.tracked = x.tracked \ {s} /\ y.idle = x.idle \ {s}
           \/ /\ x1.transports[s] = None /\ y.servers[s] = None
              /\ x1.tracked = x.tracked /\ x1.idle = x.idle
    PROVE  Cleans(x, y, s, k)
<1>1. Less(x, y, s)
  BY DEF Cleans, Less
<1>2. CASE x1.transports = x.transports /\ y.tracked = x.tracked \ {s} /\ y.idle = x.idle \ {s}
  BY <1>1, <1>2 DEF Cleans
<1>3. CASE /\ x1.transports[s] = None /\ y.servers[s] = None
           /\ x1.tracked = x.tracked /\ x1.idle = x.idle
  <2>1. y.transports[s] = None
    BY <1>3 DEF Cleans, Less
  <2>2. ASSUME NEW t \in x.openT \ y.openT
        PROVE  t = x.transports[s] \/ (x.servers[s] # None /\ t = x.conn[x.servers[s]])
    <3>1. t \in Requests /\ t # None
      BY SessionAssumption DEF MapsType
    <3>2. t = x1.transports[s] \/ (x1.servers[s] # None /\ t = x1.conn[x1.servers[s]])
      BY DEF Cleans
    <3> QED BY <1>3, <3>1, <3>2
  <2> QED BY <1>1, <1>3, <2>1, <2>2 DEF Cleans
<1> QED BY <1>2, <1>3

\* cleanupSession once its transport is out of the way.
LEMMA CleanupRestCleans ==
    ASSUME NEW x \in MapsType, NEW s \in Sids, x.transports[s] = None
    PROVE  LET y == CleanupRest(x, s)[1]
               k == CleanupRest(x, s)[2] IN
           /\ Cleans(x, y, s, k)
           /\ y.servers[s] = None
           /\ y.store[s] # None => y.tracked = x.tracked
<1>0. None \notin Requests \cup Creds
  BY SessionAssumption
<1>t. /\ x.store \in [Sids -> Creds \cup {None}]
      /\ x.servers \in [Sids -> Requests \cup {None}]
      /\ x.transports \in [Sids -> Requests \cup {None}]
      /\ x.conn \in [Requests -> Requests \cup {None}]
  BY DEF MapsType
<1> DEFINE v == x.servers[s]
<1>1. CASE v = None
  <2> DEFINE x1 == Untrack(x, s)
             y  == StoreDelete(x1, s)[1]
             k  == StoreDelete(x1, s)[2]
  <2>1. /\ x1 \in MapsType
        /\ x1.tracked = x.tracked \ {s} /\ x1.idle = x.idle \ {s}
        /\ x1.store = x.store /\ x1.servers = x.servers /\ x1.transports = x.transports
        /\ x1.conn = x.conn /\ x1.openS = x.openS /\ x1.openT = x.openT
    BY UntrackIs
  <2>2. CleanupRest(x, s)[1] = y /\ CleanupRest(x, s)[2] = k
    BY <1>1 DEF CleanupRest
  <2> HIDE DEF x1
  <2>3. Cleans(x1, y, s, k) /\ y.store[s] = None
    BY <2>1, StoreDeleteCleans
  <2> HIDE DEF y, k
  <2>4. y.tracked = x.tracked \ {s} /\ y.idle = x.idle \ {s}
    BY <2>1, <2>3 DEF Cleans
  <2>5. Cleans(x, y, s, k)
    BY <2>1, <2>3, <2>4, CleansAfter
  <2>6. y.servers[s] = None
    BY <1>1, <2>5 DEF Cleans, Less
  <2> QED BY <2>2, <2>3, <2>5, <2>6
<1>2. CASE v # None
  <2> DEFINE y == DropServer(x, s)
             k == Closing("closingServer", s, TRUE)
  <2>1. CleanupRest(x, s)[1] = y /\ CleanupRest(x, s)[2] = k
    BY <1>2 DEF CleanupRest
  <2>2. /\ y \in MapsType
        /\ y.store = x.store /\ y.tracked = x.tracked /\ y.idle = x.idle
        /\ y.transports = x.transports
        /\ y.servers[s] = None
        /\ \A u \in Sids \ {s} : y.servers[u] = x.servers[u]
        /\ y.openS = x.openS \ {v} /\ y.openT = x.openT \ {x.conn[v]}
        /\ \A w \in Requests : y.conn[w] = IF x.conn[w] = x.conn[v] THEN None ELSE x.conn[w]
    BY <1>2, DropServerIs
  <2>3. k \in JobType /\ k.pc = "closingServer" /\ k.sid = s /\ k.drop = TRUE
    BY ClosingIs
  <2> HIDE DEF y, k
  <2>4. Less(x, y, s)
    BY <1>t, <2>2 DEF Less
  <2>5. Cleans(x, y, s, k)
    BY <1>2, <2>2, <2>3, <2>4 DEF Cleans
  <2> QED BY <2>1, <2>2, <2>5
<1> QED BY <1>1, <1>2

\* cleanupSession from its start.
LEMMA CleanupCleans ==
    ASSUME NEW x \in MapsType, NEW s \in Sids
    PROVE  LET y == Cleanup(x, s)[1]
               k == Cleanup(x, s)[2] IN
           /\ Cleans(x, y, s, k)
           /\ y.store[s] # None => y.tracked = x.tracked
<1>t. /\ x.store \in [Sids -> Creds \cup {None}]
      /\ x.servers \in [Sids -> Requests \cup {None}]
      /\ x.transports \in [Sids -> Requests \cup {None}]
      /\ x.conn \in [Requests -> Requests \cup {None}]
  BY DEF MapsType
<1>1. CASE x.transports[s] = None
  BY <1>1, CleanupRestCleans DEF Cleanup
<1>2. CASE x.transports[s] # None
  <2> DEFINE y == CloseTransport(x, x.transports[s])
             k == Closing("closingTransport", s, TRUE)
  <2>1. Cleanup(x, s)[1] = y /\ Cleanup(x, s)[2] = k
    BY <1>2 DEF Cleanup
  <2>2. /\ y \in MapsType
        /\ y.store = x.store /\ y.tracked = x.tracked /\ y.idle = x.idle
        /\ y.servers = x.servers /\ y.transports = x.transports
        /\ y.openS = x.openS /\ y.openT = x.openT \ {x.transports[s]}
        /\ \A w \in Requests :
             y.conn[w] = IF x.conn[w] = x.transports[s] THEN None ELSE x.conn[w]
    BY CloseTransportIs
  <2>3. k \in JobType /\ k.pc = "closingTransport" /\ k.sid = s /\ k.drop = TRUE
    BY ClosingIs
  <2> HIDE DEF y, k
  <2>4. Less(x, y, s)
    BY <1>t, <2>2 DEF Less
  <2>5. Cleans(x, y, s, k)
    BY <1>2, <2>2, <2>3, <2>4 DEF Cleans
  <2> QED BY <2>1, <2>2, <2>5
<1> QED BY <1>1, <1>2

\* The rest of a cleanup after its transport is closed, and after its server is.
LEMMA TransportClosedCleans ==
    ASSUME NEW x \in MapsType, NEW s \in Sids
    PROVE  LET x1 == [x EXCEPT !.transports[s] = None]
               y == CleanupRest(x1, s)[1]
               k == CleanupRest(x1, s)[2] IN
           /\ Cleans(x, y, s, k)
           /\ y.transports[s] = None
           /\ y.store[s] # None => y.tracked = x.tracked
<1> DEFINE x1 == [x EXCEPT !.transports[s] = None]
           y == CleanupRest(x1, s)[1]
           k == CleanupRest(x1, s)[2]
<1>1. /\ x1 \in MapsType
      /\ x1.transports[s] = None /\ \A u \in Sids \ {s} : x1.transports[u] = x.transports[u]
      /\ x1.store = x.store /\ x1.servers = x.servers /\ x1.conn = x.conn
      /\ x1.tracked = x.tracked /\ x1.idle = x.idle
      /\ x1.openS = x.openS /\ x1.openT = x.openT
  BY DEF MapsType
<1> HIDE DEF x1
<1>2. Cleans(x1, y, s, k) /\ y.servers[s] = None /\ (y.store[s] # None => y.tracked = x1.tracked)
  BY <1>1, CleanupRestCleans
<1> HIDE DEF y, k
<1>3. Cleans(x, y, s, k)
  BY <1>1, <1>2, CleansAfter
<1>4. y.transports[s] = None
  BY <1>1, <1>2 DEF Cleans, Less
<1> QED BY <1>1, <1>2, <1>3, <1>4 DEF x1, y, k

\* The rest of a cleanup that drops the session, after its server is closed.
LEMMA ServerClosedCleans ==
    ASSUME NEW x \in MapsType, NEW s \in Sids
    PROVE  LET y == StoreDelete(Untrack(x, s), s)[1]
               k == StoreDelete(Untrack(x, s), s)[2] IN
           /\ Cleans(x, y, s, k)
           /\ y.store[s] = None
           /\ y.tracked = x.tracked \ {s}
<1> DEFINE x1 == Untrack(x, s)
           y == StoreDelete(x1, s)[1]
           k == StoreDelete(x1, s)[2]
<1>1. /\ x1 \in MapsType
      /\ x1.tracked = x.tracked \ {s} /\ x1.idle = x.idle \ {s}
      /\ x1.store = x.store /\ x1.servers = x.servers /\ x1.transports = x.transports
      /\ x1.conn = x.conn /\ x1.openS = x.openS /\ x1.openT = x.openT
  BY UntrackIs
<1> HIDE DEF x1
<1>2. Cleans(x1, y, s, k) /\ y.store[s] = None
  BY <1>1, StoreDeleteCleans
<1> HIDE DEF y, k
<1>3. y.tracked = x.tracked \ {s} /\ y.idle = x.idle \ {s}
  BY <1>1, <1>2 DEF Cleans
<1>4. Cleans(x, y, s, k)
  BY <1>1, <1>2, <1>3, CleansAfter
<1> QED BY <1>2, <1>3, <1>4 DEF x1, y, k

\* The rest of a detach, after its server is closed.
LEMMA UntrackCleans ==
    ASSUME NEW x \in MapsType, NEW s \in Sids
    PROVE  Cleans(x, Untrack(x, s), s, NoJob)
<1> DEFINE y == Untrack(x, s)
<1>1. /\ y \in MapsType
      /\ y.tracked = x.tracked \ {s} /\ y.idle = x.idle \ {s}
      /\ y.store = x.store /\ y.servers = x.servers /\ y.transports = x.transports
      /\ y.conn = x.conn /\ y.openS = x.openS /\ y.openT = x.openT
  BY UntrackIs
<1> HIDE DEF y
<1>2. Less(x, y, s)
  BY <1>1 DEF Less
<1>3. Cleans(x, y, s, NoJob)
  BY <1>1, <1>2, NoJobIs DEF Cleans
<1> QED BY <1>3 DEF y
-----------------------------------------------------------------------------
(* The steps, by what they do to the maps and to the one handler or job    *)
(* that takes them.                                                        *)

\* Only the handler r moves, to pc and with the id s.
Moves(r, pc, s) ==
    /\ \A q \in Requests \ {r} : req'[q] = req[q] /\ ranAs'[q] = ranAs[q]
    /\ req'[r].pc = pc /\ req'[r].sid = s

\* The maps but for those of idle sessions and transports.
SameSessions ==
    /\ m'.store = m.store /\ m'.tracked = m.tracked /\ m'.servers = m.servers
    /\ m'.openS = m.openS

\* Transports and connections.
SameLinks == m'.transports = m.transports /\ m'.conn = m.conn /\ m'.openT = m.openT

\* A request arrives.
Arrives(r) ==
    /\ req[r].pc = "new" /\ req'[r].cred # None /\ SameSessions /\ SameLinks /\ m'.idle = m.idle
    /\ job' = job /\ ranAs' = ranAs
    /\ \/ /\ \E pc \in {"done", "authenticating"} : Moves(r, pc, req[r].sid)
          /\ used' = used
       \/ \E s \in Sids, pc \in {"validating", "verifyingDelete"} :
            /\ Moves(r, pc, s)
            /\ MayArrive(s)
            /\ used' = used \cup {s}

\* A handler ends, or goes on to authenticate for its session.
Passes(r) ==
    /\ InFlight(r) /\ req'[r].cred = req[r].cred
    /\ \E pc \in {"done", "authenticating"} : Moves(r, pc, req[r].sid)
    /\ req'[r].pc = "authenticating" => req[r].pc = "validating" /\ req[r].sid \notin m'.idle
    /\ SameSessions /\ SameLinks /\ m'.idle \in {m.idle, m.idle \ {req[r].sid}}
    /\ \/ ranAs'[r] = ranAs[r]
       \/ req[r].pc = "handling" /\ ranAs'[r] = m.store[req[r].sid]
    /\ req[r].pc \notin {"connecting", "failing"}
    /\ job' = job /\ used' = used

\* What a dispatch sees: the maps as they are, the session bound, or its server made.
Reuses(r, s) ==
    /\ req[r].pc = "validating" /\ req[r].sid = s
    /\ m.store[s] \in {None, req[r].cred} /\ s \notin m'.idle /\ m'.idle \subseteq m.idle
    /\ SameSessions /\ used' = used

\* The session is bound to the credential of the request.
Binds(r, s) ==
    /\ req[r].pc = "authenticating"
    /\ \/ req[r].sid = s /\ used' = used
       \/ req[r].sid = None /\ s \notin used /\ used' = used \cup {s}
    /\ m'.store = [m.store EXCEPT ![s] = req[r].cred]
    /\ m'.tracked = m.tracked \cup {s} /\ m'.idle = m.idle \ {s}
    /\ m'.servers = m.servers /\ m'.openS = m.openS

\* The server is made and cached.
Creates(r, s) ==
    /\ req[r].pc = "creatingServer" /\ req[r].sid = s
    /\ m'.servers = [m.servers EXCEPT ![s] = r] /\ m'.openS = m.openS \cup {r}
    /\ m'.store = m.store /\ m'.tracked = m.tracked /\ m'.idle = m.idle /\ used' = used

\* A handler goes on to its session's server and transport.
Dispatches(r, s) ==
    /\ Reuses(r, s) \/ Binds(r, s) \/ Creates(r, s)
    /\ job' = job /\ ranAs' = ranAs
    /\ m'.transports = m.transports /\ req'[r].cred = req[r].cred
    /\ \/ /\ m'.servers[s] = None /\ Moves(r, "creatingServer", s) /\ SameLinks
       \/ /\ m'.servers[s] # None /\ m.transports[s] # None /\ Moves(r, "handling", s)
          /\ req'[r].tr = m.transports[s] /\ SameLinks
       \/ /\ m'.servers[s] # None /\ m.transports[s] = None /\ Moves(r, "connecting", s)
          /\ req'[r].tr = r
          /\ m.conn[m'.servers[s]] = None
          /\ m'.conn = [m.conn EXCEPT ![m'.servers[s]] = r] /\ m'.openT = m.openT \cup {r}
       \/ /\ m'.servers[s] # None /\ m.transports[s] = None /\ Moves(r, "failing", s)
          /\ m.conn[m'.servers[s]] # None /\ SameLinks

\* A transport is published.
Connects(r) ==
    /\ req[r].pc = "connecting" /\ Moves(r, "handling", req[r].sid)
    /\ req'[r].cred = req[r].cred /\ req'[r].tr = req[r].tr
    /\ m'.transports = [m.transports EXCEPT ![req[r].sid] = r]
    /\ SameSessions /\ m'.idle = m.idle /\ m'.conn = m.conn /\ m'.openT = m.openT
    /\ job' = job /\ ranAs' = ranAs /\ used' = used

\* A transport is closed because its call threw.
Throws(r) ==
    /\ req[r].pc = "handling" /\ Moves(r, "failing", req[r].sid) /\ req'[r].cred = req[r].cred
    /\ m'.openT = m.openT \ {req[r].tr}
    /\ \A v \in Requests : m'.conn[v] = IF m.conn[v] = req[r].tr THEN None ELSE m.conn[v]
    /\ SameSessions /\ m'.idle = m.idle /\ m'.transports = m.transports
    /\ job' = job /\ ranAs' = ranAs /\ used' = used

\* A transport is unpublished at the end of the catch.
Unpublishes(r) ==
    /\ req[r].pc = "failing" /\ Moves(r, "done", req[r].sid) /\ req'[r].cred = req[r].cred
    /\ m'.transports = [m.transports EXCEPT ![req[r].sid] = None]
    /\ SameSessions /\ m'.idle = m.idle /\ m'.conn = m.conn /\ m'.openT = m.openT
    /\ job' = job /\ ranAs' = ranAs /\ used' = used

\* A session goes idle.
GoesIdle(s) ==
    /\ s \in m.tracked
    /\ \A r \in Requests : InFlight(r) /\ req[r].sid = s => req[r].pc = "handling"
    /\ m'.idle = m.idle \cup {s} /\ SameSessions /\ SameLinks
    /\ req' = req /\ job' = job /\ ranAs' = ranAs /\ used' = used

\* A step of a cleanup of s: of the sweep, of a job, or at the end of the handler j.
CleansUp(j, s) ==
    /\ Cleans(m, m', s, job'[j]) /\ used' = used
    /\ \A i \in Jobs \ {j} : job'[i] = job[i]
    /\ \/ m'.store[s] = None \/ m'.tracked = m.tracked
       \/ job[j].pc = "closingServer" /\ ~job[j].drop /\ m'.store = m.store
    /\ \/ /\ req' = req /\ ranAs' = ranAs
          /\ \/ j \in Sweepers /\ job[j].pc = "none" /\ s \in m.idle
             \/ job[j].pc = "closingTransport" /\ job[j].sid = s /\ m'.transports[s] = None
             \/ job[j].pc = "closingServer" /\ job[j].sid = s /\ s \notin m'.tracked
       \/ /\ j \in Requests /\ req[j].pc \in {"handling", "verifyingDelete"} /\ req[j].sid = s
          /\ Moves(j, "done", s) /\ req'[j].cred = req[j].cred
          /\ \/ ranAs'[j] = ranAs[j]
             \/ req[j].pc = "handling" /\ ranAs'[j] = m.store[s]

\* The steps that change something.
Moved ==
    \/ \E r \in Requests :
        /\ Turn(r)
        /\ Arrives(r) \/ Passes(r) \/ Connects(r) \/ Throws(r) \/ Unpublishes(r)
    \/ \E r \in Requests, s \in Sids : Turn(r) /\ Dispatches(r, s)
    \/ \E s \in Sids : GoesIdle(s)
    \/ \E j \in Jobs, s \in Sids : Turn(j) /\ CleansUp(j, s)

\* The types, with the sets of records named.
LEMMA Types ==
    TypeOK <=> /\ m \in MapsType /\ req \in [Requests -> ReqType] /\ job \in [Jobs -> JobType]
               /\ how \in DisciplineType /\ ranAs \in [Requests -> Creds \cup {None}]
               /\ used \subseteq Sids
BY DEF TypeOK, ReqType, JobType

\* A handler that goes to pc keeps the rest of its state.
LEMMA GotoMoves ==
    ASSUME req \in [Requests -> ReqType], NEW r \in Requests, NEW pc \in Pcs, Goto(r, pc)
    PROVE  /\ req' \in [Requests -> ReqType]
           /\ \A q \in Requests \ {r} : req'[q] = req[q]
           /\ req'[r].pc = pc /\ req'[r].sid = req[r].sid /\ req'[r].cred = req[r].cred
           /\ req'[r].tr = req[r].tr
BY DEF Goto, ReqType

\* The maps that a request leaves active.
LEMMA TouchIs ==
    ASSUME NEW x \in MapsType, NEW s \in Sids, x.idle \subseteq x.tracked
    PROVE  LET y == Touch(x, s) IN
           /\ y \in MapsType
           /\ y.idle = x.idle \ {s}
           /\ y.store = x.store /\ y.tracked = x.tracked /\ y.servers = x.servers
           /\ y.transports = x.transports /\ y.conn = x.conn
           /\ y.openS = x.openS /\ y.openT = x.openT
<1>1. CASE s \in x.tracked
  BY <1>1 DEF Touch, MapsType
<1>2. CASE s \notin x.tracked
  <2>1. Touch(x, s) = x /\ x.idle = x.idle \ {s}
    BY <1>2 DEF Touch
  <2> QED BY <2>1
<1> QED BY <1>1, <1>2

\* What a dispatch of r does with the maps x of session s.
Sees(r, s, x) ==
    /\ m' \in MapsType /\ req' \in [Requests -> ReqType]
    /\ m'.store = x.store /\ m'.tracked = x.tracked /\ m'.idle = x.idle
    /\ m'.servers = x.servers /\ m'.transports = x.transports /\ m'.openS = x.openS
    /\ \A q \in Requests \ {r} : req'[q] = req[q]
    /\ req'[r].sid = s /\ req'[r].cred = req[r].cred
    /\ \/ /\ x.servers[s] = None /\ req'[r].pc = "creatingServer"
          /\ m'.conn = x.conn /\ m'.openT = x.openT
       \/ /\ x.servers[s] # None /\ x.transports[s] # None /\ req'[r].pc = "handling"
          /\ req'[r].tr = x.transports[s] /\ m'.conn = x.conn /\ m'.openT = x.openT
       \/ /\ x.servers[s] # None /\ x.transports[s] = None /\ req'[r].pc = "connecting"
          /\ x.conn[x.servers[s]] = None /\ req'[r].tr = r
          /\ m'.conn = [x.conn EXCEPT ![x.servers[s]] = r] /\ m'.openT = x.openT \cup {r}
       \/ /\ x.servers[s] # None /\ x.transports[s] = None /\ req'[r].pc = "failing"
          /\ x.conn[x.servers[s]] # None /\ m'.conn = x.conn /\ m'.openT = x.openT

\* A dispatch does one of the four things it sees.
LEMMA DispatchIs ==
    ASSUME TypeOK, NEW x \in MapsType, NEW r \in Requests, NEW s \in Sids, Dispatch(r, s, x)
    PROVE  Sees(r, s, x)
<1> USE DEF Sees
<1>0. req \in [Requests -> ReqType] /\ None \notin Requests
  BY Types, SessionAssumption
<1>p. {"creatingServer", "handling", "connecting", "failing"} \subseteq Pcs
  BY DEF Pcs
<1>t. x.servers[s] \in Requests \cup {None} /\ x.transports[s] \in Requests \cup {None}
  BY DEF MapsType
<1>1. CASE /\ x.servers[s] = None /\ m' = x
           /\ req' = [req EXCEPT ![r].pc = "creatingServer", ![r].sid = s]
  <2>1. /\ req' \in [Requests -> ReqType] /\ \A q \in Requests \ {r} : req'[q] = req[q]
        /\ req'[r].sid = s /\ req'[r].cred = req[r].cred /\ req'[r].pc = "creatingServer"
    <3>1. req' = [req EXCEPT ![r] = [req[r] EXCEPT !.pc = "creatingServer", !.sid = s]]
      BY <1>0, <1>1
    <3>2. req[r] \in ReqType
      BY <1>0
    <3> DEFINE q == [req[r] EXCEPT !.pc = "creatingServer", !.sid = s]
    <3>3. q \in ReqType /\ q.pc = "creatingServer" /\ q.sid = s /\ q.cred = req[r].cred
      BY <1>p, <1>t, <3>2 DEF ReqType
    <3> HIDE DEF q
    <3> QED BY <1>0, <3>1, <3>3 DEF q
  <2> QED BY <1>1, <2>1
<1>2. CASE /\ x.servers[s] # None /\ x.transports[s] # None /\ m' = x
           /\ req' = [req EXCEPT ![r].pc = "handling", ![r].sid = s, ![r].tr = x.transports[s]]
  <2>1. /\ req' \in [Requests -> ReqType] /\ \A q \in Requests \ {r} : req'[q] = req[q]
        /\ req'[r].sid = s /\ req'[r].cred = req[r].cred /\ req'[r].pc = "handling"
        /\ req'[r].tr = x.transports[s]
    <3>1. req' = [req EXCEPT ![r] =
                    [req[r] EXCEPT !.pc = "handling", !.sid = s, !.tr = x.transports[s]]]
      BY <1>0, <1>2
    <3>2. req[r] \in ReqType
      BY <1>0
    <3> DEFINE q == [req[r] EXCEPT !.pc = "handling", !.sid = s, !.tr = x.transports[s]]
    <3>3. /\ q \in ReqType /\ q.pc = "handling" /\ q.sid = s
          /\ q.cred = req[r].cred /\ q.tr = x.transports[s]
      BY <1>p, <1>t, <3>2 DEF ReqType
    <3> HIDE DEF q
    <3> QED BY <1>0, <3>1, <3>3 DEF q
  <2> QED BY <1>2, <2>1
<1>3. CASE /\ x.servers[s] # None /\ x.transports[s] = None /\ x.conn[x.servers[s]] = None
           /\ m' = [x EXCEPT !.conn[x.servers[s]] = r, !.openT = @ \cup {r}]
           /\ req' = [req EXCEPT ![r].pc = "connecting", ![r].sid = s, ![r].tr = r]
  <2>1. /\ req' \in [Requests -> ReqType] /\ \A q \in Requests \ {r} : req'[q] = req[q]
        /\ req'[r].sid = s /\ req'[r].cred = req[r].cred /\ req'[r].pc = "connecting"
        /\ req'[r].tr = r
    BY ZenonT(60), <1>0, <1>3 DEF ReqType, Pcs
  <2> DEFINE c == [x.conn EXCEPT ![x.servers[s]] = r]
  <2>2. c \in [Requests -> Requests \cup {None}] /\ x.openT \cup {r} \subseteq Requests
    BY <1>t, <1>3 DEF MapsType
  <2>3. m' = [x EXCEPT !.conn = c, !.openT = x.openT \cup {r}]
    BY <1>3
  <2> HIDE DEF c
  <2>4. /\ m' \in MapsType /\ m'.conn = c /\ m'.openT = x.openT \cup {r}
        /\ m'.store = x.store /\ m'.tracked = x.tracked /\ m'.idle = x.idle
        /\ m'.servers = x.servers /\ m'.transports = x.transports /\ m'.openS = x.openS
    BY <2>2, <2>3 DEF MapsType
  <2> QED BY <1>3, <2>1, <2>4 DEF c
<1>4. CASE /\ x.servers[s] # None /\ x.transports[s] = None /\ x.conn[x.servers[s]] # None
           /\ m' = x
           /\ req' = [req EXCEPT ![r].pc = "failing", ![r].sid = s]
  <2>1. /\ req' \in [Requests -> ReqType] /\ \A q \in Requests \ {r} : req'[q] = req[q]
        /\ req'[r].sid = s /\ req'[r].cred = req[r].cred /\ req'[r].pc = "failing"
    <3>1. req' = [req EXCEPT ![r] = [req[r] EXCEPT !.pc = "failing", !.sid = s]]
      BY <1>0, <1>4
    <3>2. req[r] \in ReqType
      BY <1>0
    <3> DEFINE q == [req[r] EXCEPT !.pc = "failing", !.sid = s]
    <3>3. q \in ReqType /\ q.pc = "failing" /\ q.sid = s /\ q.cred = req[r].cred
      BY <1>p, <1>t, <3>2 DEF ReqType
    <3> HIDE DEF q
    <3> QED BY <1>0, <3>1, <3>3 DEF q
  <2> QED BY <1>4, <2>1
<1> QED BY <1>1, <1>2, <1>3, <1>4 DEF Dispatch

\* A POST without an id arrives.
LEMMA PostNewArrives ==
    ASSUME TypeOK, Known, NEW r \in Requests, NEW c \in Creds, PostNew(r, c)
    PROVE  Arrives(r) /\ m' \in MapsType /\ req' \in [Requests -> ReqType]
<1>1. req \in [Requests -> ReqType] /\ m \in MapsType
  BY Types
<1>2. \E pc \in {"done", "authenticating"} : req' = [req EXCEPT ![r].pc = pc, ![r].cred = c]
  BY DEF PostNew
<1>3. req' \in [Requests -> ReqType]
  <2>1. PICK pc \in {"done", "authenticating"} : req' = [req EXCEPT ![r].pc = pc, ![r].cred = c]
    BY <1>2
  <2>2. pc \in Pcs
    BY DEF Pcs
  <2> QED BY ZenonT(30), <1>1, <2>1, <2>2 DEF ReqType
<1>4. \E pc \in {"done", "authenticating"} : Moves(r, pc, req[r].sid)
  BY <1>1, <1>2 DEF Moves, PostNew, ReqType
<1>5. req'[r].cred # None
  BY <1>1, <1>2, SessionAssumption DEF ReqType
<1> QED BY <1>1, <1>3, <1>4, <1>5 DEF PostNew, Arrives, SameSessions, SameLinks

\* A POST or a DELETE with an id arrives.
LEMMA WithIdArrives ==
    ASSUME TypeOK, NEW r \in Requests, NEW c \in Creds, NEW s \in Sids,
           PostWithId(r, c, s) \/ Delete(r, c, s)
    PROVE  Arrives(r) /\ m' \in MapsType /\ req' \in [Requests -> ReqType]
<1>1. req \in [Requests -> ReqType] /\ m \in MapsType
  BY Types
<1>2. /\ NoReq \in ReqType
      /\ \A pc \in Pcs, b \in BOOLEAN :
           LET q == [NoReq EXCEPT !.pc = pc, !.sid = s, !.cred = c, !.rebuild = b]
           IN  q \in ReqType /\ q.pc = pc /\ q.sid = s /\ q.cred = c
      /\ LET q == [NoReq EXCEPT !.pc = "verifyingDelete", !.sid = s, !.cred = c]
         IN  q \in ReqType /\ q.pc = "verifyingDelete" /\ q.sid = s /\ q.cred = c
  BY DEF NoReq, ReqType, Pcs
<1>3. \E q \in ReqType :
        /\ q.pc \in {"validating", "verifyingDelete"} /\ q.sid = s /\ q.cred = c
        /\ req' = [req EXCEPT ![r] = q]
  <2>1. CASE PostWithId(r, c, s)
    <3>1. (~Held(s) /\ s \notin m.tracked) \in BOOLEAN
      OBVIOUS
    <3>2. "validating" \in Pcs
      BY DEF Pcs
    <3> QED BY <1>2, <2>1, <3>1, <3>2 DEF PostWithId
  <2>2. CASE Delete(r, c, s)
    BY <1>2, <2>2 DEF Delete
  <2> QED BY <2>1, <2>2
<1>4. req' \in [Requests -> ReqType]
  BY <1>1, <1>3
<1>5. /\ req[r].pc = "new" /\ MayArrive(s) /\ used' = used \cup {s}
      /\ m' = m /\ job' = job /\ ranAs' = ranAs
  BY DEF PostWithId, Delete
<1>6. \E pc \in {"validating", "verifyingDelete"} : Moves(r, pc, s)
  BY <1>1, <1>3, <1>5 DEF Moves
<1>7. req'[r].cred # None
  BY <1>1, <1>3, SessionAssumption
<1> QED BY <1>1, <1>4, <1>5, <1>6, <1>7 DEF Arrives, SameSessions, SameLinks

\* A rejected credential ends the handler.
LEMMA AuthFailsPasses ==
    ASSUME TypeOK, NEW r \in Requests, AuthFails(r)
    PROVE  Passes(r) /\ m' \in MapsType /\ req' \in [Requests -> ReqType]
<1>1. req \in [Requests -> ReqType] /\ m \in MapsType /\ "done" \in Pcs
  BY Types DEF Pcs
<1>2. /\ req' \in [Requests -> ReqType]
      /\ \A q \in Requests \ {r} : req'[q] = req[q]
      /\ req'[r].pc = "done" /\ req'[r].sid = req[r].sid /\ req'[r].cred = req[r].cred
  BY <1>1, GotoMoves DEF AuthFails
<1>3. Moves(r, "done", req[r].sid)
  BY <1>2 DEF Moves, AuthFails
<1> QED BY <1>1, <1>2, <1>3 DEF AuthFails, Passes, InFlight, SameSessions, SameLinks

\* A call that is served ends its handler.
LEMMA HandledPasses ==
    ASSUME TypeOK, Known, NEW r \in Requests, Handled(r)
    PROVE  /\ Passes(r) /\ m' \in MapsType /\ req' \in [Requests -> ReqType]
           /\ ranAs' \in [Requests -> Creds \cup {None}]
<1>1. /\ req \in [Requests -> ReqType] /\ m \in MapsType /\ "done" \in Pcs
      /\ ranAs \in [Requests -> Creds \cup {None}]
  BY Types DEF Pcs
<1>2. /\ req' \in [Requests -> ReqType]
      /\ \A q \in Requests \ {r} : req'[q] = req[q]
      /\ req'[r].pc = "done" /\ req'[r].sid = req[r].sid /\ req'[r].cred = req[r].cred
  BY <1>1, GotoMoves DEF Handled
<1>3. req[r].pc = "handling" /\ req[r].sid \in Sids
  BY <1>1 DEF Handled, Known, WithId, ReqType
<1>4. m.store[req[r].sid] \in Creds \cup {None}
  BY <1>1, <1>3 DEF MapsType
<1>5. ranAs' = [ranAs EXCEPT ![r] = m.store[req[r].sid]] /\ m' = m /\ job' = job /\ used' = used
  BY DEF Handled
<1>6. Moves(r, "done", req[r].sid)
  BY <1>1, <1>2, <1>5 DEF Moves
<1> QED BY <1>1, <1>2, <1>3, <1>4, <1>5, <1>6 DEF Passes, InFlight, SameSessions, SameLinks

\* A connect that resolves publishes the transport.
LEMMA ConnectedConnects ==
    ASSUME TypeOK, Known, NEW r \in Requests, Connected(r)
    PROVE  Connects(r) /\ m' \in MapsType /\ req' \in [Requests -> ReqType]
<1>1. req \in [Requests -> ReqType] /\ m \in MapsType /\ "handling" \in Pcs
  BY Types DEF Pcs
<1>2. /\ req' \in [Requests -> ReqType]
      /\ \A q \in Requests \ {r} : req'[q] = req[q]
      /\ req'[r].pc = "handling" /\ req'[r].sid = req[r].sid /\ req'[r].cred = req[r].cred
      /\ req'[r].tr = req[r].tr
  BY <1>1, GotoMoves DEF Connected
<1>3. Moves(r, "handling", req[r].sid)
  BY <1>2 DEF Moves, Connected
<1>4. req[r].pc = "connecting" /\ req[r].sid \in Sids
  BY <1>1 DEF Connected, Known, WithId, ReqType
<1>5. m' = [m EXCEPT !.transports[req[r].sid] = r]
  BY DEF Connected
<1>6. /\ m' \in MapsType /\ m'.transports = [m.transports EXCEPT ![req[r].sid] = r]
      /\ m'.store = m.store /\ m'.tracked = m.tracked /\ m'.servers = m.servers
      /\ m'.openS = m.openS /\ m'.idle = m.idle /\ m'.conn = m.conn /\ m'.openT = m.openT
  BY <1>1, <1>4, <1>5 DEF MapsType
<1> QED BY <1>2, <1>3, <1>4, <1>6 DEF Connected, Connects, SameSessions

\* A call that throws closes the transport it used.
LEMMA HandleThrowsThrows ==
    ASSUME TypeOK, Known, NEW r \in Requests, HandleThrows(r)
    PROVE  Throws(r) /\ m' \in MapsType /\ req' \in [Requests -> ReqType]
<1>1. req \in [Requests -> ReqType] /\ m \in MapsType /\ "failing" \in Pcs
  BY Types DEF Pcs
<1>2. /\ req' \in [Requests -> ReqType]
      /\ \A q \in Requests \ {r} : req'[q] = req[q]
      /\ req'[r].pc = "failing" /\ req'[r].sid = req[r].sid /\ req'[r].cred = req[r].cred
  BY <1>1, GotoMoves DEF HandleThrows
<1>3. Moves(r, "failing", req[r].sid)
  BY <1>2 DEF Moves, HandleThrows
<1>4. m' = CloseTransport(m, req[r].tr)
  BY DEF HandleThrows
<1>5. /\ m' \in MapsType
      /\ m'.store = m.store /\ m'.tracked = m.tracked /\ m'.idle = m.idle
      /\ m'.servers = m.servers /\ m'.transports = m.transports
      /\ m'.openS = m.openS /\ m'.openT = m.openT \ {req[r].tr}
      /\ \A v \in Requests : m'.conn[v] = IF m.conn[v] = req[r].tr THEN None ELSE m.conn[v]
  BY <1>1, <1>4, CloseTransportIs
<1> QED BY <1>2, <1>3, <1>5 DEF HandleThrows, Throws, SameSessions

\* The end of the catch unpublishes.
LEMMA ForgetUnpublishes ==
    ASSUME TypeOK, Known, NEW r \in Requests, ForgetTransport(r)
    PROVE  Unpublishes(r) /\ m' \in MapsType /\ req' \in [Requests -> ReqType]
<1>1. req \in [Requests -> ReqType] /\ m \in MapsType /\ "done" \in Pcs
  BY Types DEF Pcs
<1>2. /\ req' \in [Requests -> ReqType]
      /\ \A q \in Requests \ {r} : req'[q] = req[q]
      /\ req'[r].pc = "done" /\ req'[r].sid = req[r].sid /\ req'[r].cred = req[r].cred
  BY <1>1, GotoMoves DEF ForgetTransport
<1>3. Moves(r, "done", req[r].sid)
  BY <1>2 DEF Moves, ForgetTransport
<1>4. req[r].pc = "failing" /\ req[r].sid \in Sids
  BY <1>1 DEF ForgetTransport, Known, WithId, ReqType
<1>5. m' = [m EXCEPT !.transports[req[r].sid] = None]
  BY DEF ForgetTransport
<1>6. /\ m' \in MapsType /\ m'.transports = [m.transports EXCEPT ![req[r].sid] = None]
      /\ m'.store = m.store /\ m'.tracked = m.tracked /\ m'.servers = m.servers
      /\ m'.openS = m.openS /\ m'.idle = m.idle /\ m'.conn = m.conn /\ m'.openT = m.openT
  BY <1>1, <1>4, <1>5 DEF MapsType
<1> QED BY <1>2, <1>3, <1>4, <1>6 DEF ForgetTransport, Unpublishes, SameSessions

\* Validated, a handler ends, re-authenticates or dispatches.
LEMMA ValidateMoves ==
    ASSUME TypeOK, Known, IdleTracked, NEW r \in Requests, Validate(r)
    PROVE  /\ Passes(r) \/ \E s \in Sids : Dispatches(r, s)
           /\ m' \in MapsType /\ req' \in [Requests -> ReqType]
<1> DEFINE s == req[r].sid
           x == Touch(m, s)
<1>1. /\ req \in [Requests -> ReqType] /\ m \in MapsType
      /\ "done" \in Pcs /\ "authenticating" \in Pcs
  BY Types DEF Pcs
<1>2. /\ req[r].pc = "validating" /\ s \in Sids /\ ranAs' = ranAs /\ job' = job /\ used' = used
  BY <1>1 DEF Validate, Known, WithId, ReqType
<1>3. /\ x \in MapsType /\ x.idle = m.idle \ {s}
      /\ x.store = m.store /\ x.tracked = m.tracked /\ x.servers = m.servers
      /\ x.transports = m.transports /\ x.conn = m.conn
      /\ x.openS = m.openS /\ x.openT = m.openT
  BY <1>1, <1>2, TouchIs DEF IdleTracked
<1> HIDE DEF x
<1>4. CASE Goto(r, "done") /\ (m' = m \/ m' = x)
  <2>1. /\ req' \in [Requests -> ReqType]
        /\ \A q \in Requests \ {r} : req'[q] = req[q]
        /\ req'[r].pc = "done" /\ req'[r].sid = req[r].sid /\ req'[r].cred = req[r].cred
    BY <1>1, <1>4, GotoMoves
  <2>2. Moves(r, "done", req[r].sid)
    BY <1>2, <2>1 DEF Moves
  <2>3. SameSessions /\ SameLinks /\ m'.idle \in {m.idle, m.idle \ {s}} /\ m' \in MapsType
    BY <1>1, <1>3, <1>4 DEF SameSessions, SameLinks
  <2> QED BY <1>2, <2>1, <2>2, <2>3 DEF Passes, InFlight
<1>5. CASE Goto(r, "authenticating") /\ m' = x
  <2>1. /\ req' \in [Requests -> ReqType]
        /\ \A q \in Requests \ {r} : req'[q] = req[q]
        /\ req'[r].pc = "authenticating" /\ req'[r].sid = req[r].sid
        /\ req'[r].cred = req[r].cred
    BY <1>1, <1>5, GotoMoves
  <2>2. Moves(r, "authenticating", req[r].sid)
    BY <1>2, <2>1 DEF Moves
  <2>3. SameSessions /\ SameLinks /\ m'.idle = m.idle \ {s} /\ m' \in MapsType
    BY <1>3, <1>5 DEF SameSessions, SameLinks
  <2> QED BY <1>2, <2>1, <2>2, <2>3 DEF Passes, InFlight
<1>6. CASE Dispatch(r, s, x) /\ ~(Held(s) /\ m.store[s] # req[r].cred)
  <2>0. Sees(r, s, x)
    BY <1>2, <1>3, <1>6, DispatchIs
  <2>1. /\ m' \in MapsType /\ req' \in [Requests -> ReqType]
        /\ m'.store = m.store /\ m'.tracked = m.tracked /\ m'.idle = m.idle \ {s}
        /\ m'.servers = m.servers /\ m'.transports = m.transports /\ m'.openS = m.openS
        /\ \A q \in Requests \ {r} : req'[q] = req[q]
        /\ req'[r].sid = s /\ req'[r].cred = req[r].cred
    BY <1>3, <2>0 DEF Sees
  <2>2. Reuses(r, s)
    BY <1>2, <1>6, <2>1 DEF Reuses, SameSessions, Held
  <2>3. Dispatches(r, s)
    BY <1>2, <1>3, <2>0, <2>1, <2>2 DEF Dispatches, Moves, SameLinks, Sees
  <2> QED BY <1>2, <2>1, <2>3
<1>7. \/ Goto(r, "done") /\ (m' = m \/ m' = x)
      \/ Goto(r, "authenticating") /\ m' = x
      \/ Dispatch(r, s, x) /\ ~(Held(s) /\ m.store[s] # req[r].cred)
  BY DEF Validate, x
<1> QED BY <1>4, <1>5, <1>6, <1>7

\* Verified, a handler binds its session and dispatches.
LEMMA CreateSessionMoves ==
    ASSUME TypeOK, NEW r \in Requests, CreateSession(r)
    PROVE  /\ \E s \in Sids : Dispatches(r, s)
           /\ m' \in MapsType /\ req' \in [Requests -> ReqType] /\ used' \subseteq Sids
<1>1. req \in [Requests -> ReqType] /\ m \in MapsType /\ used \subseteq Sids
  BY Types
<1>2. PICK s \in Sids :
        /\ Bind(r, s)
        /\ \/ req[r].sid = s /\ used' = used
           \/ req[r].sid = None /\ s \notin used /\ used' = used \cup {s}
  BY <1>1 DEF CreateSession, ReqType
<1>3. req[r].pc = "authenticating" /\ ranAs' = ranAs /\ job' = job
  BY DEF CreateSession
<1> DEFINE c == req[r].cred
           x == [m EXCEPT !.store[s] = c, !.tracked = @ \cup {s}, !.idle = @ \ {s}]
<1>4. c \in Creds \cup {None}
  BY <1>1 DEF ReqType
<1>5. /\ x \in MapsType /\ x.idle = m.idle \ {s}
      /\ x.store = [m.store EXCEPT ![s] = c] /\ x.tracked = m.tracked \cup {s}
      /\ x.servers = m.servers /\ x.transports = m.transports /\ x.conn = m.conn
      /\ x.openS = m.openS /\ x.openT = m.openT
  <2> HIDE DEF c
  <2>1. /\ [m.store EXCEPT ![s] = c] \in [Sids -> Creds \cup {None}]
        /\ m.tracked \cup {s} \subseteq Sids /\ m.idle \ {s} \subseteq Sids
    BY <1>1, <1>4 DEF MapsType
  <2>2. x = [m EXCEPT !.store = [m.store EXCEPT ![s] = c], !.tracked = m.tracked \cup {s},
                      !.idle = m.idle \ {s}]
    BY <1>1 DEF MapsType
  <2> QED BY <1>1, <2>1, <2>2 DEF MapsType
<1>6. Dispatch(r, s, x)
  BY <1>2 DEF Bind
<1> HIDE DEF x
<1>6a. Sees(r, s, x)
  BY <1>5, <1>6, DispatchIs
<1>7. /\ m' \in MapsType /\ req' \in [Requests -> ReqType]
      /\ m'.store = [m.store EXCEPT ![s] = c] /\ m'.tracked = m.tracked \cup {s}
      /\ m'.idle = m.idle \ {s}
      /\ m'.servers = m.servers /\ m'.transports = m.transports /\ m'.openS = m.openS
      /\ \A q \in Requests \ {r} : req'[q] = req[q]
      /\ req'[r].sid = s /\ req'[r].cred = req[r].cred
  <2>1. /\ m' \in MapsType /\ req' \in [Requests -> ReqType]
        /\ m'.store = x.store /\ m'.tracked = x.tracked /\ m'.idle = x.idle
        /\ m'.servers = x.servers /\ m'.transports = x.transports /\ m'.openS = x.openS
        /\ \A q \in Requests \ {r} : req'[q] = req[q]
        /\ req'[r].sid = s /\ req'[r].cred = req[r].cred
    BY <1>6a DEF Sees
  <2> QED BY <2>1, <1>5
<1>8. Binds(r, s)
  BY <1>2, <1>3, <1>7 DEF Binds
<1>9. Dispatches(r, s)
  BY <1>3, <1>5, <1>6a, <1>7, <1>8 DEF Dispatches, Moves, SameLinks, Sees
<1> QED BY <1>1, <1>2, <1>7, <1>9

\* With its server made, a handler dispatches.
LEMMA ServerCreatedMoves ==
    ASSUME TypeOK, Known, NEW r \in Requests, ServerCreated(r)
    PROVE  /\ \E s \in Sids : Dispatches(r, s)
           /\ m' \in MapsType /\ req' \in [Requests -> ReqType]
<1> DEFINE s == req[r].sid
           x == [m EXCEPT !.servers[s] = r, !.openS = @ \cup {r}]
<1>1. req \in [Requests -> ReqType] /\ m \in MapsType
  BY Types
<1>2. /\ req[r].pc = "creatingServer" /\ s \in Sids /\ used' = used
      /\ ranAs' = ranAs /\ job' = job
  BY <1>1 DEF ServerCreated, Known, WithId, ReqType
<1>3. Dispatch(r, s, x)
  BY DEF ServerCreated
<1>4. /\ x \in MapsType /\ x.idle = m.idle
      /\ x.servers = [m.servers EXCEPT ![s] = r] /\ x.openS = m.openS \cup {r}
      /\ x.store = m.store /\ x.tracked = m.tracked /\ x.transports = m.transports
      /\ x.conn = m.conn /\ x.openT = m.openT
  <2> HIDE DEF s
  <2>1. /\ [m.servers EXCEPT ![s] = r] \in [Sids -> Requests \cup {None}]
        /\ m.openS \cup {r} \subseteq Requests
    BY <1>1, <1>2 DEF MapsType
  <2>2. x = [m EXCEPT !.servers = [m.servers EXCEPT ![s] = r], !.openS = m.openS \cup {r}]
    BY <1>1 DEF MapsType
  <2> QED BY <1>1, <2>1, <2>2 DEF MapsType
<1> HIDE DEF x
<1>4a. Sees(r, s, x)
  BY <1>2, <1>3, <1>4, DispatchIs
<1>5. /\ m' \in MapsType /\ req' \in [Requests -> ReqType]
      /\ m'.store = m.store /\ m'.tracked = m.tracked /\ m'.idle = m.idle
      /\ m'.servers = [m.servers EXCEPT ![s] = r] /\ m'.openS = m.openS \cup {r}
      /\ m'.transports = m.transports
      /\ \A q \in Requests \ {r} : req'[q] = req[q]
      /\ req'[r].sid = s /\ req'[r].cred = req[r].cred
  <2>1. /\ m' \in MapsType /\ req' \in [Requests -> ReqType]
        /\ m'.store = x.store /\ m'.tracked = x.tracked /\ m'.idle = x.idle
        /\ m'.servers = x.servers /\ m'.transports = x.transports /\ m'.openS = x.openS
        /\ \A q \in Requests \ {r} : req'[q] = req[q]
        /\ req'[r].sid = s /\ req'[r].cred = req[r].cred
    BY <1>4a DEF Sees
  <2> QED BY <2>1, <1>4
<1>6. Creates(r, s)
  BY <1>2, <1>5 DEF Creates
<1>7. Dispatches(r, s)
  <2>1. \/ /\ x.servers[s] = None /\ req'[r].pc = "creatingServer"
           /\ m'.conn = x.conn /\ m'.openT = x.openT
        \/ /\ x.servers[s] # None /\ x.transports[s] # None /\ req'[r].pc = "handling"
           /\ req'[r].tr = x.transports[s] /\ m'.conn = x.conn /\ m'.openT = x.openT
        \/ /\ x.servers[s] # None /\ x.transports[s] = None /\ req'[r].pc = "connecting"
           /\ x.conn[x.servers[s]] = None /\ req'[r].tr = r
           /\ m'.conn = [x.conn EXCEPT ![x.servers[s]] = r] /\ m'.openT = x.openT \cup {r}
        \/ /\ x.servers[s] # None /\ x.transports[s] = None /\ req'[r].pc = "failing"
           /\ x.conn[x.servers[s]] # None /\ m'.conn = x.conn /\ m'.openT = x.openT
    BY <1>4a DEF Sees
  <2>2. /\ x.servers = m'.servers /\ x.transports = m.transports
        /\ x.conn = m.conn /\ x.openT = m.openT
    BY <1>4, <1>5
  <2>3. \A pc : req'[r].pc = pc => Moves(r, pc, s)
    BY <1>2, <1>5 DEF Moves
  <2> QED BY <1>2, <1>5, <1>6, <2>1, <2>2, <2>3 DEF Dispatches, SameLinks
<1> QED BY <1>2, <1>5, <1>7

\* A session goes idle.
LEMMA GoIdleMoves ==
    ASSUME TypeOK, NEW s \in Sids, GoIdle(s)
    PROVE  GoesIdle(s) /\ m' \in MapsType
<1>1. m \in MapsType /\ m' = [m EXCEPT !.idle = @ \cup {s}]
  BY Types DEF GoIdle
<1>2. /\ m' \in MapsType /\ m'.idle = m.idle \cup {s}
      /\ m'.store = m.store /\ m'.tracked = m.tracked /\ m'.servers = m.servers
      /\ m'.openS = m.openS /\ m'.transports = m.transports /\ m'.conn = m.conn
      /\ m'.openT = m.openT
  BY <1>1 DEF MapsType
<1> QED BY <1>2 DEF GoIdle, GoesIdle, SameSessions, SameLinks

\* A cleanup that leaves job k to j.
LEMMA BecomesIs ==
    ASSUME job \in [Jobs -> JobType], NEW j \in Jobs, NEW y, NEW k \in JobType,
           Becomes(j, <<y, k>>)
    PROVE  /\ m' = y /\ job'[j] = k /\ job' \in [Jobs -> JobType]
           /\ \A i \in Jobs \ {j} : job'[i] = job[i]
BY DEF Becomes

\* The cleanups give pairs.
LEMMA Pairs ==
    ASSUME NEW x, NEW s
    PROVE  /\ StoreDelete(x, s) = <<StoreDelete(x, s)[1], StoreDelete(x, s)[2]>>
           /\ CleanupRest(x, s) = <<CleanupRest(x, s)[1], CleanupRest(x, s)[2]>>
           /\ Cleanup(x, s) = <<Cleanup(x, s)[1], Cleanup(x, s)[2]>>
<1>1. ASSUME NEW z PROVE StoreDelete(z, s) = <<StoreDelete(z, s)[1], StoreDelete(z, s)[2]>>
  <2>1. \A w : Detach(w, s) = <<Detach(w, s)[1], Detach(w, s)[2]>>
    BY DEF Detach
  <2> QED BY <2>1 DEF StoreDelete
<1>2. CleanupRest(x, s) = <<CleanupRest(x, s)[1], CleanupRest(x, s)[2]>>
  BY <1>1 DEF CleanupRest
<1>3. Cleanup(x, s) = <<Cleanup(x, s)[1], Cleanup(x, s)[2]>>
  BY <1>2 DEF Cleanup
<1> QED BY <1>1, <1>2, <1>3

\* A call refused upstream drops its session.
LEMMA UnauthorizedCleansUp ==
    ASSUME TypeOK, Known, NEW r \in Requests, HandledUnauthorized(r)
    PROVE  /\ \E s \in Sids : CleansUp(r, s)
           /\ m' \in MapsType /\ req' \in [Requests -> ReqType] /\ job' \in [Jobs -> JobType]
           /\ ranAs' \in [Requests -> Creds \cup {None}]
<1> DEFINE s == req[r].sid
           y == StoreDelete(m, s)[1]
           k == StoreDelete(m, s)[2]
<1>1. /\ req \in [Requests -> ReqType] /\ m \in MapsType /\ job \in [Jobs -> JobType]
      /\ ranAs \in [Requests -> Creds \cup {None}] /\ "done" \in Pcs /\ r \in Jobs
  BY Types DEF Pcs, Jobs
<1>2. req[r].pc = "handling" /\ s \in Sids /\ used' = used
  BY <1>1 DEF HandledUnauthorized, Known, WithId, ReqType
<1>3. Cleans(m, y, s, k) /\ y.store[s] = None
  BY <1>1, <1>2, StoreDeleteCleans
<1>4. Becomes(r, <<y, k>>)
  BY Pairs DEF HandledUnauthorized
<1>5. /\ ranAs' = [ranAs EXCEPT ![r] = m.store[s]] /\ m.store[s] \in Creds \cup {None}
  BY <1>1, <1>2 DEF HandledUnauthorized, MapsType
<1>6. /\ req' \in [Requests -> ReqType]
      /\ \A q \in Requests \ {r} : req'[q] = req[q]
      /\ req'[r].pc = "done" /\ req'[r].sid = s /\ req'[r].cred = req[r].cred
  BY <1>1, GotoMoves DEF HandledUnauthorized
<1> HIDE DEF s, y, k
<1>7. k \in JobType /\ y \in MapsType
  BY <1>3 DEF Cleans
<1>8. /\ m' = y /\ job'[r] = k /\ job' \in [Jobs -> JobType]
      /\ \A i \in Jobs \ {r} : job'[i] = job[i]
  BY <1>1, <1>4, <1>7, BecomesIs
<1>9. Moves(r, "done", s)
  BY <1>1, <1>5, <1>6 DEF Moves
<1>10. CleansUp(r, s)
  BY <1>1, <1>2, <1>3, <1>5, <1>6, <1>8, <1>9 DEF CleansUp, s
<1> QED BY <1>1, <1>2, <1>5, <1>6, <1>7, <1>8, <1>10

\* A verified DELETE is refused or cleans up.
LEMMA DeleteVerifiedMoves ==
    ASSUME TypeOK, Known, NEW r \in Requests, DeleteVerified(r)
    PROVE  /\ Passes(r) \/ \E s \in Sids : CleansUp(r, s)
           /\ m' \in MapsType /\ req' \in [Requests -> ReqType] /\ job' \in [Jobs -> JobType]
<1> DEFINE s == req[r].sid
           y == Cleanup(m, s)[1]
           k == Cleanup(m, s)[2]
<1>1. /\ req \in [Requests -> ReqType] /\ m \in MapsType /\ job \in [Jobs -> JobType]
      /\ "done" \in Pcs /\ r \in Jobs
  BY Types DEF Pcs, Jobs
<1>2. req[r].pc = "verifyingDelete" /\ s \in Sids /\ used' = used /\ ranAs' = ranAs
  BY <1>1 DEF DeleteVerified, Known, WithId, ReqType
<1>3. /\ req' \in [Requests -> ReqType]
      /\ \A q \in Requests \ {r} : req'[q] = req[q]
      /\ req'[r].pc = "done" /\ req'[r].sid = s /\ req'[r].cred = req[r].cred
  BY <1>1, GotoMoves DEF DeleteVerified
<1>4. Moves(r, "done", s)
  BY <1>2, <1>3 DEF Moves
<1>5. CASE UNCHANGED <<m, job>>
  <2>1. Passes(r)
    BY <1>2, <1>3, <1>4, <1>5 DEF Passes, InFlight, SameSessions, SameLinks
  <2> QED BY <1>1, <1>3, <1>5, <2>1
<1>6. CASE Becomes(r, Cleanup(m, s))
  <2>1. Cleans(m, y, s, k) /\ (y.store[s] # None => y.tracked = m.tracked)
    BY <1>1, <1>2, CleanupCleans
  <2>2. Becomes(r, <<y, k>>)
    BY <1>6, Pairs
  <2> HIDE DEF s, y, k
  <2>3. k \in JobType /\ y \in MapsType
    BY <2>1 DEF Cleans
  <2>4. /\ m' = y /\ job'[r] = k /\ job' \in [Jobs -> JobType]
        /\ \A i \in Jobs \ {r} : job'[i] = job[i]
    BY <1>1, <2>2, <2>3, BecomesIs
  <2>5. CleansUp(r, s)
    BY <1>1, <1>2, <1>3, <1>4, <2>1, <2>4 DEF CleansUp, s
  <2> QED BY <1>2, <1>3, <2>3, <2>4, <2>5
<1> QED BY <1>5, <1>6 DEF DeleteVerified

\* The idle sweep cleans up.
LEMMA SweepCleansUp ==
    ASSUME TypeOK, NEW w \in Sweepers, NEW s \in Sids, Sweep(w, s)
    PROVE  CleansUp(w, s) /\ m' \in MapsType /\ job' \in [Jobs -> JobType]
<1> DEFINE y == Cleanup(m, s)[1]
           k == Cleanup(m, s)[2]
<1>1. m \in MapsType /\ job \in [Jobs -> JobType] /\ w \in Jobs
  BY Types DEF Jobs
<1>2. Cleans(m, y, s, k) /\ (y.store[s] # None => y.tracked = m.tracked)
  BY <1>1, CleanupCleans
<1>3. Becomes(w, <<y, k>>)
  BY Pairs DEF Sweep
<1> HIDE DEF y, k
<1>4. k \in JobType /\ y \in MapsType
  BY <1>2 DEF Cleans
<1>5. /\ m' = y /\ job'[w] = k /\ job' \in [Jobs -> JobType]
      /\ \A i \in Jobs \ {w} : job'[i] = job[i]
  BY <1>1, <1>3, <1>4, BecomesIs
<1>6. /\ job[w].pc = "none" /\ s \in m.idle
      /\ req' = req /\ ranAs' = ranAs /\ used' = used
  BY NoJobIs DEF Sweep
<1>7. CleansUp(w, s)
  BY <1>2, <1>5, <1>6 DEF CleansUp
<1> QED BY <1>4, <1>5, <1>7

\* A cleanup goes on once its transport is closed.
LEMMA TransportClosedCleansUp ==
    ASSUME TypeOK, Known, NEW j \in Jobs, TransportClosed(j)
    PROVE  /\ \E s \in Sids : CleansUp(j, s)
           /\ m' \in MapsType /\ job' \in [Jobs -> JobType]
<1> DEFINE s  == job[j].sid
           x1 == [m EXCEPT !.transports[s] = None]
           y  == CleanupRest(x1, s)[1]
           k  == CleanupRest(x1, s)[2]
<1>1. m \in MapsType /\ job \in [Jobs -> JobType]
  BY Types
<1>2. /\ job[j].pc = "closingTransport" /\ s \in Sids
      /\ req' = req /\ ranAs' = ranAs /\ used' = used
  BY <1>1 DEF TransportClosed, Known, JobType
<1>3. /\ Cleans(m, y, s, k) /\ y.transports[s] = None
      /\ y.store[s] # None => y.tracked = m.tracked
  BY <1>1, <1>2, TransportClosedCleans
<1>4. Becomes(j, <<y, k>>)
  BY Pairs DEF TransportClosed
<1> HIDE DEF s, x1, y, k
<1>5. k \in JobType /\ y \in MapsType
  BY <1>3 DEF Cleans
<1>6. /\ m' = y /\ job'[j] = k /\ job' \in [Jobs -> JobType]
      /\ \A i \in Jobs \ {j} : job'[i] = job[i]
  BY <1>1, <1>4, <1>5, BecomesIs
<1>7. CleansUp(j, s)
  BY <1>2, <1>3, <1>6 DEF CleansUp, s
<1> QED BY <1>2, <1>5, <1>6, <1>7

\* A cleanup goes on once its server is closed.
LEMMA ServerClosedCleansUp ==
    ASSUME TypeOK, Known, NEW j \in Jobs, ServerClosed(j)
    PROVE  /\ \E s \in Sids : CleansUp(j, s)
           /\ m' \in MapsType /\ job' \in [Jobs -> JobType]
<1> DEFINE s == job[j].sid
<1>1. m \in MapsType /\ job \in [Jobs -> JobType]
  BY Types
<1>2. /\ job[j].pc = "closingServer" /\ s \in Sids
      /\ req' = req /\ ranAs' = ranAs /\ used' = used
  BY <1>1 DEF ServerClosed, Known, JobType
<1>3. CASE job[j].drop
  <2> DEFINE y == StoreDelete(Untrack(m, s), s)[1]
             k == StoreDelete(Untrack(m, s), s)[2]
  <2>1. Cleans(m, y, s, k) /\ y.store[s] = None /\ y.tracked = m.tracked \ {s}
    BY <1>1, <1>2, ServerClosedCleans
  <2>2. Becomes(j, <<y, k>>)
    BY <1>3, Pairs DEF ServerClosed
  <2> HIDE DEF s, y, k
  <2>3. k \in JobType /\ y \in MapsType
    BY <2>1 DEF Cleans
  <2>4. /\ m' = y /\ job'[j] = k /\ job' \in [Jobs -> JobType]
        /\ \A i \in Jobs \ {j} : job'[i] = job[i]
    BY <1>1, <2>2, <2>3, BecomesIs
  <2>5. CleansUp(j, s)
    BY <1>2, <2>1, <2>4 DEF CleansUp, s
  <2> QED BY <1>2, <2>3, <2>4, <2>5
<1>4. CASE ~job[j].drop
  <2> DEFINE y == Untrack(m, s)
  <2>1. Cleans(m, y, s, NoJob) /\ y.tracked = m.tracked \ {s} /\ y.store = m.store
    BY <1>1, <1>2, UntrackCleans, UntrackIs
  <2>2. Becomes(j, <<y, NoJob>>)
    BY <1>4 DEF ServerClosed
  <2> HIDE DEF s, y
  <2>3. NoJob \in JobType /\ y \in MapsType
    BY <2>1 DEF Cleans
  <2>4. /\ m' = y /\ job'[j] = NoJob /\ job' \in [Jobs -> JobType]
        /\ \A i \in Jobs \ {j} : job'[i] = job[i]
    BY <1>1, <2>2, <2>3, BecomesIs
  <2>5. CleansUp(j, s)
    BY <1>2, <1>4, <2>1, <2>4 DEF CleansUp, s
  <2> QED BY <1>2, <2>3, <2>4, <2>5
<1> QED BY <1>3, <1>4

\* Every step is one of these and keeps the types, or changes nothing.
LEMMA StepMoves ==
    ASSUME TypeOK, Known, IdleTracked, [Next]_vars
    PROVE  TypeOK' /\ how' = how /\ (Moved \/ UNCHANGED vars)
<1>0. /\ m \in MapsType /\ req \in [Requests -> ReqType] /\ job \in [Jobs -> JobType]
      /\ how \in DisciplineType /\ ranAs \in [Requests -> Creds \cup {None}]
      /\ used \subseteq Sids
  BY Types
<1>t. /\ m' \in MapsType /\ req' \in [Requests -> ReqType] /\ job' \in [Jobs -> JobType]
      /\ how' \in DisciplineType /\ ranAs' \in [Requests -> Creds \cup {None}]
      /\ used' \subseteq Sids
      => TypeOK'
  BY DEF TypeOK, ReqType, JobType
<1>1. CASE Act /\ UNCHANGED how
  <2>1. ASSUME NEW r \in Requests, Turn(r), Arrive(r)
        PROVE  TypeOK' /\ Moved
    <3>1. /\ Arrives(r) /\ m' \in MapsType /\ req' \in [Requests -> ReqType]
      BY <2>1, PostNewArrives, WithIdArrives DEF Arrive
    <3>2. job' = job /\ ranAs' = ranAs /\ used' \subseteq Sids
      BY <1>0, <3>1 DEF Arrives
    <3> QED BY <1>0, <1>1, <1>t, <2>1, <3>1, <3>2 DEF Moved
  <2>2. ASSUME NEW r \in Requests, Turn(r), Step(r)
        PROVE  TypeOK' /\ Moved
    <3>1. CASE Validate(r)
      <4>1. /\ Passes(r) \/ \E s \in Sids : Dispatches(r, s)
            /\ m' \in MapsType /\ req' \in [Requests -> ReqType]
        BY <3>1, ValidateMoves
      <4>2. job' = job /\ ranAs' = ranAs /\ used' = used
        BY <3>1 DEF Validate
      <4>3. TypeOK'
        BY <1>0, <1>1, <1>t, <4>1, <4>2
      <4> QED BY <2>2, <4>1, <4>3 DEF Moved
    <3>2. CASE AuthFails(r)
      <4>1. Passes(r) /\ m' \in MapsType /\ req' \in [Requests -> ReqType]
        BY <3>2, AuthFailsPasses
      <4>2. job' = job /\ ranAs' = ranAs /\ used' = used
        BY <3>2 DEF AuthFails
      <4> QED BY <1>0, <1>1, <1>t, <2>2, <4>1, <4>2 DEF Moved
    <3>3. CASE CreateSession(r)
      <4>1. /\ \E s \in Sids : Dispatches(r, s)
            /\ m' \in MapsType /\ req' \in [Requests -> ReqType] /\ used' \subseteq Sids
        BY <3>3, CreateSessionMoves
      <4>2. job' = job /\ ranAs' = ranAs
        BY <3>3 DEF CreateSession
      <4>3. TypeOK'
        BY <1>0, <1>1, <1>t, <4>1, <4>2
      <4> QED BY <2>2, <4>1, <4>3 DEF Moved
    <3>4. CASE ServerCreated(r)
      <4>1. /\ \E s \in Sids : Dispatches(r, s)
            /\ m' \in MapsType /\ req' \in [Requests -> ReqType]
        BY <3>4, ServerCreatedMoves
      <4>2. job' = job /\ ranAs' = ranAs /\ used' = used
        BY <3>4 DEF ServerCreated
      <4>3. TypeOK'
        BY <1>0, <1>1, <1>t, <4>1, <4>2
      <4> QED BY <2>2, <4>1, <4>3 DEF Moved
    <3>5. CASE Connected(r)
      <4>1. Connects(r) /\ m' \in MapsType /\ req' \in [Requests -> ReqType]
        BY <3>5, ConnectedConnects
      <4>2. job' = job /\ ranAs' = ranAs /\ used' = used
        BY <3>5 DEF Connected
      <4> QED BY <1>0, <1>1, <1>t, <2>2, <4>1, <4>2 DEF Moved
    <3>6. CASE Handled(r)
      <4>1. /\ Passes(r) /\ m' \in MapsType /\ req' \in [Requests -> ReqType]
            /\ ranAs' \in [Requests -> Creds \cup {None}]
        BY <3>6, HandledPasses
      <4>2. job' = job /\ used' = used
        BY <3>6 DEF Handled
      <4> QED BY <1>0, <1>1, <1>t, <2>2, <4>1, <4>2 DEF Moved
    <3>7. CASE HandledUnauthorized(r)
      <4>1. /\ \E s \in Sids : CleansUp(r, s)
            /\ m' \in MapsType /\ req' \in [Requests -> ReqType] /\ job' \in [Jobs -> JobType]
            /\ ranAs' \in [Requests -> Creds \cup {None}]
        BY <3>7, UnauthorizedCleansUp
      <4>2. used' = used
        BY <3>7 DEF HandledUnauthorized
      <4>3. TypeOK'
        BY <1>0, <1>1, <1>t, <4>1, <4>2
      <4> QED BY <2>2, <4>1, <4>3 DEF Moved, Jobs
    <3>8. CASE HandleThrows(r)
      <4>1. Throws(r) /\ m' \in MapsType /\ req' \in [Requests -> ReqType]
        BY <3>8, HandleThrowsThrows
      <4>2. job' = job /\ ranAs' = ranAs /\ used' = used
        BY <3>8 DEF HandleThrows
      <4> QED BY <1>0, <1>1, <1>t, <2>2, <4>1, <4>2 DEF Moved
    <3>9. CASE ForgetTransport(r)
      <4>1. Unpublishes(r) /\ m' \in MapsType /\ req' \in [Requests -> ReqType]
        BY <3>9, ForgetUnpublishes
      <4>2. job' = job /\ ranAs' = ranAs /\ used' = used
        BY <3>9 DEF ForgetTransport
      <4> QED BY <1>0, <1>1, <1>t, <2>2, <4>1, <4>2 DEF Moved
    <3>10. CASE DeleteVerified(r)
      <4>1. /\ Passes(r) \/ \E s \in Sids : CleansUp(r, s)
            /\ m' \in MapsType /\ req' \in [Requests -> ReqType] /\ job' \in [Jobs -> JobType]
        BY <3>10, DeleteVerifiedMoves
      <4>2. ranAs' = ranAs /\ used' = used
        BY <3>10 DEF DeleteVerified
      <4>3. TypeOK'
        BY <1>0, <1>1, <1>t, <4>1, <4>2
      <4> QED BY <2>2, <4>1, <4>3 DEF Moved, Jobs
    <3> QED BY <2>2, <3>1, <3>2, <3>3, <3>4, <3>5, <3>6, <3>7, <3>8, <3>9, <3>10 DEF Step
  <2>3. ASSUME NEW s \in Sids, GoIdle(s)
        PROVE  TypeOK' /\ Moved
    <3>1. GoesIdle(s) /\ m' \in MapsType
      BY <2>3, GoIdleMoves
    <3>2. req' = req /\ job' = job /\ ranAs' = ranAs /\ used' = used
      BY <3>1 DEF GoesIdle
    <3> QED BY <1>0, <1>1, <1>t, <3>1, <3>2 DEF Moved
  <2>4. ASSUME NEW w \in Sweepers, NEW s \in Sids, Turn(w), Sweep(w, s)
        PROVE  TypeOK' /\ Moved
    <3>1. CleansUp(w, s) /\ m' \in MapsType /\ job' \in [Jobs -> JobType]
      BY <2>4, SweepCleansUp
    <3>2. req' = req /\ ranAs' = ranAs /\ used' = used
      BY <2>4 DEF Sweep
    <3>3. TypeOK'
      BY <1>0, <1>1, <1>t, <3>1, <3>2
    <3> QED BY <2>4, <3>1, <3>3 DEF Moved, Jobs
  <2>5. ASSUME NEW j \in Jobs, Turn(j), TransportClosed(j) \/ ServerClosed(j)
        PROVE  TypeOK' /\ Moved
    <3>1. /\ \E s \in Sids : CleansUp(j, s)
          /\ m' \in MapsType /\ job' \in [Jobs -> JobType]
      BY <2>5, TransportClosedCleansUp, ServerClosedCleansUp
    <3>2. req' = req /\ ranAs' = ranAs /\ used' = used
      BY <2>5 DEF TransportClosed, ServerClosed
    <3>3. TypeOK'
      BY <1>0, <1>1, <1>t, <3>1, <3>2
    <3> QED BY <2>5, <3>1, <3>3 DEF Moved
  <2> QED BY <1>1, <2>1, <2>2, <2>3, <2>4, <2>5 DEF Act
<1>2. CASE UNCHANGED vars
  <2>1. m' = m /\ req' = req /\ job' = job /\ how' = how /\ ranAs' = ranAs /\ used' = used
    BY <1>2 DEF vars
  <2> QED BY <1>0, <1>2, <1>t, <2>1
<1> QED BY <1>1, <1>2 DEF Next, Finished
-----------------------------------------------------------------------------
(* The parts of the invariant, step by step.                               *)

\* A handler keeps its id and its credential, and does not go back.
Steady(q) ==
    /\ req[q].sid # None => req'[q].sid = req[q].sid
    /\ req[q].pc # "new" => req'[q].pc # "new" /\ req'[q].cred = req[q].cred
    /\ req[q].pc \notin Early => req'[q].pc \notin Early

\* So it is for every handler at every step, and ids stay used.
LEMMA SteadyStep ==
    ASSUME TypeOK, Known, Moved
    PROVE  /\ \A q \in Requests : Steady(q)
           /\ used \subseteq used'
<1>0. None \notin Sids \cup Requests
  BY SessionAssumption
<1> USE DEF Steady, Early
<1>1. ASSUME NEW r \in Requests, Arrives(r)
      PROVE  (\A q \in Requests : Steady(q)) /\ used \subseteq used'
  <2>1. req[r].pc = "new" /\ req[r].sid = None
    BY <1>1 DEF Arrives, Known
  <2>2. \A q \in Requests \ {r} : req'[q] = req[q]
    BY <1>1 DEF Arrives, Moves
  <2>3. used \subseteq used'
    BY <1>1 DEF Arrives
  <2> QED BY <2>1, <2>2, <2>3
<1>2. ASSUME NEW r \in Requests, Passes(r) \/ Connects(r) \/ Throws(r) \/ Unpublishes(r)
      PROVE  (\A q \in Requests : Steady(q)) /\ used \subseteq used'
  <2>1. /\ \A q \in Requests \ {r} : req'[q] = req[q]
        /\ req'[r].sid = req[r].sid /\ req'[r].cred = req[r].cred /\ used' = used
    BY <1>2 DEF Passes, Connects, Throws, Unpublishes, Moves
  <2>2. /\ req'[r].pc # "new"
        /\ req[r].pc \notin Early => req'[r].pc \notin Early
    BY <1>2 DEF Passes, Connects, Throws, Unpublishes, Moves
  <2> QED BY <2>1, <2>2
<1>3. ASSUME NEW r \in Requests, NEW s \in Sids, Dispatches(r, s)
      PROVE  (\A q \in Requests : Steady(q)) /\ used \subseteq used'
  <2>1. /\ \A q \in Requests \ {r} : req'[q] = req[q]
        /\ req'[r].sid = s /\ req'[r].cred = req[r].cred
        /\ req'[r].pc # "new" /\ req[r].pc \in Early
    BY <1>3 DEF Dispatches, Moves, Reuses, Binds, Creates
  <2>2. (req[r].sid = s \/ req[r].sid = None) /\ used \subseteq used'
    BY <1>3 DEF Dispatches, Reuses, Binds, Creates
  <2> QED BY <2>1, <2>2
<1>4. ASSUME NEW s \in Sids, GoesIdle(s)
      PROVE  (\A q \in Requests : Steady(q)) /\ used \subseteq used'
  BY <1>4 DEF GoesIdle
<1>5. ASSUME NEW j \in Jobs, NEW s \in Sids, CleansUp(j, s)
      PROVE  (\A q \in Requests : Steady(q)) /\ used \subseteq used'
  <2>1. CASE req' = req
    BY <1>5, <2>1 DEF CleansUp
  <2>2. CASE req' # req
    <3>1. /\ j \in Requests /\ req[j].sid = s /\ Moves(j, "done", s)
          /\ req'[j].cred = req[j].cred /\ used' = used
      BY <1>5, <2>2 DEF CleansUp
    <3> QED BY <3>1 DEF Moves
  <2> QED BY <2>1, <2>2
<1> QED BY <1>1, <1>2, <1>3, <1>4, <1>5 DEF Moved

\* Handlers and cleanups keep knowing what they know.
LEMMA KnownStep ==
    ASSUME TypeOK, TypeOK', Known, Moved
    PROVE  Known'
<1>0. None \notin Sids \cup Requests /\ Requests \cap Sweepers = {}
  BY SessionAssumption
<1>s. \A q \in Requests : req'[q].sid \in Sids \cup {None}
  BY DEF TypeOK
<1> DEFINE Self(q, rq, ran, us) ==
              /\ rq.pc = "new" => rq.sid = None /\ ran = None
              /\ rq.pc \in WithId => rq.sid # None
              /\ rq.pc = "handling" => rq.tr # None
              /\ rq.pc = "connecting" => rq.tr = q
              /\ rq.pc # "new" => rq.cred # None
              /\ rq.sid # None => rq.sid \in us
<1>a. \A q \in Requests :
        Self(q, req[q], ranAs[q], used) /\ (job[q].pc # "none" => req[q].pc = "done")
  BY DEF Known
<1>g. /\ \A q \in Requests : Self(q, req'[q], ranAs'[q], used')
      /\ \A q \in Requests : job'[q].pc # "none" => req'[q].pc = "done"
      /\ \A j \in Jobs : job'[j].pc # "none" => job'[j].sid # None
      => Known'
  BY DEF Known
<1>k. \A j \in Jobs : job[j].pc # "none" => job[j].sid # None
  BY DEF Known
<1>u. used \subseteq used'
  BY SteadyStep
<1>m. ASSUME NEW r \in Requests, \A q \in Requests \ {r} : req'[q] = req[q] /\ ranAs'[q] = ranAs[q],
             Self(r, req'[r], ranAs'[r], used'), job' = job, req[r].pc # "done"
      PROVE  Known'
  <2>1. \A q \in Requests : Self(q, req'[q], ranAs'[q], used')
    BY <1>a, <1>m, <1>u
  <2>2. \A q \in Requests : job'[q].pc # "none" => req'[q].pc = "done"
    BY <1>a, <1>m
  <2> HIDE DEF Self
  <2> QED BY <1>g, <1>k, <1>m, <2>1, <2>2
<1>1. ASSUME NEW r \in Requests, Arrives(r) PROVE Known'
  <2>1. \A q \in Requests \ {r} : req'[q] = req[q] /\ ranAs'[q] = ranAs[q]
    BY <1>1 DEF Arrives, Moves
  <2>2. Self(r, req'[r], ranAs'[r], used')
    BY <1>0, <1>1, <1>a DEF Arrives, Moves, WithId
  <2> QED BY <1>1, <1>m, <2>1, <2>2 DEF Arrives
<1>2. ASSUME NEW r \in Requests, Passes(r) PROVE Known'
  <2>1. \A q \in Requests \ {r} : req'[q] = req[q] /\ ranAs'[q] = ranAs[q]
    BY <1>2 DEF Passes, Moves
  <2>2. Self(r, req'[r], ranAs'[r], used')
    <3>1. /\ req'[r].pc \in {"done", "authenticating"} /\ req'[r].sid = req[r].sid
          /\ req'[r].cred = req[r].cred /\ req[r].pc # "new" /\ used' = used
      BY <1>2 DEF Passes, Moves, InFlight
    <3> QED BY <1>a, <3>1 DEF WithId
  <2> QED BY <1>2, <1>m, <2>1, <2>2 DEF Passes, InFlight
<1>3. ASSUME NEW r \in Requests, Connects(r) PROVE Known'
  <2>1. \A q \in Requests \ {r} : req'[q] = req[q] /\ ranAs'[q] = ranAs[q]
    BY <1>3 DEF Connects, Moves
  <2>2. Self(r, req'[r], ranAs'[r], used')
    BY <1>0, <1>3, <1>a DEF Connects, Moves, WithId
  <2> QED BY <1>3, <1>m, <2>1, <2>2 DEF Connects
<1>4. ASSUME NEW r \in Requests, Throws(r) \/ Unpublishes(r) PROVE Known'
  <2>1. \A q \in Requests \ {r} : req'[q] = req[q] /\ ranAs'[q] = ranAs[q]
    BY <1>4 DEF Throws, Unpublishes, Moves
  <2>2. Self(r, req'[r], ranAs'[r], used')
    BY <1>4, <1>a DEF Throws, Unpublishes, Moves, WithId
  <2> QED BY <1>4, <1>m, <2>1, <2>2 DEF Throws, Unpublishes
<1>5. ASSUME NEW r \in Requests, NEW s \in Sids, Dispatches(r, s) PROVE Known'
  <2>1. \A q \in Requests \ {r} : req'[q] = req[q] /\ ranAs'[q] = ranAs[q]
    BY <1>5 DEF Dispatches, Moves
  <2>2. req[r].pc \in {"validating", "authenticating", "creatingServer"}
    BY <1>5 DEF Dispatches, Reuses, Binds, Creates
  <2>3. req'[r].sid = s /\ s # None /\ req'[r].pc # "new"
    BY <1>0, <1>5 DEF Dispatches, Moves
  <2>4. s \in used'
    BY <1>0, <1>5, <1>a, <1>u DEF Dispatches, Reuses, Binds, Creates
  <2>5. /\ req'[r].pc = "handling" => req'[r].tr # None
        /\ req'[r].pc = "connecting" => req'[r].tr = r
    BY <1>5 DEF Dispatches, Moves
  <2>6. Self(r, req'[r], ranAs'[r], used')
    <3>1. req'[r].cred # None
      BY <1>5, <1>a, <2>2 DEF Dispatches
    <3> QED BY <2>3, <2>4, <2>5, <3>1
  <2> HIDE DEF Self
  <2> QED BY <1>5, <1>m, <2>1, <2>2, <2>6 DEF Dispatches
<1>6. ASSUME NEW s \in Sids, GoesIdle(s) PROVE Known'
  BY <1>6, <1>a, <1>g, <1>k DEF GoesIdle
<1>7. ASSUME NEW j \in Jobs, NEW s \in Sids, CleansUp(j, s) PROVE Known'
  <2>1. /\ \A i \in Jobs \ {j} : job'[i] = job[i]
        /\ job'[j].pc # "none" => job'[j].sid = s
    BY <1>7 DEF CleansUp, Cleans
  <2>2. \A i \in Jobs : job'[i].pc # "none" => job'[i].sid # None
    BY <1>0, <1>k, <2>1
  <2>3. CASE j \in Requests /\ req[j].pc \in {"handling", "verifyingDelete"} /\ Moves(j, "done", s)
    <3>1. \A q \in Requests \ {j} : req'[q] = req[q] /\ ranAs'[q] = ranAs[q]
      BY <2>3 DEF Moves
    <3>2. req'[j].pc = "done" /\ req'[j].sid = s /\ used' = used /\ req[j].sid = s
      BY <1>7, <2>3 DEF Moves, CleansUp
    <3>3. Self(j, req'[j], ranAs'[j], used')
      <4>1. req'[j].cred # None
        BY <1>7, <1>a, <2>3 DEF CleansUp
      <4> QED BY <1>a, <2>3, <3>2, <4>1 DEF WithId
    <3>4. \A q \in Requests : Self(q, req'[q], ranAs'[q], used')
      BY <1>a, <3>1, <3>2, <3>3
    <3>5. \A q \in Requests : job'[q].pc # "none" => req'[q].pc = "done"
      BY <1>a, <2>1, <3>1, <3>2 DEF Jobs
    <3> HIDE DEF Self
    <3> QED BY <1>g, <2>2, <3>4, <3>5
  <2>4. CASE req' = req /\ ranAs' = ranAs
    <3>1. j \in Requests => job[j].pc # "none"
      BY <1>0, <1>7, <2>4 DEF CleansUp, Moves
    <3>2. \A q \in Requests : job'[q].pc # "none" => req'[q].pc = "done"
      BY <1>a, <2>1, <2>4, <3>1 DEF Jobs
    <3>3. \A q \in Requests : Self(q, req'[q], ranAs'[q], used')
      BY <1>a, <1>u, <2>4
    <3> HIDE DEF Self
    <3> QED BY <1>g, <2>2, <3>2, <3>3
  <2> QED BY <1>7, <2>3, <2>4 DEF CleansUp
<1> QED BY <1>1, <1>2, <1>3, <1>4, <1>5, <1>6, <1>7 DEF Moved

\* Only a tracked session is idle.
LEMMA IdleStep ==
    ASSUME TypeOK, IdleTracked, Moved
    PROVE  IdleTracked'
<1> USE DEF IdleTracked
<1>1. ASSUME NEW r \in Requests,
             Arrives(r) \/ Passes(r) \/ Connects(r) \/ Throws(r) \/ Unpublishes(r)
      PROVE  IdleTracked'
  BY <1>1 DEF Arrives, Passes, Connects, Throws, Unpublishes, SameSessions
<1>2. ASSUME NEW r \in Requests, NEW s \in Sids, Dispatches(r, s) PROVE IdleTracked'
  BY <1>2 DEF Dispatches, Reuses, Binds, Creates, SameSessions
<1>3. ASSUME NEW s \in Sids, GoesIdle(s) PROVE IdleTracked'
  BY <1>3 DEF GoesIdle, SameSessions
<1>4. ASSUME NEW j \in Jobs, NEW s \in Sids, CleansUp(j, s) PROVE IdleTracked'
  BY <1>4 DEF CleansUp, Cleans
<1> QED BY <1>1, <1>2, <1>3, <1>4 DEF Moved

\* Names stay with their sessions.
LEMMA NamedStep ==
    ASSUME TypeOK, TypeOK', Known, Named, Moved
    PROVE  Named'
<1>0. None \notin Sids \cup Requests
  BY SessionAssumption
<1>t. /\ \A s \in Sids : m.servers[s] \in Requests \cup {None}
      /\ \A s \in Sids : m.transports[s] \in Requests \cup {None}
      /\ \A v \in Requests : m.conn[v] \in Requests \cup {None}
      /\ \A q \in Requests : req[q].tr \in Requests \cup {None} /\ req[q].sid \in Sids \cup {None}
  BY DEF TypeOK, MapsType
<1>y. \A q \in Requests : Steady(q)
  BY SteadyStep
<1> DEFINE Server(u, v)    == req'[v].pc \notin Early /\ req'[v].sid = u
           Transport(u, t) == req'[t].sid = u
           Link(v, t)      == /\ req'[v].pc \notin Early /\ req'[v].sid # None
                              /\ req'[t].sid = req'[v].sid
           Serves(q)       == req'[q].pc = "handling" => req'[req'[q].tr].sid = req'[q].sid
<1>a. ASSUME NEW u \in Sids, m.servers[u] # None PROVE Server(u, m.servers[u])
  BY <1>0, <1>a, <1>t, <1>y DEF Named, Steady
<1>b. ASSUME NEW u \in Sids, m.transports[u] # None PROVE Transport(u, m.transports[u])
  BY <1>0, <1>b, <1>t, <1>y DEF Named, Steady
<1>c. ASSUME NEW v \in Requests, m.conn[v] # None PROVE Link(v, m.conn[v])
  <2>1. m.conn[v] \in Requests /\ req[v].sid # None /\ req[m.conn[v]].sid = req[v].sid
    BY <1>c, <1>t DEF Named
  <2>2. req'[v].sid = req[v].sid /\ req'[m.conn[v]].sid = req[v].sid
    BY <1>y, <2>1 DEF Steady
  <2>3. req'[v].pc \notin Early
    BY <1>c, <1>y DEF Named, Steady
  <2> QED BY <2>1, <2>2, <2>3
<1>d. ASSUME NEW q \in Requests, req'[q] = req[q] PROVE Serves(q)
  <2> SUFFICES ASSUME req[q].pc = "handling" PROVE req'[req[q].tr].sid = req[q].sid
    BY <1>d
  <2>1. req[q].tr \in Requests /\ req[q].sid # None /\ req[req[q].tr].sid = req[q].sid
    BY <1>t DEF Named, Known, WithId
  <2> QED BY <1>y, <2>1 DEF Steady
<1>g. ASSUME \A u \in Sids : m'.servers[u] # None => Server(u, m'.servers[u]),
             \A u \in Sids : m'.transports[u] # None => Transport(u, m'.transports[u]),
             \A v \in Requests : m'.conn[v] # None => Link(v, m'.conn[v]),
             \A q \in Requests : Serves(q)
      PROVE  Named'
  BY <1>g DEF Named
<1> HIDE DEF Server, Transport, Link, Serves
<1>1. ASSUME NEW r \in Requests, Arrives(r) \/ Passes(r) PROVE Named'
  <2>1. /\ m'.servers = m.servers /\ m'.transports = m.transports /\ m'.conn = m.conn
        /\ \A q \in Requests \ {r} : req'[q] = req[q]
        /\ req'[r].pc # "handling"
    BY <1>1 DEF Arrives, Passes, SameSessions, SameLinks, Moves
  <2>2. \A q \in Requests : Serves(q)
    BY <1>d, <2>1 DEF Serves
  <2> QED BY <1>a, <1>b, <1>c, <1>g, <2>1, <2>2
<1>2. ASSUME NEW r \in Requests, Connects(r) PROVE Named'
  <2>1. /\ m'.servers = m.servers /\ m'.conn = m.conn
        /\ m'.transports = [m.transports EXCEPT ![req[r].sid] = r]
        /\ \A q \in Requests \ {r} : req'[q] = req[q]
        /\ req'[r].sid = req[r].sid /\ req[r].pc = "connecting" /\ req'[r].tr = req[r].tr
    BY <1>2 DEF Connects, SameSessions, Moves
  <2>2. req[r].sid \in Sids /\ req'[r].tr = r
    BY <1>t, <2>1 DEF Known, WithId
  <2>3. \A q \in Requests : Serves(q)
    BY <1>d, <2>1, <2>2 DEF Serves
  <2>4. ASSUME NEW u \in Sids, m'.transports[u] # None PROVE Transport(u, m'.transports[u])
    <3>1. CASE u = req[r].sid
      <4>1. m'.transports[u] = r
        BY <2>1, <2>2, <3>1 DEF TypeOK, MapsType
      <4> QED BY <2>1, <3>1, <4>1 DEF Transport
    <3>2. CASE u # req[r].sid
      <4>1. m'.transports[u] = m.transports[u]
        BY <2>1, <3>2 DEF TypeOK, MapsType
      <4> QED BY <1>b, <2>4, <4>1
    <3> QED BY <3>1, <3>2
  <2> QED BY <1>a, <1>c, <1>g, <2>1, <2>3, <2>4
<1>3. ASSUME NEW r \in Requests, Throws(r) \/ Unpublishes(r) PROVE Named'
  <2>1. /\ m'.servers = m.servers /\ \A v \in Requests : m'.conn[v] \in {None, m.conn[v]}
        /\ \A q \in Requests \ {r} : req'[q] = req[q]
        /\ req'[r].pc # "handling"
    BY <1>3 DEF Throws, Unpublishes, SameSessions, Moves
  <2>2. \A q \in Requests : Serves(q)
    BY <1>d, <2>1 DEF Serves
  <2>3. \A u \in Sids : m'.transports[u] \in {None, m.transports[u]}
    <3>1. CASE Throws(r)
      BY <3>1 DEF Throws
    <3>2. CASE Unpublishes(r)
      BY <3>2 DEF Unpublishes, TypeOK, MapsType
    <3> QED BY <1>3, <3>1, <3>2
  <2>4. \A v \in Requests : m'.conn[v] # None => Link(v, m'.conn[v])
    BY <1>c, <2>1
  <2>5. \A u \in Sids : m'.transports[u] # None => Transport(u, m'.transports[u])
    BY <1>b, <2>3
  <2> QED BY <1>a, <1>g, <2>1, <2>2, <2>4, <2>5
<1>4. ASSUME NEW r \in Requests, NEW s \in Sids, Dispatches(r, s) PROVE Named'
  <2>1. /\ m'.transports = m.transports /\ \A q \in Requests \ {r} : req'[q] = req[q]
        /\ req'[r].sid = s
    BY <1>4 DEF Dispatches, Moves
  <2>2. ASSUME NEW u \in Sids, m'.servers[u] # None PROVE Server(u, m'.servers[u])
    <3>1. CASE m'.servers = m.servers
      BY <1>a, <2>2, <3>1
    <3>2. CASE m'.servers = [m.servers EXCEPT ![s] = r]
      <4>1. CASE u = s
        <5>1. m'.servers[u] = r
          BY <3>2, <4>1 DEF TypeOK, MapsType
        <5>2. req'[r].pc \notin Early
          BY <1>4, <2>2, <4>1 DEF Dispatches, Moves, Early
        <5> QED BY <2>1, <4>1, <5>1, <5>2 DEF Server
      <4>2. CASE u # s
        <5>1. m'.servers[u] = m.servers[u]
          BY <3>2, <4>2 DEF TypeOK, MapsType
        <5> QED BY <1>a, <2>2, <5>1
      <4> QED BY <4>1, <4>2
    <3> QED BY <1>4, <3>1, <3>2 DEF Dispatches, Reuses, Binds, Creates, SameSessions
  <2>3. ASSUME NEW v \in Requests, m'.conn[v] # None PROVE Link(v, m'.conn[v])
    <3>1. CASE m'.conn = m.conn
      BY <1>c, <2>3, <3>1
    <3>2. CASE m'.servers[s] # None /\ m'.conn = [m.conn EXCEPT ![m'.servers[s]] = r]
      <4>1. CASE v = m'.servers[s]
        <5>1. m'.conn[v] = r
          BY <3>2, <4>1 DEF TypeOK, MapsType
        <5>2. Server(s, v)
          BY <2>2, <3>2, <4>1
        <5> QED BY <1>0, <2>1, <5>1, <5>2 DEF Server, Link
      <4>2. CASE v # m'.servers[s]
        <5>1. m'.conn[v] = m.conn[v]
          BY <3>2, <4>2 DEF TypeOK, MapsType
        <5> QED BY <1>c, <2>3, <5>1
      <4> QED BY <4>1, <4>2
    <3> QED BY <1>4, <3>1, <3>2 DEF Dispatches, SameLinks
  <2>4. Serves(r)
    <3> SUFFICES ASSUME req'[r].pc = "handling" PROVE Serves(r)
      BY DEF Serves
    <3>1. m.transports[s] # None /\ req'[r].tr = m.transports[s]
      BY <1>4 DEF Dispatches, Moves
    <3>2. Transport(s, m.transports[s])
      BY <1>b, <3>1
    <3> QED BY <2>1, <3>1, <3>2 DEF Serves, Transport
  <2>5. \A q \in Requests : Serves(q)
    BY <1>d, <2>1, <2>4
  <2> QED BY <1>b, <1>g, <2>1, <2>2, <2>3, <2>5
<1>5. ASSUME NEW s \in Sids, GoesIdle(s) PROVE Named'
  <2>1. m'.servers = m.servers /\ m'.transports = m.transports /\ m'.conn = m.conn /\ req' = req
    BY <1>5 DEF GoesIdle, SameSessions, SameLinks
  <2>2. \A q \in Requests : Serves(q)
    BY <1>d, <2>1
  <2> QED BY <1>a, <1>b, <1>c, <1>g, <2>1, <2>2
<1>6. ASSUME NEW j \in Jobs, NEW s \in Sids, CleansUp(j, s) PROVE Named'
  <2>1. /\ \A u \in Sids : m'.servers[u] \in {None, m.servers[u]}
        /\ \A u \in Sids : m'.transports[u] \in {None, m.transports[u]}
        /\ \A v \in Requests : m'.conn[v] \in {None, m.conn[v]}
    BY <1>6 DEF CleansUp, Cleans, Less
  <2>2. ASSUME NEW q \in Requests PROVE Serves(q)
    <3>1. CASE req'[q] = req[q]
      BY <1>d, <3>1
    <3>2. CASE req'[q] # req[q]
      BY <1>6, <3>2 DEF CleansUp, Moves, Serves
    <3> QED BY <3>1, <3>2
  <2>3. \A u \in Sids : m'.servers[u] # None => Server(u, m'.servers[u])
    BY <1>a, <2>1
  <2>4. \A u \in Sids : m'.transports[u] # None => Transport(u, m'.transports[u])
    BY <1>b, <2>1
  <2>5. \A v \in Requests : m'.conn[v] # None => Link(v, m'.conn[v])
    BY <1>c, <2>1
  <2> QED BY <1>g, <2>2, <2>3, <2>4, <2>5
<1> QED BY <1>1, <1>2, <1>3, <1>4, <1>5, <1>6 DEF Moved

\* Clients that take turns still do.
LEMMA TurnsStep ==
    ASSUME TypeOK, Known, Turns, Moved, how' = how
    PROVE  Turns'
<1> SUFFICES ASSUME how.serial PROVE Turns'
  BY DEF Turns
<1>0. None \notin Sids
  BY SessionAssumption
<1> USE DEF InFlight
<1>t. \A r, q \in Requests :
        r # q /\ InFlight(r) /\ InFlight(q) /\ req[r].sid # None => req[r].sid # req[q].sid
  BY DEF Turns
<1>m. ASSUME NEW r \in Requests, \A q \in Requests \ {r} : req'[q] = req[q],
             \/ req'[r].pc \in {"new", "done"} \/ req'[r].sid = None
             \/ \A q \in Requests \ {r} : InFlight(q) => req[q].sid # req'[r].sid
      PROVE  Turns'
  BY <1>m, <1>t DEF Turns
<1>1. ASSUME NEW r \in Requests, Arrives(r) PROVE Turns'
  <2>1. \A q \in Requests \ {r} : req'[q] = req[q]
    BY <1>1 DEF Arrives, Moves
  <2>2. req[r].sid = None
    BY <1>1 DEF Arrives, Known
  <2>3. \/ req'[r].sid = None
        \/ \A q \in Requests \ {r} : InFlight(q) => req[q].sid # req'[r].sid
    BY <1>1, <2>2 DEF Arrives, Moves, MayArrive, Busy
  <2> QED BY <1>m, <2>1, <2>3
<1>2. ASSUME NEW r \in Requests, Passes(r) \/ Connects(r) \/ Throws(r) \/ Unpublishes(r)
      PROVE  Turns'
  <2>1. /\ \A q \in Requests \ {r} : req'[q] = req[q]
        /\ req'[r].sid = req[r].sid /\ InFlight(r)
    BY <1>2 DEF Passes, Connects, Throws, Unpublishes, Moves
  <2> QED BY <1>m, <1>t, <2>1
<1>3. ASSUME NEW r \in Requests, NEW s \in Sids, Dispatches(r, s) PROVE Turns'
  <2>1. /\ \A q \in Requests \ {r} : req'[q] = req[q]
        /\ req'[r].sid = s
    BY <1>3 DEF Dispatches, Moves
  <2>2. CASE req[r].sid = s
    <3>1. InFlight(r)
      BY <1>3 DEF Dispatches, Reuses, Binds, Creates
    <3> QED BY <1>0, <1>m, <1>t, <2>1, <2>2, <3>1
  <2>3. CASE req[r].sid # s
    <3>1. s \notin used
      BY <1>3, <2>3 DEF Dispatches, Reuses, Binds, Creates
    <3>2. \A q \in Requests \ {r} : req[q].sid # s
      BY <1>0, <3>1 DEF Known
    <3> QED BY <1>m, <2>1, <3>2
  <2> QED BY <2>2, <2>3
<1>4. ASSUME NEW s \in Sids, GoesIdle(s) PROVE Turns'
  BY <1>4, <1>t DEF GoesIdle, Turns
<1>5. ASSUME NEW j \in Jobs, NEW s \in Sids, CleansUp(j, s) PROVE Turns'
  <2>1. CASE req' = req
    BY <2>1, <1>t DEF Turns
  <2>2. CASE j \in Requests /\ Moves(j, "done", s)
    BY <1>m, <2>2 DEF Moves
  <2> QED BY <1>5, <2>1, <2>2 DEF CleansUp
<1> QED BY <1>1, <1>2, <1>3, <1>4, <1>5 DEF Moved

\* The steps of a handler but the dispatch leave what is bound to each session.
LEMMA SessionsKept ==
    ASSUME NEW r \in Requests,
           Arrives(r) \/ Passes(r) \/ Connects(r) \/ Throws(r) \/ Unpublishes(r)
    PROVE  SameSessions /\ job' = job
BY DEF Arrives, Passes, Connects, Throws, Unpublishes

\* A job that cleans up either starts or goes on with the session it has.
LEMMA CleanupOwns ==
    ASSUME TypeOK, Known, NEW j \in Jobs, NEW s \in Sids, CleansUp(j, s)
    PROVE  /\ job[j].pc # "none" => job[j].sid = s /\ req' = req
           /\ job[j].pc = "closingServer" => s \notin m'.tracked
           /\ job[j].pc = "closingTransport" => m'.transports[s] = None
           /\ \A i \in Jobs \ {j} : job'[i] = job[i]
           /\ job'[j].pc # "none" => job'[j].sid = s
           /\ \A q \in Requests : req'[q] = req[q] \/ (q = j /\ req'[q].pc = "done")
<1>1. CASE req' = req /\ ranAs' = ranAs
  BY <1>1 DEF CleansUp, Cleans, Known, Moves
<1>2. CASE j \in Requests /\ req[j].pc \in {"handling", "verifyingDelete"} /\ Moves(j, "done", s)
  <2>1. job[j].pc = "none"
    BY <1>2 DEF Known
  <2> QED BY <1>2, <2>1 DEF CleansUp, Cleans, Moves
<1> QED BY <1>1, <1>2 DEF CleansUp
-----------------------------------------------------------------------------
\* A session that loses its services is untracked, or about to be.
LEMMA ForgottenStep ==
    ASSUME TypeOK, Known, Forgotten, Moved
    PROVE  Forgotten'
<1>0. None \notin Creds
  BY SessionAssumption
<1>1. CASE /\ job' = job
           /\ \A u \in m'.tracked : u \in m.tracked \/ m'.store[u] # None
           /\ \A u \in Sids : m.store[u] # None => m'.store[u] # None
  <2> SUFFICES ASSUME NEW u \in m'.tracked
               PROVE  \/ m'.store[u] # None
                      \/ \E j \in Jobs : job[j].pc = "closingServer" /\ job[j].sid = u
    BY <1>1 DEF Forgotten, Held
  <2> QED BY <1>1 DEF Forgotten, Held, TypeOK, MapsType
<1>2. ASSUME NEW r \in Requests,
             Arrives(r) \/ Passes(r) \/ Connects(r) \/ Throws(r) \/ Unpublishes(r)
      PROVE  Forgotten'
  BY <1>1, <1>2, SessionsKept DEF SameSessions
<1>3. ASSUME NEW r \in Requests, NEW s \in Sids, Dispatches(r, s) PROVE Forgotten'
  <2>1. job' = job
    BY <1>3 DEF Dispatches
  <2>2. CASE Reuses(r, s) \/ Creates(r, s)
    BY <1>1, <2>1, <2>2 DEF Reuses, Creates, SameSessions
  <2>3. CASE Binds(r, s)
    <3>1. req[r].cred # None
      BY <2>3 DEF Binds, Known
    <3>2. m'.tracked = m.tracked \cup {s} /\ m'.store = [m.store EXCEPT ![s] = req[r].cred]
      BY <2>3 DEF Binds
    <3>3. \A u \in Sids : m'.store[u] = IF u = s THEN req[r].cred ELSE m.store[u]
      BY <3>2 DEF TypeOK, MapsType
    <3> QED BY <1>1, <2>1, <3>1, <3>2, <3>3
  <2> QED BY <1>3, <2>2, <2>3 DEF Dispatches
<1>4. ASSUME NEW s \in Sids, GoesIdle(s) PROVE Forgotten'
  BY <1>1, <1>4 DEF GoesIdle, SameSessions
<1>5. ASSUME NEW j \in Jobs, NEW s \in Sids, CleansUp(j, s) PROVE Forgotten'
  <2>1. /\ job[j].pc # "none" => job[j].sid = s
        /\ job[j].pc = "closingServer" => s \notin m'.tracked
        /\ \A i \in Jobs \ {j} : job'[i] = job[i]
        /\ job'[j].pc # "none" => job'[j].sid = s
    BY <1>5, CleanupOwns
  <2>2. /\ m'.tracked \subseteq m.tracked
        /\ \A u \in Sids \ {s} : m'.store[u] = m.store[u]
        /\ s \in m'.tracked /\ m'.store[s] = None /\ m.store[s] # None =>
             job'[j].pc = "closingServer"
    BY <1>5 DEF CleansUp, Cleans, Less
  <2> SUFFICES ASSUME NEW u \in m'.tracked, m'.store[u] = None
               PROVE  \E i \in Jobs : job'[i].pc = "closingServer" /\ job'[i].sid = u
    BY DEF Forgotten, Held
  <2>3. u \in m.tracked /\ u \in Sids
    BY <2>2 DEF TypeOK, MapsType
  <2>4. CASE m.store[u] # None
    <3>1. u = s /\ job'[j].pc = "closingServer"
      BY <2>2, <2>3, <2>4
    <3> QED BY <2>1, <3>1
  <2>5. CASE m.store[u] = None
    <3>1. PICK i \in Jobs : job[i].pc = "closingServer" /\ job[i].sid = u
      BY <2>3, <2>5 DEF Forgotten, Held
    <3>2. i # j
      BY <2>1, <3>1
    <3> QED BY <2>1, <3>1, <3>2
  <2> QED BY <2>4, <2>5
<1> QED BY <1>2, <1>3, <1>4, <1>5 DEF Moved

\* While closing does no I/O, no other handler or job moves between its start and its end.
LEMMA NoneCloses ==
    ASSUME Known, ClosesAtOnce, NEW r \in Requests, Turn(r), req[r].pc # "done",
           NEW j \in Jobs, TypeOK
    PROVE  job[j].pc = "none"
<1>1. job[j].pc \in {"none", "closingTransport", "closingServer"}
  BY DEF TypeOK
<1>2. j = r => job[j].pc = "none"
  BY DEF Known
<1>3. j # r => ~HoldsLoop(j)
  BY DEF Turn
<1> QED BY <1>1, <1>2, <1>3 DEF HoldsLoop, ClosesAtOnce, Brief

\* What is bound is tracked, when closing does no I/O.
LEMMA SweptStep ==
    ASSUME TypeOK, Known, Swept, Moved, how' = how
    PROVE  Swept'
<1> SUFFICES ASSUME ClosesAtOnce PROVE Swept'
  BY DEF Swept, ClosesAtOnce
<1>a. \A s \in Sids : m.store[s] # None => s \in m.tracked
  BY DEF Swept, Held
<1>b. \A j \in Jobs : job[j].pc = "closingServer" /\ ~job[j].drop => m.store[job[j].sid] = None
  BY DEF Swept, Held
<1>g. ASSUME \A s \in Sids : m'.store[s] # None => s \in m'.tracked,
             \A j \in Jobs :
               job'[j].pc = "closingServer" /\ ~job'[j].drop => m'.store[job'[j].sid] = None
      PROVE  Swept'
  BY <1>g DEF Swept, Held
<1>1. CASE job' = job /\ m'.store = m.store /\ m'.tracked = m.tracked
  BY <1>1, <1>a, <1>b, <1>g
<1>2. ASSUME NEW r \in Requests,
             Arrives(r) \/ Passes(r) \/ Connects(r) \/ Throws(r) \/ Unpublishes(r)
      PROVE  Swept'
  BY <1>1, <1>2, SessionsKept DEF SameSessions
<1>3. ASSUME NEW r \in Requests, NEW s \in Sids, Turn(r), Dispatches(r, s) PROVE Swept'
  <2>1. job' = job
    BY <1>3 DEF Dispatches
  <2>2. CASE Reuses(r, s) \/ Creates(r, s)
    BY <1>1, <2>1, <2>2 DEF Reuses, Creates, SameSessions
  <2>3. CASE Binds(r, s)
    <3>1. m'.tracked = m.tracked \cup {s} /\ m'.store = [m.store EXCEPT ![s] = req[r].cred]
      BY <2>3 DEF Binds
    <3>2. \A u \in Sids : m'.store[u] # None => u \in m'.tracked
      BY <1>a, <3>1 DEF TypeOK, MapsType
    <3>3. \A j \in Jobs : job'[j].pc = "none"
      BY <1>3, <2>1, <2>3, NoneCloses DEF Binds
    <3> QED BY <1>g, <3>2, <3>3
  <2> QED BY <1>3, <2>2, <2>3 DEF Dispatches
<1>4. ASSUME NEW s \in Sids, GoesIdle(s) PROVE Swept'
  BY <1>1, <1>4 DEF GoesIdle, SameSessions
<1>5. ASSUME NEW j \in Jobs, NEW s \in Sids, CleansUp(j, s) PROVE Swept'
  <2>1. /\ job[j].pc # "none" => job[j].sid = s
        /\ \A i \in Jobs \ {j} : job'[i] = job[i]
        /\ job'[j].pc # "none" => job'[j].sid = s
    BY <1>5, CleanupOwns
  <2>2. /\ m'.tracked \in {m.tracked, m.tracked \ {s}}
        /\ \A u \in Sids \ {s} : m'.store[u] = m.store[u]
        /\ m'.store[s] \in {None, m.store[s]}
        /\ job'[j].pc = "closingServer" /\ ~job'[j].drop => m'.store[s] = None
        /\ \/ m'.store[s] = None \/ m'.tracked = m.tracked
           \/ job[j].pc = "closingServer" /\ ~job[j].drop /\ m'.store = m.store
    BY <1>5 DEF CleansUp, Cleans, Less
  <2>3. \A u \in Sids : m'.store[u] # None => m.store[u] # None
    BY <2>2
  <2>4. m'.store[s] = None \/ m'.tracked = m.tracked
    BY <1>b, <2>1, <2>2
  <2>5. \A u \in Sids : m'.store[u] # None => u \in m'.tracked
    BY <1>a, <2>2, <2>3, <2>4
  <2>6. ASSUME NEW i \in Jobs, job'[i].pc = "closingServer", ~job'[i].drop
        PROVE  m'.store[job'[i].sid] = None
    <3>1. CASE i = j
      BY <2>1, <2>2, <2>6, <3>1
    <3>2. CASE i # j
      <4>1. job[i].pc = "closingServer" /\ ~job[i].drop /\ job'[i] = job[i]
        BY <2>1, <2>6, <3>2
      <4>2. job[i].sid \in Sids
        BY <4>1 DEF Known, TypeOK
      <4> QED BY <1>b, <2>3, <4>1, <4>2
    <3> QED BY <3>1, <3>2
  <2> QED BY <1>g, <2>5, <2>6
<1> QED BY <1>2, <1>3, <1>4, <1>5 DEF Moved

\* A server that is open is cached, and none is made for a session that has one.
LEMMA CachedStep ==
    ASSUME TypeOK, Known, Turns, Cached, Moved, how' = how
    PROVE  Cached'
<1> SUFFICES ASSUME ServersInTurn PROVE Cached'
  BY DEF Cached, ServersInTurn
<1>0. None \notin Requests
  BY SessionAssumption
<1>t. /\ m.openS \subseteq Requests /\ m.servers \in [Sids -> Requests \cup {None}]
  BY DEF TypeOK, MapsType
<1>a. \A v \in m.openS : \E s \in Sids : m.servers[s] = v
  BY DEF Cached
<1>b. \A q \in Requests : req[q].pc = "creatingServer" => m.servers[req[q].sid] = None
  BY DEF Cached
<1>g. ASSUME \A v \in m'.openS : \E s \in Sids : m'.servers[s] = v,
             \A q \in Requests : req'[q].pc = "creatingServer" => m'.servers[req'[q].sid] = None
      PROVE  Cached'
  BY <1>g DEF Cached
<1>1. ASSUME NEW r \in Requests,
             Arrives(r) \/ Passes(r) \/ Connects(r) \/ Throws(r) \/ Unpublishes(r)
      PROVE  Cached'
  <2>1. m'.servers = m.servers /\ m'.openS = m.openS
    BY <1>1, SessionsKept DEF SameSessions
  <2>2. /\ \A q \in Requests \ {r} : req'[q] = req[q]
        /\ req'[r].pc # "creatingServer"
    BY <1>1 DEF Arrives, Passes, Connects, Throws, Unpublishes, Moves
  <2> QED BY <1>a, <1>b, <1>g, <2>1, <2>2
<1>2. ASSUME NEW r \in Requests, NEW s \in Sids, Turn(r), Dispatches(r, s) PROVE Cached'
  <2>1. /\ \A q \in Requests \ {r} : req'[q] = req[q]
        /\ req'[r].sid = s
        /\ req'[r].pc = "creatingServer" => m'.servers[s] = None
    BY <1>2 DEF Dispatches, Moves
  <2>2. CASE m'.servers = m.servers /\ m'.openS = m.openS
    BY <1>a, <1>b, <1>g, <2>1, <2>2
  <2>3. CASE Creates(r, s)
    <3>1. /\ req[r].pc = "creatingServer" /\ req[r].sid = s
          /\ m'.servers = [m.servers EXCEPT ![s] = r] /\ m'.openS = m.openS \cup {r}
      BY <2>3 DEF Creates
    <3>2. m.servers[s] = None
      BY <1>b, <3>1
    <3>3. \A u \in Sids : m'.servers[u] = IF u = s THEN r ELSE m.servers[u]
      BY <1>t, <3>1
    <3>4. \A v \in m'.openS : \E u \in Sids : m'.servers[u] = v
      BY <1>0, <1>a, <1>t, <3>1, <3>2, <3>3
    <3>5. ASSUME NEW q \in Requests, req'[q].pc = "creatingServer"
          PROVE  m'.servers[req'[q].sid] = None
      <4>1. CASE q = r
        BY <2>1, <3>5, <4>1
      <4>2. CASE q # r
        <5>1. req'[q] = req[q] /\ req[q].pc = "creatingServer"
          BY <2>1, <3>5, <4>2
        <5>2. req[q].sid # s
          <6>1. CASE how.serial
            BY <3>1, <4>2, <5>1, <6>1 DEF Turns, InFlight, Known, WithId
          <6>2. CASE "creatingServer" \notin how.yields
            BY <1>2, <4>2, <5>1, <6>2 DEF Turn, HoldsLoop, Brief, Jobs
          <6> QED BY <6>1, <6>2 DEF ServersInTurn
        <5>3. req[q].sid \in Sids
          BY <5>1 DEF Known, WithId, TypeOK
        <5> QED BY <1>b, <3>3, <5>1, <5>2, <5>3
      <4> QED BY <4>1, <4>2
    <3> QED BY <1>g, <3>4, <3>5
  <2> QED BY <1>2, <2>2, <2>3 DEF Dispatches, Reuses, Binds, SameSessions
<1>3. ASSUME NEW s \in Sids, GoesIdle(s) PROVE Cached'
  BY <1>3, <1>a, <1>b, <1>g DEF GoesIdle, SameSessions
<1>4. ASSUME NEW j \in Jobs, NEW s \in Sids, CleansUp(j, s) PROVE Cached'
  <2>1. \A q \in Requests : req'[q] = req[q] \/ req'[q].pc = "done"
    BY <1>4, CleanupOwns
  <2>2. /\ \A u \in Sids \ {s} : m'.servers[u] = m.servers[u]
        /\ m'.servers[s] \in {None, m.servers[s]}
        /\ m'.openS = IF m'.servers[s] = m.servers[s] THEN m.openS ELSE m.openS \ {m.servers[s]}
    BY <1>4 DEF CleansUp, Cleans, Less
  <2>3. ASSUME NEW v \in m'.openS PROVE \E u \in Sids : m'.servers[u] = v
    <3>1. PICK u \in Sids : m.servers[u] = v
      BY <1>a, <2>2
    <3>2. m'.servers[u] = v
      BY <2>2, <2>3, <3>1
    <3> QED BY <3>2
  <2>4. ASSUME NEW q \in Requests, req'[q].pc = "creatingServer"
        PROVE  m'.servers[req'[q].sid] = None
    <3>1. req'[q] = req[q]
      BY <2>1, <2>4
    <3>2. req[q].sid \in Sids
      BY <2>4, <3>1 DEF Known, WithId, TypeOK
    <3> QED BY <1>b, <2>2, <2>4, <3>1, <3>2
  <2> QED BY <1>g, <2>3, <2>4
<1> QED BY <1>1, <1>2, <1>3, <1>4 DEF Moved

\* A dispatch to a session leaves no other request of it in flight.
LEMMA DispatchAlone ==
    ASSUME Turns', NEW r \in Requests, NEW s \in Sids, Dispatches(r, s), how.serial, how' = how
    PROVE  \A q \in Requests \ {r} : InFlight(q) => req[q].sid # s
<1>0. s # None
  BY SessionAssumption
<1>1. /\ \A q \in Requests \ {r} : req'[q] = req[q]
      /\ req'[r].sid = s /\ req'[r].pc \notin {"new", "done"}
  BY DEF Dispatches, Moves
<1> QED BY <1>0, <1>1 DEF Turns, InFlight

\* Every tool call of clients that take turns has its caller's services.
LEMMA ServedStep ==
    ASSUME TypeOK, Known, Turns, Turns', Served, Moved, how' = how
    PROVE  Served'
<1> SUFFICES ASSUME how.serial PROVE Served'
  BY DEF Served
<1> DEFINE Serving == {"creatingServer", "connecting", "handling"}
           Own(q)  == ranAs'[q] \in {None, req'[q].cred}
           Bound(q) == req'[q].pc \in Serving => m'.store[req'[q].sid] \in {None, req'[q].cred}
<1>a. \A q \in Requests : ranAs[q] \in {None, req[q].cred}
  BY DEF Served
<1>b. \A q \in Requests : req[q].pc \in Serving => m.store[req[q].sid] \in {None, req[q].cred}
  BY DEF Served
<1>s. \A q \in Requests : req[q].pc \in Serving => req[q].sid \in Sids
  BY DEF Known, WithId, TypeOK
<1>g. ASSUME \A q \in Requests : Own(q) /\ Bound(q) PROVE Served'
  BY <1>g DEF Served
<1>1. ASSUME NEW r \in Requests,
             Arrives(r) \/ Passes(r) \/ Connects(r) \/ Throws(r) \/ Unpublishes(r)
      PROVE  Served'
  <2>1. m'.store = m.store
    BY <1>1, SessionsKept DEF SameSessions
  <2>2. \A q \in Requests \ {r} : req'[q] = req[q] /\ ranAs'[q] = ranAs[q]
    BY <1>1 DEF Arrives, Passes, Connects, Throws, Unpublishes, Moves
  <2>3. Own(r)
    <3>1. CASE Arrives(r)
      BY <3>1 DEF Arrives, Known
    <3>2. CASE Passes(r)
      BY <1>a, <1>b, <3>2 DEF Passes
    <3>3. CASE Connects(r) \/ Throws(r) \/ Unpublishes(r)
      BY <1>a, <3>3 DEF Connects, Throws, Unpublishes
    <3> QED BY <1>1, <3>1, <3>2, <3>3
  <2>4. Bound(r)
    <3>1. CASE Connects(r)
      BY <1>b, <2>1, <3>1 DEF Connects, Moves
    <3>2. CASE Arrives(r) \/ Passes(r) \/ Throws(r) \/ Unpublishes(r)
      BY <3>2 DEF Arrives, Passes, Throws, Unpublishes, Moves
    <3> QED BY <1>1, <3>1, <3>2
  <2>5. \A q \in Requests \ {r} : Own(q) /\ Bound(q)
    BY <1>a, <1>b, <2>1, <2>2
  <2> HIDE DEF Own, Bound
  <2> QED BY <1>g, <2>3, <2>4, <2>5
<1>2. ASSUME NEW r \in Requests, NEW s \in Sids, Dispatches(r, s) PROVE Served'
  <2>1. /\ \A q \in Requests \ {r} : req'[q] = req[q]
        /\ req'[r].sid = s /\ req'[r].cred = req[r].cred /\ ranAs' = ranAs
    BY <1>2 DEF Dispatches, Moves
  <2>2. \A q \in Requests \ {r} : InFlight(q) => req[q].sid # s
    BY <1>2, DispatchAlone
  <2>3. \A q \in Requests : Own(q)
    BY <1>a, <2>1
  <2>4. m'.store[s] \in {None, req[r].cred} /\ \A u \in Sids \ {s} : m'.store[u] = m.store[u]
    <3>1. CASE Reuses(r, s)
      BY <3>1 DEF Reuses, SameSessions
    <3>2. CASE Binds(r, s)
      BY <3>2 DEF Binds, TypeOK, MapsType
    <3>3. CASE Creates(r, s)
      BY <1>b, <3>3 DEF Creates
    <3> QED BY <1>2, <3>1, <3>2, <3>3 DEF Dispatches
  <2>5. Bound(r)
    BY <2>1, <2>4
  <2>6. ASSUME NEW q \in Requests \ {r} PROVE Bound(q)
    <3> SUFFICES ASSUME req[q].pc \in Serving PROVE m'.store[req[q].sid] \in {None, req[q].cred}
      BY <2>1
    <3>1. req[q].sid \in Sids \ {s}
      BY <1>s, <2>2 DEF InFlight
    <3> QED BY <1>b, <2>4, <3>1
  <2> HIDE DEF Own, Bound
  <2> QED BY <1>g, <2>3, <2>5, <2>6
<1>3. ASSUME NEW s \in Sids, GoesIdle(s) PROVE Served'
  BY <1>3, <1>a, <1>b, <1>g DEF GoesIdle, SameSessions
<1>4. ASSUME NEW j \in Jobs, NEW s \in Sids, CleansUp(j, s) PROVE Served'
  <2>1. \A q \in Requests : req'[q] = req[q] \/ (q = j /\ req'[q].pc = "done")
    BY <1>4, CleanupOwns
  <2>2. \A u \in Sids : m'.store[u] \in {None, m.store[u]}
    BY <1>4 DEF CleansUp, Cleans, Less
  <2>3. \A q \in Requests : Bound(q)
    BY <1>b, <1>s, <2>1, <2>2
  <2>4. \A q \in Requests : Own(q)
    <3>1. CASE req' = req /\ ranAs' = ranAs
      BY <1>a, <3>1
    <3>2. CASE /\ j \in Requests /\ req[j].pc \in {"handling", "verifyingDelete"} /\ req[j].sid = s
               /\ Moves(j, "done", s) /\ req'[j].cred = req[j].cred
               /\ ranAs'[j] = ranAs[j] \/ (req[j].pc = "handling" /\ ranAs'[j] = m.store[s])
      <4>1. \A q \in Requests \ {j} : req'[q] = req[q] /\ ranAs'[q] = ranAs[q]
        BY <3>2 DEF Moves
      <4>2. ranAs'[j] \in {None, req[j].cred}
        BY <1>a, <1>b, <3>2
      <4> QED BY <1>a, <3>2, <4>1, <4>2
    <3> QED BY <1>4, <3>1, <3>2 DEF CleansUp
  <2> HIDE DEF Own, Bound
  <2> QED BY <1>g, <2>3, <2>4
<1> QED BY <1>1, <1>2, <1>3, <1>4 DEF Moved

\* Among clients that take turns, a server is connected to the published transport of
\* its session or to the one being connected, and unpublishing follows a close.
LEMMA WiredStep ==
    ASSUME TypeOK, TypeOK', Known, Named, Named', Turns, Turns', Wired, Moved, how' = how
    PROVE  Wired'
<1> SUFFICES ASSUME how.serial PROVE Wired'
  BY DEF Wired
<1>0. None \notin Requests \cup Sids
  BY SessionAssumption
<1>t. /\ m.servers \in [Sids -> Requests \cup {None}]
      /\ m.transports \in [Sids -> Requests \cup {None}]
      /\ m.conn \in [Requests -> Requests \cup {None}]
  BY DEF TypeOK, MapsType
<1>u. /\ m'.servers \in [Sids -> Requests \cup {None}]
      /\ m'.transports \in [Sids -> Requests \cup {None}]
      /\ m'.conn \in [Requests -> Requests \cup {None}]
  BY DEF TypeOK, MapsType
<1>s. \A q \in Requests : req[q].pc \in {"connecting", "handling", "failing"} => req[q].sid \in Sids
  BY DEF Known, WithId, TypeOK
<1> DEFINE Wire(s) == m.servers[s] # None /\ m.conn[m.servers[s]] # None =>
                        \/ m.conn[m.servers[s]] = m.transports[s]
                        \/ LET t == m.conn[m.servers[s]]
                           IN  req[t].pc = "connecting" /\ req[t].sid = s
           Wire1(s) == m'.servers[s] # None /\ m'.conn[m'.servers[s]] # None =>
                        \/ m'.conn[m'.servers[s]] = m'.transports[s]
                        \/ LET t == m'.conn[m'.servers[s]]
                           IN  req'[t].pc = "connecting" /\ req'[t].sid = s
           End(q) == /\ req[q].pc = "connecting" => m.transports[req[q].sid] = None
                     /\ req[q].pc = "handling" => m.transports[req[q].sid] \in {None, req[q].tr}
                     /\ req[q].pc = "failing" /\ m.servers[req[q].sid] # None =>
                          m.conn[m.servers[req[q].sid]] = None
           End1(q) == /\ req'[q].pc = "connecting" => m'.transports[req'[q].sid] = None
                      /\ req'[q].pc = "handling" =>
                           m'.transports[req'[q].sid] \in {None, req'[q].tr}
                      /\ req'[q].pc = "failing" /\ m'.servers[req'[q].sid] # None =>
                           m'.conn[m'.servers[req'[q].sid]] = None
<1>a. (\A s \in Sids : Wire(s)) /\ (\A q \in Requests : End(q))
  BY DEF Wired
<1>g. ASSUME \A s \in Sids : Wire1(s), \A q \in Requests : End1(q) PROVE Wired'
  BY <1>g DEF Wired
\* What lessens the maps of a handler that stays keeps what it knows.
<1>e. ASSUME NEW q \in Requests, req'[q] = req[q],
             req[q].sid \in Sids =>
               /\ m'.transports[req[q].sid] \in {None, m.transports[req[q].sid]}
               /\ m'.servers[req[q].sid] \in {None, m.servers[req[q].sid]},
             \A v \in Requests : m'.conn[v] \in {None, m.conn[v]}
      PROVE  End1(q)
  <2>1. End(q)
    BY <1>a
  <2>2. req[q].sid \in Sids => m.servers[req[q].sid] \in Requests \cup {None}
    BY <1>t
  <2> QED BY <1>e, <1>s, <2>1, <2>2
<1>w. ASSUME NEW s \in Sids, m'.servers[s] \in {None, m.servers[s]},
             \A v \in Requests : m'.conn[v] \in {None, m.conn[v]},
             m'.servers[s] = None \/ m'.transports[s] = m.transports[s],
             \A q \in Requests : req[q].pc = "connecting" => req'[q] = req[q]
      PROVE  Wire1(s)
  <2> SUFFICES ASSUME m'.servers[s] # None, m'.conn[m'.servers[s]] # None PROVE Wire1(s)
    OBVIOUS
  <2>1. m'.servers[s] = m.servers[s] /\ m.servers[s] \in Requests
    BY <1>t, <1>w
  <2>2. m'.conn[m'.servers[s]] = m.conn[m.servers[s]] /\ m.conn[m.servers[s]] \in Requests
    BY <1>t, <1>w, <2>1
  <2>3. Wire(s)
    BY <1>a
  <2> QED BY <1>w, <2>1, <2>2, <2>3
<1>1. ASSUME NEW r \in Requests, Arrives(r) \/ Passes(r) PROVE Wired'
  <2>1. m'.servers = m.servers /\ m'.transports = m.transports /\ m'.conn = m.conn
    BY <1>1 DEF Arrives, Passes, SameSessions, SameLinks
  <2>2. /\ \A q \in Requests \ {r} : req'[q] = req[q]
        /\ req[r].pc # "connecting"
        /\ req'[r].pc \notin {"connecting", "handling", "failing"}
    BY <1>1 DEF Arrives, Passes, Moves
  <2>3. \A s \in Sids : Wire1(s)
    BY <1>w, <2>1, <2>2
  <2>4. \A q \in Requests : End1(q)
    BY <1>e, <2>1, <2>2
  <2> HIDE DEF Wire1, End1
  <2> QED BY <1>g, <2>3, <2>4
<1>2. ASSUME NEW r \in Requests, Connects(r) PROVE Wired'
  <2> DEFINE s == req[r].sid
  <2>1. /\ req[r].pc = "connecting" /\ \A q \in Requests \ {r} : req'[q] = req[q]
        /\ req'[r].pc = "handling" /\ req'[r].sid = s /\ req'[r].tr = req[r].tr
        /\ m'.transports = [m.transports EXCEPT ![s] = r]
        /\ m'.servers = m.servers /\ m'.conn = m.conn
    BY <1>2 DEF Connects, Moves, SameSessions
  <2>2. s \in Sids /\ req[r].tr = r /\ m.transports[s] = None
    BY <1>a, <1>s, <2>1 DEF Known
  <2> HIDE DEF s
  <2>3. m'.transports[s] = r /\ \A u \in Sids \ {s} : m'.transports[u] = m.transports[u]
    BY <1>t, <2>1, <2>2
  <2>4. \A q \in Requests \ {r} : InFlight(q) => req[q].sid # s
    BY <1>0, <2>1, <2>2 DEF Turns, InFlight, s
  <2>5. Wire1(s)
    <3> SUFFICES ASSUME m.servers[s] # None, m.conn[m.servers[s]] # None
                 PROVE  m.conn[m.servers[s]] = r
      BY <2>1, <2>3
    <3>1. Wire(s) /\ m.conn[m.servers[s]] \in Requests
      BY <1>a, <1>t, <2>2
    <3>2. req[m.conn[m.servers[s]]].pc = "connecting" /\ req[m.conn[m.servers[s]]].sid = s
      BY <2>2, <3>1
    <3> QED BY <2>4, <3>1, <3>2 DEF InFlight
  <2>6. ASSUME NEW u \in Sids \ {s} PROVE Wire1(u)
    <3> SUFFICES ASSUME m.servers[u] # None, m.conn[m.servers[u]] # None PROVE Wire1(u)
      BY <2>1
    <3>1. Wire(u)
      BY <1>a
    <3>2. m.conn[m.servers[u]] \in Requests
      BY <1>t
    <3> QED BY <2>1, <2>3, <3>1, <3>2 DEF s
  <2>7. End1(r)
    BY <2>1, <2>2, <2>3
  <2>8. ASSUME NEW q \in Requests \ {r} PROVE End1(q)
    <3>1. CASE req[q].pc \in {"connecting", "handling", "failing"}
      <4>1. req[q].sid \in Sids \ {s}
        BY <1>s, <2>4, <3>1 DEF InFlight
      <4> QED BY <1>e, <2>1, <2>3, <4>1
    <3>2. CASE req[q].pc \notin {"connecting", "handling", "failing"}
      BY <2>1, <3>2
    <3> QED BY <3>1, <3>2
  <2> HIDE DEF Wire1, End1
  <2> QED BY <1>g, <2>5, <2>6, <2>7, <2>8
<1>3. ASSUME NEW r \in Requests, Throws(r) PROVE Wired'
  <2> DEFINE s == req[r].sid
  <2>1. /\ req[r].pc = "handling" /\ \A q \in Requests \ {r} : req'[q] = req[q]
        /\ req'[r].pc = "failing" /\ req'[r].sid = s
        /\ m'.servers = m.servers /\ m'.transports = m.transports
        /\ \A v \in Requests : m'.conn[v] = IF m.conn[v] = req[r].tr THEN None ELSE m.conn[v]
    BY <1>3 DEF Throws, Moves, SameSessions
  <2>2. s \in Sids
    BY <1>s, <2>1
  <2>3. \A u \in Sids : Wire1(u)
    BY <1>w, <2>1
  <2>4. \A q \in Requests \ {r} : End1(q)
    BY <1>e, <2>1
  <2>5. End1(r)
    <3> HIDE DEF s
    <3> SUFFICES ASSUME m.servers[s] # None PROVE m'.conn[m.servers[s]] = None
      BY <2>1
    <3>1. m.servers[s] \in Requests /\ m.conn[m.servers[s]] \in Requests \cup {None}
      BY <1>t, <2>2
    <3>2. CASE m.conn[m.servers[s]] = None
      BY <2>1, <3>1, <3>2
    <3>3. CASE m.conn[m.servers[s]] # None
      <4> DEFINE t == m.conn[m.servers[s]]
      <4>1. t = m.transports[s] \/ (req[t].pc = "connecting" /\ req[t].sid = s)
        BY <1>a, <2>2, <3>3
      <4>2. ~(req[t].pc = "connecting" /\ req[t].sid = s)
        BY <1>0, <2>1, <2>2, <3>1, <3>3 DEF Turns, InFlight, s
      <4>3. m.transports[s] \in {None, req[r].tr}
        BY <1>a, <2>1 DEF s
      <4> QED BY <2>1, <3>1, <3>3, <4>1, <4>2, <4>3
    <3> QED BY <3>1, <3>2, <3>3
  <2> HIDE DEF Wire1, End1
  <2> QED BY <1>g, <2>3, <2>4, <2>5
<1>4. ASSUME NEW r \in Requests, Unpublishes(r) PROVE Wired'
  <2> DEFINE s == req[r].sid
  <2>1. /\ req[r].pc = "failing" /\ \A q \in Requests \ {r} : req'[q] = req[q]
        /\ req'[r].pc = "done"
        /\ m'.servers = m.servers /\ m'.conn = m.conn
        /\ m'.transports = [m.transports EXCEPT ![s] = None]
    BY <1>4 DEF Unpublishes, Moves, SameSessions
  <2>2. s \in Sids /\ (m.servers[s] # None => m.conn[m.servers[s]] = None)
    BY <1>a, <1>s, <2>1
  <2> HIDE DEF s
  <2>3. \A u \in Sids : m'.transports[u] \in {None, m.transports[u]}
    BY <1>t, <2>1
  <2>4. Wire1(s)
    BY <2>1, <2>2
  <2>5. \A u \in Sids \ {s} : Wire1(u)
    <3>1. \A u \in Sids \ {s} : m'.transports[u] = m.transports[u]
      BY <1>t, <2>1
    <3> QED BY <1>w, <2>1, <3>1
  <2>6. \A q \in Requests \ {r} : End1(q)
    BY <1>e, <2>1, <2>3
  <2>7. End1(r)
    BY <2>1
  <2> HIDE DEF Wire1, End1
  <2> QED BY <1>g, <2>4, <2>5, <2>6, <2>7
<1>5. ASSUME NEW r \in Requests, NEW s \in Sids, Dispatches(r, s) PROVE Wired'
  <2> DEFINE v == m'.servers[s]
  <2>1. /\ \A q \in Requests \ {r} : req'[q] = req[q]
        /\ req'[r].sid = s /\ m'.transports = m.transports /\ req[r].pc \in Early
        /\ \A u \in Sids \ {s} : m'.servers[u] = m.servers[u]
    BY <1>5, <1>t DEF Dispatches, Moves, Reuses, Binds, Creates, SameSessions, Early
  <2>2. \A q \in Requests \ {r} : InFlight(q) => req[q].sid # s
    BY <1>5, DispatchAlone
  <2>3. v # None /\ m.conn[v] # None => m.conn[v] = m.transports[s]
    <3>1. CASE m'.servers = m.servers
      <4> SUFFICES ASSUME v # None, m.conn[v] # None PROVE m.conn[v] = m.transports[s]
        OBVIOUS
      <4>1. m.conn[v] \in Requests /\ v = m.servers[s]
        BY <1>t, <3>1
      <4>2. ~(req[m.conn[v]].pc = "connecting" /\ req[m.conn[v]].sid = s)
        BY <2>1, <2>2, <4>1 DEF InFlight, Early
      <4>3. Wire(s)
        BY <1>a
      <4> QED BY <4>1, <4>2, <4>3
    <3>2. CASE Creates(r, s)
      <4>1. v = r /\ req[r].pc \in Early
        BY <1>t, <2>1, <3>2 DEF Creates
      <4>2. m.conn[r] = None
        BY <4>1 DEF Named
      <4> QED BY <4>1, <4>2
    <3> QED BY <1>5, <3>1, <3>2 DEF Dispatches, Reuses, Binds, SameSessions
  <2>4. \A u \in Sids \ {s} : m.servers[u] # None => m'.conn[m.servers[u]] = m.conn[m.servers[u]]
    <3>1. CASE m'.conn = m.conn
      BY <3>1
    <3>2. CASE v # None /\ m'.conn = [m.conn EXCEPT ![v] = r]
      <4>1. \A u \in Sids \ {s} : m.servers[u] # None => m.servers[u] # v
        BY <2>1, <3>2 DEF Named
      <4>2. \A u \in Sids : m.servers[u] # None => m.servers[u] \in Requests
        BY <1>t
      <4> QED BY <1>t, <3>2, <4>1, <4>2
    <3> QED BY <1>5, <3>1, <3>2 DEF Dispatches, SameLinks
  <2>5. ASSUME NEW u \in Sids \ {s} PROVE Wire1(u)
    <3> SUFFICES ASSUME m.servers[u] # None, m.conn[m.servers[u]] # None PROVE Wire1(u)
      BY <2>1, <2>4
    <3>1. Wire(u) /\ m.conn[m.servers[u]] \in Requests
      BY <1>a, <1>t
    <3>2. req[m.conn[m.servers[u]]].pc = "connecting" =>
            req'[m.conn[m.servers[u]]] = req[m.conn[m.servers[u]]]
      BY <2>1, <3>1 DEF Early
    <3> QED BY SMTT(30), <2>1, <2>4, <3>1, <3>2
  <2>6. ASSUME NEW q \in Requests \ {r} PROVE End1(q)
    <3>1. CASE req[q].pc \in {"connecting", "handling", "failing"}
      <4>1. req[q].sid \in Sids \ {s} /\ req'[q] = req[q]
        BY <1>s, <2>1, <2>2, <3>1 DEF InFlight
      <4>2. /\ m'.servers[req[q].sid] = m.servers[req[q].sid]
            /\ m'.transports[req[q].sid] = m.transports[req[q].sid]
        BY <2>1, <4>1
      <4>3. m.servers[req[q].sid] # None =>
              m'.conn[m.servers[req[q].sid]] = m.conn[m.servers[req[q].sid]]
        BY <2>4, <4>1
      <4>4. End(q)
        BY <1>a
      <4> QED BY <4>1, <4>2, <4>3, <4>4
    <3>2. CASE req[q].pc \notin {"connecting", "handling", "failing"}
      BY <2>1, <3>2
    <3> QED BY <3>1, <3>2
  <2>7. Wire1(s) /\ End1(r)
    <3> USE <2>1, <2>3 DEF Moves, SameLinks
    <3>1. CASE m'.servers[s] = None /\ Moves(r, "creatingServer", s) /\ SameLinks
      BY <3>1
    <3>2. CASE /\ m'.servers[s] # None /\ m.transports[s] # None /\ Moves(r, "handling", s)
               /\ req'[r].tr = m.transports[s] /\ SameLinks
      BY <3>2
    <3>3. CASE /\ m'.servers[s] # None /\ m.transports[s] = None /\ Moves(r, "connecting", s)
               /\ req'[r].tr = r
               /\ m.conn[m'.servers[s]] = None
               /\ m'.conn = [m.conn EXCEPT ![m'.servers[s]] = r] /\ m'.openT = m.openT \cup {r}
      <4>1. v \in Requests
        BY <1>u, <3>3
      <4>2. m'.conn[v] = r
        BY <1>t, <3>3, <4>1
      <4> QED BY <3>3, <4>2
    <3>4. CASE /\ m'.servers[s] # None /\ m.transports[s] = None /\ Moves(r, "failing", s)
               /\ m.conn[m'.servers[s]] # None /\ SameLinks
      BY <3>4
    <3> QED BY <1>5, <3>1, <3>2, <3>3, <3>4 DEF Dispatches
  <2> HIDE DEF Wire1, End1
  <2> QED BY <1>g, <2>5, <2>6, <2>7
<1>6. ASSUME NEW s \in Sids, GoesIdle(s) PROVE Wired'
  <2>1. m'.servers = m.servers /\ m'.transports = m.transports /\ m'.conn = m.conn /\ req' = req
    BY <1>6 DEF GoesIdle, SameSessions, SameLinks
  <2>2. (\A u \in Sids : Wire1(u)) /\ \A q \in Requests : End1(q)
    BY <1>e, <1>w, <2>1
  <2> HIDE DEF Wire1, End1
  <2> QED BY <1>g, <2>2
<1>7. ASSUME NEW j \in Jobs, NEW s \in Sids, CleansUp(j, s) PROVE Wired'
  <2>1. \A q \in Requests :
          \/ req'[q] = req[q]
          \/ req[q].pc # "connecting" /\ req'[q].pc = "done"
    BY <1>7 DEF CleansUp, Moves
  <2>2. /\ \A u \in Sids \ {s} :
             m'.servers[u] = m.servers[u] /\ m'.transports[u] = m.transports[u]
        /\ m'.servers[s] \in {None, m.servers[s]} /\ m'.transports[s] \in {None, m.transports[s]}
        /\ \A v \in Requests : m'.conn[v] \in {None, m.conn[v]}
        /\ m'.servers[s] = None \/ m'.transports[s] = m.transports[s]
    BY <1>7 DEF CleansUp, Cleans, Less
  <2>3. \A u \in Sids : Wire1(u)
    <3> HIDE DEF Wire1
    <3> QED BY <1>w, <2>1, <2>2
  <2>4. ASSUME NEW q \in Requests PROVE End1(q)
    <3>1. CASE req'[q] = req[q]
      BY <1>e, <2>2, <3>1
    <3>2. CASE req'[q].pc = "done"
      BY <3>2
    <3> QED BY <2>1, <3>1, <3>2
  <2> HIDE DEF Wire1, End1
  <2> QED BY <1>g, <2>3, <2>4
<1> QED BY <1>1, <1>2, <1>3, <1>4, <1>5, <1>6, <1>7 DEF Moved

\* Where connecting holds the loop or clients take turns, and closing does no I/O, no
\* transport is being connected for a session that is cleaned up.
LEMMA NoneConnects ==
    ASSUME TypeOK, Known, Turns, Working, ClosesAtOnce,
           ConnectsInTurn,
           NEW j \in Jobs, NEW s \in Sids, Turn(j), CleansUp(j, s),
           NEW q \in Requests, req[q].pc = "connecting"
    PROVE  req[q].sid # s
<1>0. None \notin Sids /\ Requests \cap Sweepers = {}
  BY SessionAssumption
<1>1. q # j
  BY <1>0 DEF CleansUp, Known, Moves
<1>2. CASE "connecting" \notin how.yields
  BY <1>1, <1>2 DEF Turn, HoldsLoop, Brief, Jobs
<1>3. CASE how.serial
  <2>1. CASE j \in Sweepers /\ s \in m.idle
    BY <1>3, <2>1 DEF Working, Fresh
  <2>2. CASE job[j].pc # "none" /\ job[j].sid = s
    BY <1>3, <2>2 DEF Working
  <2>3. CASE j \in Requests /\ req[j].pc \in {"handling", "verifyingDelete"} /\ req[j].sid = s
    BY <1>0, <1>1, <1>3, <2>3 DEF Turns, InFlight
  <2> QED BY <2>1, <2>2, <2>3 DEF CleansUp
<1> QED BY <1>2, <1>3 DEF ConnectsInTurn

\* A published transport is open, or about to be unpublished.
LEMMA WorkingStep ==
    ASSUME TypeOK, TypeOK', Known, Known', Named, Turns, Working, Moved, how' = how
    PROVE  Working'
<1> SUFFICES ASSUME ClosesAtOnce, ConnectsInTurn PROVE Working'
  BY DEF Working, ClosesAtOnce, ConnectsInTurn
<1>0. None \notin Requests \cup Sids /\ Requests \cap Sweepers = {}
  BY SessionAssumption
<1>t. /\ \A s \in Sids : m.servers[s] \in Requests \cup {None}
      /\ \A s \in Sids : m.transports[s] \in Requests \cup {None}
      /\ \A v \in Requests : m.conn[v] \in Requests \cup {None}
      /\ m.idle \subseteq Sids /\ m.openT \subseteq Requests
  BY DEF TypeOK, MapsType
<1> DEFINE Open(q) == req'[q].pc = "connecting" => q \in m'.openT
           Awake(q) == how.serial /\ req'[q].pc \in Fresh => req'[q].sid \notin m'.idle
           Broken(u) == m'.transports[u] # None /\ m'.transports[u] \notin m'.openT
           Noted(u) == \/ \E q \in Requests : req'[q].pc = "failing" /\ req'[q].sid = u
                       \/ \E i \in Jobs : job'[i].pc = "closingTransport" /\ job'[i].sid = u
           Apart(q, i) == req'[q].pc = "connecting" /\ job'[i].pc # "none" =>
                            job'[i].sid # req'[q].sid
<1>a. \A q \in Requests : req[q].pc = "connecting" => q \in m.openT
  BY DEF Working
<1>b. \A q \in Requests : how.serial /\ req[q].pc \in Fresh => req[q].sid \notin m.idle
  BY DEF Working
<1>c. \A u \in Sids : m.transports[u] # None /\ m.transports[u] \notin m.openT =>
        \/ \E q \in Requests : req[q].pc = "failing" /\ req[q].sid = u
        \/ \E i \in Jobs : job[i].pc = "closingTransport" /\ job[i].sid = u
  BY DEF Working
<1>d. \A q \in Requests, i \in Jobs :
        req[q].pc = "connecting" /\ job[i].pc # "none" => job[i].sid # req[q].sid
  BY DEF Working
<1>g. ASSUME \A q \in Requests : Open(q) /\ Awake(q) /\ \A i \in Jobs : Apart(q, i),
             \A u \in Sids : Broken(u) => Noted(u)
      PROVE  Working'
  BY <1>g DEF Working
\* A step of a handler that leaves no job and no failing handler to be missed.
<1>h. ASSUME NEW r \in Requests, \A q \in Requests \ {r} : req'[q] = req[q],
             m.openT \subseteq m'.openT, Open(r), Awake(r),
             m'.idle \subseteq m.idle, job' = job, req[r].pc # "failing", req[r].pc # "done",
             \A u \in Sids : m'.transports[u] \in {None, m.transports[u]}
                             \/ m'.transports[u] \in m'.openT,
             Turn(r)
      PROVE  Working'
  <2>1. \A q \in Requests : Open(q) /\ Awake(q)
    BY <1>a, <1>b, <1>h
  <2>2. \A i \in Jobs : job'[i].pc = "none"
    BY <1>h, NoneCloses
  <2>3. \A q \in Requests : \A i \in Jobs : Apart(q, i)
    BY <2>2
  <2>4. ASSUME NEW u \in Sids, Broken(u) PROVE Noted(u)
    <3>1. m.transports[u] # None /\ m.transports[u] \notin m.openT
      BY <1>h, <2>4
    <3>2. PICK q \in Requests : req[q].pc = "failing" /\ req[q].sid = u
      BY <1>c, <1>h, <2>2, <3>1
    <3> QED BY <1>h, <3>2
  <2> HIDE DEF Open, Awake, Apart, Broken, Noted
  <2> QED BY <1>g, <2>1, <2>3, <2>4
<1>1. ASSUME NEW r \in Requests, Turn(r), Arrives(r) \/ Passes(r) PROVE Working'
  <2>1. /\ m'.transports = m.transports /\ m'.openT = m.openT /\ job' = job
        /\ \A q \in Requests \ {r} : req'[q] = req[q]
        /\ req[r].pc \notin {"failing", "done"}
        /\ req'[r].pc \notin {"connecting", "creatingServer"}
    BY <1>1 DEF Arrives, Passes, SameLinks, Moves, InFlight
  <2>2. m'.idle \subseteq m.idle
    BY <1>1 DEF Arrives, Passes
  <2>3. req'[r].pc = "authenticating" => req'[r].sid \notin m'.idle
    <3>1. CASE Arrives(r)
      BY <1>0, <1>t, <2>2, <3>1 DEF Arrives, Known, Moves
    <3>2. CASE Passes(r)
      BY <3>2 DEF Passes, Moves
    <3> QED BY <1>1, <3>1, <3>2
  <2>4. Open(r) /\ Awake(r)
    BY <2>1, <2>3 DEF Fresh
  <2> HIDE DEF Open, Awake
  <2> QED BY <1>1, <1>h, <2>1, <2>2, <2>4
<1>2. ASSUME NEW r \in Requests, Turn(r), Connects(r) PROVE Working'
  <2>1. /\ m'.openT = m.openT /\ job' = job /\ m'.idle = m.idle
        /\ \A q \in Requests \ {r} : req'[q] = req[q]
        /\ req[r].pc = "connecting" /\ req'[r].pc = "handling"
        /\ m'.transports = [m.transports EXCEPT ![req[r].sid] = r]
    BY <1>2 DEF Connects, Moves
  <2>2. r \in m'.openT
    BY <1>a, <2>1
  <2>3. \A u \in Sids : m'.transports[u] = m.transports[u] \/ m'.transports[u] = r
    BY <2>1 DEF TypeOK, MapsType
  <2>4. Open(r) /\ Awake(r)
    BY <2>1 DEF Fresh
  <2> HIDE DEF Open, Awake
  <2> QED BY <1>2, <1>h, <2>1, <2>2, <2>3, <2>4
<1>3. ASSUME NEW r \in Requests, Turn(r), Throws(r) PROVE Working'
  <2> DEFINE s == req[r].sid
             x == req[r].tr
  <2>1. /\ m'.openT = m.openT \ {x} /\ job' = job /\ m'.idle = m.idle
        /\ \A q \in Requests \ {r} : req'[q] = req[q]
        /\ req[r].pc = "handling" /\ req'[r].pc = "failing" /\ req'[r].sid = s
        /\ m'.transports = m.transports
    BY <1>3 DEF Throws, Moves
  <2>2. s # None /\ req[x].sid = s /\ s \in Sids
    BY <2>1 DEF Named, Known, WithId, TypeOK
  <2>3. ASSUME NEW q \in Requests PROVE Open(q) /\ Awake(q)
    <3>1. CASE q = r
      BY <2>1, <3>1 DEF Fresh
    <3>2. CASE q # r
      <4>1. req'[q] = req[q]
        BY <2>1, <3>2
      <4>2. ASSUME req[q].pc = "connecting" PROVE q # x
        <5>1. CASE how.serial
          BY <2>1, <2>2, <3>2, <4>2, <5>1 DEF Turns, InFlight
        <5>2. CASE "connecting" \notin how.yields
          BY <1>3, <3>2, <4>2, <5>2 DEF Turn, HoldsLoop, Brief, Jobs
        <5> QED BY <5>1, <5>2 DEF ConnectsInTurn
      <4> QED BY <1>a, <1>b, <2>1, <4>1, <4>2
    <3> QED BY <3>1, <3>2
  <2>4. \A i \in Jobs : job'[i].pc = "none"
    BY <1>3, <2>1, NoneCloses
  <2>5. ASSUME NEW u \in Sids, Broken(u) PROVE Noted(u)
    <3>1. CASE m.transports[u] \notin m.openT
      <4>1. PICK q \in Requests : req[q].pc = "failing" /\ req[q].sid = u
        BY <1>c, <2>1, <2>4, <2>5, <3>1
      <4> QED BY <2>1, <4>1
    <3>2. CASE m.transports[u] \in m.openT
      <4>1. m.transports[u] = x
        BY <2>1, <2>5, <3>2
      <4>2. req[m.transports[u]].sid = u
        BY <2>1, <2>5 DEF Named
      <4> QED BY <2>1, <2>2, <4>1, <4>2
    <3> QED BY <3>1, <3>2
  <2>6. \A q \in Requests : \A i \in Jobs : Apart(q, i)
    BY <2>4
  <2> HIDE DEF Open, Awake, Broken, Noted, Apart
  <2> QED BY <1>g, <2>3, <2>5, <2>6
<1>4. ASSUME NEW r \in Requests, Turn(r), Unpublishes(r) PROVE Working'
  <2> DEFINE s == req[r].sid
  <2>1. /\ m'.openT = m.openT /\ job' = job /\ m'.idle = m.idle
        /\ \A q \in Requests \ {r} : req'[q] = req[q]
        /\ req[r].pc = "failing" /\ req'[r].pc = "done"
        /\ m'.transports = [m.transports EXCEPT ![s] = None]
    BY <1>4 DEF Unpublishes, Moves
  <2>2. \A u \in Sids : m'.transports[u] = IF u = s THEN None ELSE m.transports[u]
    BY <2>1 DEF TypeOK, MapsType
  <2>3. \A q \in Requests : Open(q) /\ Awake(q)
    BY <1>a, <1>b, <2>1 DEF Fresh
  <2>4. \A i \in Jobs : job'[i].pc = "none"
    BY <1>4, <2>1, NoneCloses
  <2>5. ASSUME NEW u \in Sids, Broken(u) PROVE Noted(u)
    <3>1. u # s /\ m.transports[u] # None /\ m.transports[u] \notin m.openT
      BY <2>1, <2>2, <2>5
    <3>2. PICK q \in Requests : req[q].pc = "failing" /\ req[q].sid = u
      BY <1>c, <2>1, <2>4, <3>1
    <3> QED BY <2>1, <3>1, <3>2
  <2>6. \A q \in Requests : \A i \in Jobs : Apart(q, i)
    BY <2>4
  <2> HIDE DEF Open, Awake, Broken, Noted, Apart
  <2> QED BY <1>g, <2>3, <2>5, <2>6
<1>5. ASSUME NEW r \in Requests, NEW s \in Sids, Turn(r), Dispatches(r, s) PROVE Working'
  <2>1. /\ m'.transports = m.transports /\ job' = job
        /\ \A q \in Requests \ {r} : req'[q] = req[q]
        /\ req[r].pc \notin {"failing", "done"} /\ req'[r].sid = s
    BY <1>5 DEF Dispatches, Moves, Reuses, Binds, Creates
  <2>2. m.openT \subseteq m'.openT /\ Open(r)
    BY <1>5 DEF Dispatches, Moves, SameLinks
  <2>3. m'.idle \subseteq m.idle /\ (how.serial => s \notin m'.idle)
    <3>1. CASE Reuses(r, s) \/ Binds(r, s)
      BY <3>1 DEF Reuses, Binds
    <3>2. CASE Creates(r, s)
      BY <1>b, <3>2 DEF Creates, Fresh
    <3> QED BY <1>5, <3>1, <3>2 DEF Dispatches
  <2>4. Awake(r)
    BY <2>1, <2>3
  <2> HIDE DEF Open, Awake
  <2> QED BY <1>5, <1>h, <2>1, <2>2, <2>3, <2>4
<1>6. ASSUME NEW s \in Sids, GoesIdle(s) PROVE Working'
  <2>1. /\ m'.transports = m.transports /\ m'.openT = m.openT /\ job' = job /\ req' = req
        /\ m'.idle = m.idle \cup {s}
        /\ \A q \in Requests : InFlight(q) /\ req[q].sid = s => req[q].pc = "handling"
    BY <1>6 DEF GoesIdle, SameLinks
  <2>2. \A q \in Requests : Open(q) /\ Awake(q)
    BY <1>a, <1>b, <2>1 DEF Fresh, InFlight
  <2>3. \A q \in Requests : \A i \in Jobs : Apart(q, i)
    BY <1>d, <2>1
  <2>4. \A u \in Sids : Broken(u) => Noted(u)
    BY <1>c, <2>1
  <2> HIDE DEF Open, Awake, Broken, Noted, Apart
  <2> QED BY <1>g, <2>2, <2>3, <2>4
<1>7. ASSUME NEW j \in Jobs, NEW s \in Sids, Turn(j), CleansUp(j, s) PROVE Working'
  <2>1. /\ job[j].pc # "none" => job[j].sid = s
        /\ job[j].pc = "closingTransport" => m'.transports[s] = None
        /\ \A i \in Jobs \ {j} : job'[i] = job[i]
        /\ job'[j].pc # "none" => job'[j].sid = s
    BY <1>7, CleanupOwns
  <2>2. \A q \in Requests :
          \/ req'[q] = req[q]
          \/ req[q].pc # "failing" /\ req'[q].pc = "done"
    BY <1>7 DEF CleansUp, Moves
  <2>3. /\ \A u \in Sids \ {s} : m'.transports[u] = m.transports[u]
        /\ m'.transports[s] \in {None, m.transports[s]}
        /\ m'.openT \subseteq m.openT /\ m'.idle \subseteq m.idle
        /\ \A t \in m.openT \ m'.openT :
             t = m.transports[s] \/ (m.servers[s] # None /\ t = m.conn[m.servers[s]])
        /\ m'.transports[s] # None => job'[j].pc = "closingTransport" \/ m'.openT = m.openT
    BY <1>7 DEF CleansUp, Cleans, Less
  <2>4. \A t \in m.openT \ m'.openT : req[t].sid = s
    <3> SUFFICES ASSUME NEW t \in m.openT \ m'.openT PROVE req[t].sid = s
      OBVIOUS
    <3>1. t # None
      BY <1>0, <1>t
    <3>2. CASE t = m.transports[s]
      BY <3>1, <3>2 DEF Named
    <3>3. CASE m.servers[s] # None /\ t = m.conn[m.servers[s]]
      <4>1. m.servers[s] \in Requests /\ req[m.servers[s]].sid = s
        BY <1>t, <3>3 DEF Named
      <4> QED BY <3>1, <3>3, <4>1 DEF Named
    <3> QED BY <2>3, <3>2, <3>3
  <2>5. \A q \in Requests : req[q].pc = "connecting" => req[q].sid # s
    BY <1>7, NoneConnects
  <2>6. \A q \in Requests : Open(q) /\ Awake(q)
    BY <1>a, <1>b, <2>2, <2>3, <2>4, <2>5 DEF Fresh
  <2>7. ASSUME NEW q \in Requests, NEW i \in Jobs PROVE Apart(q, i)
    <3>1. CASE i = j
      BY <2>1, <2>2, <2>5, <3>1
    <3>2. CASE i # j
      BY <1>d, <2>1, <2>2, <3>2
    <3> QED BY <3>1, <3>2
  <2>8. ASSUME NEW u \in Sids, Broken(u) PROVE Noted(u)
    <3>0. m'.transports[u] = m.transports[u]
      BY <2>3, <2>8
    <3>1. CASE m.transports[u] \notin m.openT
      <4>1. CASE \E q \in Requests : req[q].pc = "failing" /\ req[q].sid = u
        BY <2>2, <4>1
      <4>2. CASE \E i \in Jobs : job[i].pc = "closingTransport" /\ job[i].sid = u
        <5>1. PICK i \in Jobs : job[i].pc = "closingTransport" /\ job[i].sid = u
          BY <4>2
        <5>2. i # j
          BY <2>1, <2>8, <5>1
        <5> QED BY <2>1, <5>1, <5>2
      <4> QED BY <1>c, <2>8, <3>0, <3>1, <4>1, <4>2
    <3>2. CASE m.transports[u] \in m.openT
      <4>1. req[m.transports[u]].sid = s
        BY <2>4, <2>8, <3>0, <3>2
      <4>2. u = s
        BY <2>8, <3>0, <4>1 DEF Named
      <4>3. job'[j].pc = "closingTransport"
        BY <2>3, <2>8, <3>0, <3>2, <4>2
      <4> QED BY <2>1, <4>2, <4>3
    <3> QED BY <3>1, <3>2
  <2> HIDE DEF Open, Awake, Broken, Noted, Apart
  <2> QED BY <1>g, <2>6, <2>7, <2>8
<1> QED BY <1>1, <1>2, <1>3, <1>4, <1>5, <1>6, <1>7 DEF Moved
-----------------------------------------------------------------------------
(* The theorems.                                                           *)

\* Initially nothing runs and nothing is held.
LEMMA Start == Init => TypeOK /\ HInv
<1> SUFFICES ASSUME Init PROVE TypeOK /\ HInv
  OBVIOUS
<1>0. None \notin Requests
  BY SessionAssumption
<1>1. /\ \A s \in Sids : m.store[s] = None /\ m.servers[s] = None /\ m.transports[s] = None
      /\ \A v \in Requests : m.conn[v] = None
      /\ m.tracked = {} /\ m.idle = {} /\ m.openS = {} /\ m.openT = {}
      /\ \A r \in Requests : req[r] = NoReq /\ ranAs[r] = None
      /\ \A j \in Jobs : job[j] = NoJob
  BY DEF Init
<1>2. NoReq.pc = "new" /\ NoReq.sid = None /\ NoJob.pc = "none"
  BY DEF NoReq, NoJob
<1>3. TypeOK
  <2>1. m \in MapsType
    BY DEF Init, MapsType
  <2>2. NoReq \in ReqType /\ NoJob \in JobType
    BY DEF NoReq, NoJob, ReqType, JobType, Pcs
  <2>3. how \in DisciplineType
    BY SessionAssumption DEF Init
  <2> QED BY <2>1, <2>2, <2>3, Types DEF Init
<1>4. Known /\ Turns
  BY <1>1, <1>2 DEF Known, WithId, Turns, InFlight, Jobs
<1>5. Named
  BY <1>1, <1>2 DEF Named
<1>6. Forgotten /\ Swept /\ Cached /\ IdleTracked
  BY <1>1, <1>2 DEF Forgotten, Swept, Cached, IdleTracked, Held
<1>7. Served /\ Wired /\ Working
  BY <1>1, <1>2 DEF Served, Wired, Working, Fresh
<1> QED BY <1>3, <1>4, <1>5, <1>6, <1>7 DEF HInv

\* Every step preserves the invariant, part by part.
LEMMA Preserved == TypeOK /\ HInv /\ [Next]_vars => (TypeOK /\ HInv)'
<1> SUFFICES ASSUME TypeOK, HInv, [Next]_vars PROVE (TypeOK /\ HInv)'
  OBVIOUS
<1>0. /\ Known /\ Named /\ Turns /\ Forgotten /\ Swept /\ Cached /\ Served /\ Wired
      /\ Working /\ IdleTracked
  BY DEF HInv
<1>1. TypeOK' /\ how' = how /\ (Moved \/ UNCHANGED vars)
  BY <1>0, StepMoves
<1>2. CASE Moved
  <2>1. Known' /\ IdleTracked' /\ Turns'
    BY <1>0, <1>1, <1>2, KnownStep, IdleStep, TurnsStep
  <2>2. Named'
    BY <1>0, <1>1, <1>2, NamedStep
  <2>3. Forgotten' /\ Swept'
    BY <1>0, <1>1, <1>2, ForgottenStep, SweptStep
  <2>4. Cached' /\ Served'
    BY <1>0, <1>1, <1>2, <2>1, CachedStep, ServedStep
  <2>5. Wired'
    BY <1>0, <1>1, <1>2, <2>1, <2>2, WiredStep
  <2>6. Working'
    BY <1>0, <1>1, <1>2, <2>1, WorkingStep
  <2> QED BY <1>1, <2>1, <2>2, <2>3, <2>4, <2>5, <2>6 DEF HInv
<1>3. CASE UNCHANGED vars
  <2>1. m' = m /\ req' = req /\ job' = job /\ how' = how /\ ranAs' = ranAs /\ used' = used
    BY <1>3 DEF vars
  <2>2. Known' /\ Named' /\ Turns' /\ IdleTracked'
    BY <1>0, <2>1 DEF Known, Named, Turns, InFlight, IdleTracked
  <2>3. Forgotten' /\ Swept' /\ Cached'
    BY <1>0, <2>1 DEF Forgotten, Swept, ClosesAtOnce, Cached, ServersInTurn, Held
  <2>4. Served' /\ Wired' /\ Working'
    BY SMTT(30), <1>0, <2>1 DEF Served, Wired, Working, ClosesAtOnce, ConnectsInTurn
  <2> QED BY <1>1, <2>2, <2>3, <2>4 DEF HInv
<1> QED BY <1>1, <1>2, <1>3

\* The types and the invariant hold of every behaviour, for every set of sessions,
\* credentials, requests and sweeps, every capacity and every set of disciplines.
THEOREM Invariance == Spec => [](TypeOK /\ HInv)
<1>1. Init => TypeOK /\ HInv
  BY Start
<1>2. TypeOK /\ HInv /\ [Next]_vars => (TypeOK /\ HInv)'
  BY Preserved
<1> QED BY <1>1, <1>2, PTL DEF Spec

\* The maps, the handlers and the cleanups keep their types.
THEOREM TypeCorrect == Spec => []TypeOK
<1>1. TypeOK /\ HInv => TypeOK
  OBVIOUS
<1> QED BY <1>1, Invariance, PTL

\* Whatever the clients and the platform do, a session the store has dropped is
\* untracked once the cleanups are done (the onDelete hook and detachSession).
THEOREM DroppedSessionsAreForgotten == Spec => []DroppedIsForgotten
<1>1. TypeOK /\ HInv => DroppedIsForgotten
  BY DEF HInv, Forgotten, DroppedIsForgotten, Quiet
<1> QED BY <1>1, Invariance, PTL

\* When closing does no I/O, services are never held where the idle sweep would not
\* find them (cleanupSession untracks before it deletes, bind after it sets).
THEOREM HeldSessionsAreSwept == Spec => []HeldIsSwept
<1>1. TypeOK /\ HInv => HeldIsSwept
  BY DEF HInv, Swept, HeldIsSwept
<1> QED BY <1>1, Invariance, PTL

\* A client that takes turns is served with services of the credential it presented,
\* on every path from the fingerprint check to the call.
THEOREM CallersAreServedAsThemselves == Spec => []ServedAsCaller
<1>1. TypeOK /\ HInv => ServedAsCaller
  BY DEF HInv, Served, ServedAsCaller
<1> QED BY <1>1, Invariance, PTL

\* No server leaks when clients take turns or createMcpServer does no I/O.  (When
\* neither is so, two requests of one session each make a server and one is lost.)
THEOREM OpenServersAreCached == Spec => [](ServersInTurn => OpenServerIsCached)
<1>1. TypeOK /\ HInv => (ServersInTurn => OpenServerIsCached)
  BY DEF HInv, Cached, OpenServerIsCached
<1> QED BY <1>1, Invariance, PTL

\* Later requests are handed open transports when clients take turns or connecting
\* does no I/O.
THEOREM PublishedTransportsWork == Spec => [](ConnectsInTurn => PublishedTransportWorks)
<1>1. ASSUME TypeOK, HInv, ConnectsInTurn, Quiet, ClosesAtOnce,
             NEW s \in Sids, m.transports[s] # None
      PROVE  m.transports[s] \in m.openT
  BY <1>1 DEF HInv, Working, Quiet, InFlight
<1>2. TypeOK /\ HInv => (ConnectsInTurn => PublishedTransportWorks)
  BY <1>1 DEF PublishedTransportWorks
<1> QED BY <1>2, Invariance, PTL

\* A client that takes turns never finds its session stuck on a connected server,
\* whichever awaits let cleanups in between.
THEOREM ClientsInTurnNeverWedge == Spec => []TurnsNeverWedge
<1>1. ASSUME TypeOK, HInv, how.serial, Quiet,
             NEW s \in Sids, m.servers[s] # None, m.transports[s] = None
      PROVE  m.conn[m.servers[s]] = None
  <2>1. m.servers[s] \in Requests /\ m.conn[m.servers[s]] \in Requests \cup {None}
    BY <1>1 DEF TypeOK, MapsType
  <2> QED BY <1>1, <2>1 DEF HInv, Wired, Quiet, InFlight
<1>2. TypeOK /\ HInv => TurnsNeverWedge
  BY <1>1 DEF TurnsNeverWedge, NeverWedged
<1> QED BY <1>2, Invariance, PTL
=============================================================================
