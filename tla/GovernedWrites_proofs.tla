----------------------- MODULE GovernedWrites_proofs -----------------------
(***************************************************************************)
(* Safety of governed writes for any number of processes, calls, contracts *)
(* and decisions, and every deployment.                                    *)
(***************************************************************************)
EXTENDS GovernedWrites, FiniteSetTheorems, TLAPS

Enforced(c) == TokenMode(c) = "enforce"

\* What holds of one call by itself.
CallOK(r) ==
    LET x == call[r]
    IN  /\ x.pc = "new" => ~x.fits
        /\ x.pc # "new" => x.on \in Instances /\ x.contract \in Contracts
        /\ x.fits => x.token \in Decisions /\ ContractOf[x.token] = x.contract
        /\ x.pc \in {"new", "arrived", "creating"} => x.verdict = "none"
        /\ x.verdict \in {"ok", "replayed"} => x.fits
        /\ x.pc \in {"creating", "answered"} =>
             env.firestore /\ x.fits /\ deadline[x.token] <= x.until
        /\ x.pc = "answered" => x.verdict \in {"ok", "replayed", "storeError"}
        /\ x.pc = "cleared" /\ Enforced(x.contract) => x.verdict = "ok"
        /\ r \in applied =>
             /\ x.pc = "done" /\ x.result # "rejected"
             /\ Enforced(x.contract) => x.verdict = "ok"

AllCallsOK == \A r \in Calls : CallOK(r)

\* Without the shared store an enforced service has one process at a time, and
\* until a restart it is the process of every call.
OneProcess ==
    /\ ~env.firestore /\ AnyEnforce => \A i, j \in up : i = j
    /\ restarts = 0 => \A r \in Calls : call[r].pc # "new" => call[r].on \in up

\* A stored entry outlives the decision by more than the tick that may pass
\* between the two readings of the clock.
LongTtl == \A t \in Deadlines : t < JtiTtl
Accepted(r, d) == call[r].verdict = "ok" /\ call[r].token = d

\* A process remembers a decision it accepted until the decision has expired.
Memory ==
    ~env.firestore /\ restarts = 0 /\ LongTtl =>
        \A r \in Calls, d \in Decisions : Accepted(r, d) =>
            \/ deadline[d] < now
            \/ seen[call[r].on][d] # None /\ seen[call[r].on][d] > deadline[d]

\* So does Firestore, and it deletes nothing a create is on its way to.
Ledger ==
    env.firestore =>
        \A r \in Calls, d \in Decisions : Accepted(r, d) =>
            \/ docs[d] # None /\ docs[d] >= deadline[d]
            \/ /\ deadline[d] < now
               /\ \A q \in Calls : call[q].pc = "creating" => call[q].token # d

\* A decision is accepted for one call.
AcceptedOnce ==
    env.firestore \/ (restarts = 0 /\ AnyEnforce /\ LongTtl) =>
        \A q, r \in Calls, d \in Decisions : Accepted(q, d) /\ Accepted(r, d) => q = r

Presented(q, d) ==
    call[q].token = d /\ call[q].fits /\ call[q].pc \notin {"new", "arrived", "creating"}

\* What a store remembers was put there for a fitting call.
Spenders ==
    \A d \in Decisions :
        docs[d] # None \/ (\E i \in Instances : seen[i][d] # None) =>
            \E q \in Calls : Presented(q, d)

IInv ==
    /\ TypeOK /\ deadline \in [Decisions -> Deadlines]
    /\ AllCallsOK /\ OneProcess
    /\ Memory /\ Ledger /\ AcceptedOnce
    /\ Spenders /\ SpentByItsOwnWrite

-----------------------------------------------------------------------------
\* A contract the settings enforce resolves to enforce.
LEMMA EnforceWins ==
    ASSUME TypeOK, NEW c \in Contracts, MustEnforce(c)
    PROVE  Enforced(c)
<1> DEFINE T == Tiers(c)
           First(t) == T[t] # None /\ \A u \in 1 .. (t - 1) : T[u] = None
<1> USE GovernanceAssumption
<1>0. "enforce" # None /\ "warn" # None /\ "off" # None
  BY DEF Modes
<1>1. /\ T[1] = (IF c \in env.enforce THEN "enforce" ELSE None)
      /\ T[2] = (IF c \in env.warn THEN "warn" ELSE None)
      /\ T[3] = (IF c \in env.off THEN "off" ELSE None)
      /\ T[4] = env.server /\ T[5] = env.global
  BY DEF Tiers
<1> HIDE DEF T
<1>2. \E n \in {1, 4, 5} : /\ T[n] = "enforce"
                           /\ \A u \in 1 .. (n - 1) : T[u] = None
  <2>1. CASE c \in env.enforce
    BY <2>1, <1>1
  <2>2. CASE c \notin env.enforce /\ env.server = "enforce"
    BY <2>2, <1>1 DEF MustEnforce
  <2>3. CASE c \notin env.enforce /\ env.server # "enforce"
    BY <2>3, <1>1 DEF MustEnforce
  <2> QED BY <2>1, <2>2, <2>3
<1>3. PICK n \in {1, 4, 5} : T[n] = "enforce" /\ \A u \in 1 .. (n - 1) : T[u] = None
  BY <1>2
<1>4. \A t \in 1 .. 6 : First(t) => t = n
  <2> SUFFICES ASSUME NEW t \in 1 .. 6, First(t) PROVE t = n
    OBVIOUS
  <2>1. ~(t < n)
    BY <1>3
  <2>2. ~(n < t)
    BY <1>0, <1>3
  <2> QED BY <2>1, <2>2
<1>5. n \in 1 .. 6 /\ First(n)
  BY <1>0, <1>3
<1>6. (CHOOSE t \in 1 .. 6 : First(t)) = n
  BY <1>4, <1>5
<1> QED BY <1>3, <1>6 DEF T, Enforced, TokenMode

\* Modes are fixed with the configuration.
LEMMA ModeKept ==
    ASSUME env' = env
    PROVE  /\ \A c : Enforced(c)' <=> Enforced(c)
           /\ AnyEnforce' <=> AnyEnforce
<1>1. \A c : TokenMode(c)' = TokenMode(c)
  BY DEF TokenMode, Tiers
<1> QED BY <1>1 DEF Enforced, AnyEnforce

LEMMA InitIInv == Init => IInv
<1> SUFFICES ASSUME Init PROVE IInv
  OBVIOUS
<1> USE GovernanceAssumption DEF Init, NoCall
<1>1. TypeOK
  BY DEF TypeOK, CallType
<1>2. AllCallsOK /\ OneProcess /\ Memory /\ Ledger /\ AcceptedOnce
  BY DEF AllCallsOK, CallOK, OneProcess, Memory, Ledger, AcceptedOnce, Accepted
<1>3. Spenders /\ SpentByItsOwnWrite
  BY DEF Spenders, SpentByItsOwnWrite
<1> QED BY <1>1, <1>2, <1>3 DEF IInv
-----------------------------------------------------------------------------
\* A step keeps what an untouched call satisfies by itself.
LEMMA OthersOK ==
    ASSUME NEW r \in Calls, CallOK(r), call'[r] = call[r],
           env' = env, deadline' = deadline, r \in applied' <=> r \in applied
    PROVE  CallOK(r)'
<1>1. \A c : Enforced(c)' <=> Enforced(c)
  BY ModeKept
<1> QED BY <1>1 DEF CallOK

\* A step of one call, r: the identity of a call never changes.
Moves(r) ==
    /\ call' \in [Calls -> CallType]
    /\ \A q \in Calls \ {r} : call'[q] = call[q]
    /\ call'[r].on = call[r].on /\ call'[r].contract = call[r].contract
    /\ call'[r].token = call[r].token /\ call'[r].fits = call[r].fits
    /\ call[r].pc # "new" /\ call'[r].pc \notin {"new", "arrived"}
    /\ UNCHANGED <<env, deadline, up, restarts>>

\* The conjuncts every such step keeps.
LEMMA MoveKeeps ==
    ASSUME IInv, NEW r \in Calls, Moves(r), CallOK(r)',
           applied' \in {applied, applied \cup {r}},
           \/ call'[r].verdict # "replayed"
           \/ \E q \in Calls \ {r} : Presented(q, call[r].token)
           \/ call[r].verdict = "replayed"
    PROVE  AllCallsOK' /\ OneProcess' /\ SpentByItsOwnWrite'
<1>1. AllCallsOK'
  <2> SUFFICES ASSUME NEW q \in Calls, q # r PROVE CallOK(q)'
    BY DEF AllCallsOK
  <2> QED BY OthersOK DEF IInv, AllCallsOK, Moves
<1>2. OneProcess'
  <2>1. AnyEnforce' <=> AnyEnforce
    BY ModeKept DEF Moves
  <2> QED BY <2>1 DEF IInv, OneProcess, Moves
<1>3. SpentByItsOwnWrite'
  <2> SUFFICES ASSUME NEW p \in Calls, call'[p].verdict = "replayed"
               PROVE  \E q \in Calls \ {p} : call'[q].token = call'[p].token /\ call'[q].fits
    BY DEF SpentByItsOwnWrite
  <2>1. \E q \in Calls \ {p} : call[q].token = call[p].token /\ call[q].fits
    <3>1. CASE p # r
      BY <3>1 DEF IInv, SpentByItsOwnWrite, Moves
    <3>2. CASE p = r
      BY <3>2 DEF IInv, SpentByItsOwnWrite, Presented
    <3> QED BY <3>1, <3>2
  <2> QED BY <2>1 DEF Moves
<1> QED BY <1>1, <1>2, <1>3

\* A step that touches neither the stores nor the clock, and accepts nothing new.
LEMMA QuietMoveKeeps ==
    ASSUME IInv, NEW r \in Calls, Moves(r), CallOK(r)',
           UNCHANGED <<now, seen, docs>>,
           live' \subseteq up, revoked' \subseteq live',
           applied' \in {applied, applied \cup {r}},
           call'[r].pc # "creating",
           call'[r].verdict = "ok" => call[r].verdict = "ok",
           call'[r].verdict = "replayed" =>
              call[r].verdict = "replayed" \/ \E q \in Calls \ {r} : Presented(q, call[r].token)
    PROVE  IInv'
<1>1. TypeOK' /\ deadline' \in [Decisions -> Deadlines]
  BY DEF IInv, TypeOK, Moves
<1>2. AllCallsOK' /\ OneProcess' /\ SpentByItsOwnWrite'
  BY MoveKeeps
<1>3. \A q \in Calls, d \in Decisions :
        /\ Accepted(q, d)' => Accepted(q, d) /\ call'[q].on = call[q].on
        /\ call'[q].pc = "creating" => call[q].pc = "creating"
        /\ call'[q].token = call[q].token
  BY DEF Accepted, Moves
<1>4. Memory'
  BY <1>3 DEF IInv, Memory, Moves
<1>5. Ledger'
  BY <1>3 DEF IInv, Ledger, Moves
<1>6. AcceptedOnce'
  <2>1. AnyEnforce' <=> AnyEnforce
    BY ModeKept DEF Moves
  <2> QED BY <1>3, <2>1 DEF IInv, AcceptedOnce, Moves
<1>7. Spenders'
  <2>1. \A q \in Calls, d \in Decisions : Presented(q, d) => Presented(q, d)'
    BY DEF Presented, Moves
  <2> QED BY <2>1 DEF IInv, Spenders
<1> QED BY <1>1, <1>2, <1>4, <1>5, <1>6, <1>7 DEF IInv

\* A rejected write drops the session or not; either way the maps stay typed.
LEMMA DropKeepsTypes ==
    ASSUME TypeOK, NEW i, DropSession(i)
    PROVE  live' \subseteq up /\ revoked' \subseteq live'
BY DEF TypeOK, DropSession

\* Conclude stops an enforced write on any verdict but ok.
LEMMA ConcludeMoves ==
    ASSUME IInv, NEW r \in Calls, call[r].pc \in {"arrived", "answered"},
           NEW v \in {"ok", "bad", "replayed", "storeError"}, Conclude(r, v),
           v \in {"ok", "replayed"} => call[r].fits,
           UNCHANGED <<env, deadline, up, restarts, applied>>
    PROVE  /\ Moves(r) /\ CallOK(r)'
           /\ call'[r].verdict = v /\ call'[r].pc \in {"cleared", "done"}
           /\ live' \subseteq up /\ revoked' \subseteq live'
<1>1. CallOK(r) /\ call[r] \in CallType /\ call \in [Calls -> CallType]
  BY DEF IInv, AllCallsOK, TypeOK
<1>2. \A c : Enforced(c)' <=> Enforced(c)
  BY ModeKept
<1>3. CASE Enforced(call[r].contract) /\ v # "ok"
  <2>1. /\ call' = [call EXCEPT ![r].pc = "done", ![r].verdict = v, ![r].result = "rejected"]
        /\ DropSession(call[r].on)
    BY <1>3 DEF Conclude, Enforced
  <2>0. call' = [call EXCEPT ![r] = [call[r] EXCEPT !.pc = "done", !.verdict = v,
                                                    !.result = "rejected"]]
    BY <1>1, <2>1
  <2>2. Moves(r)
    <3>1. [call[r] EXCEPT !.pc = "done", !.verdict = v, !.result = "rejected"] \in CallType
      BY <1>1 DEF CallType
    <3> QED BY <1>1, <2>0, <3>1 DEF Moves, CallType
  <2>3. CallOK(r)'
    BY <1>1, <1>2, <2>1 DEF CallOK, CallType
  <2>4. live' \subseteq up /\ revoked' \subseteq live'
    BY <2>1, DropKeepsTypes DEF IInv
  <2> QED BY <1>1, <2>1, <2>2, <2>3, <2>4 DEF CallType
<1>4. CASE ~(Enforced(call[r].contract) /\ v # "ok")
  <2>1. /\ call' = [call EXCEPT ![r].pc = "cleared", ![r].verdict = v]
        /\ UNCHANGED <<live, revoked>>
    BY <1>4 DEF Conclude, Enforced
  <2>2. Moves(r)
    BY ZenonT(60), <1>1, <2>1 DEF Moves, CallType
  <2>3. CallOK(r)'
    BY <1>1, <1>2, <1>4, <2>1 DEF CallOK, CallType
  <2>4. live' \subseteq up /\ revoked' \subseteq live'
    BY <2>1 DEF IInv, TypeOK
  <2> QED BY <1>1, <2>1, <2>2, <2>3, <2>4 DEF CallType
<1> QED BY <1>3, <1>4
-----------------------------------------------------------------------------
\* A step of no call: sessions, the clock or the store.
LEMMA StillKeeps ==
    ASSUME IInv, UNCHANGED <<env, deadline, seen, call, applied, restarts>>,
           now' \in Nat, now' >= now, up \subseteq up', up' \subseteq Instances,
           docs' \in [Decisions -> Nat \cup {None}],
           \A d \in Decisions : docs'[d] \in {docs[d], None},
           live' \subseteq up', revoked' \subseteq live'
    PROVE  /\ TypeOK' /\ deadline' \in [Decisions -> Deadlines]
           /\ AllCallsOK' /\ Memory' /\ AcceptedOnce'
           /\ Spenders' /\ SpentByItsOwnWrite'
           /\ (AnyEnforce' <=> AnyEnforce)
           /\ restarts = 0 => \A r \in Calls : call[r].pc # "new" => call[r].on \in up'
<1>1. TypeOK' /\ deadline' \in [Decisions -> Deadlines]
  BY DEF IInv, TypeOK
<1>2. AllCallsOK'
  BY OthersOK DEF IInv, AllCallsOK
<1>3. Memory'
  <2>1. \A d \in Decisions : deadline[d] < now => deadline[d] < now'
    BY DEF IInv, TypeOK
  <2> QED BY <2>1 DEF IInv, Memory, Accepted
<1>4. AnyEnforce' <=> AnyEnforce
  BY ModeKept
<1>5. AcceptedOnce'
  BY <1>4 DEF IInv, AcceptedOnce, Accepted
<1>6. Spenders'
  BY DEF IInv, TypeOK, Spenders, Presented
<1>7. SpentByItsOwnWrite'
  BY DEF IInv, SpentByItsOwnWrite
<1>8. restarts = 0 => \A r \in Calls : call[r].pc # "new" => call[r].on \in up'
  BY DEF IInv, OneProcess
<1> QED BY <1>1, <1>2, <1>3, <1>4, <1>5, <1>6, <1>7, <1>8

LEMMA BootKeeps == ASSUME IInv, NEW i \in Instances, Boot(i) PROVE IInv'
<1>1. /\ UNCHANGED <<env, deadline, seen, call, applied, restarts, now, docs, revoked>>
      /\ up' = up \cup {i} /\ live' = live \cup {i}
      /\ ~PostureThrows /\ (ScalesOut \/ up = {})
  BY DEF Boot
<1>2. /\ TypeOK' /\ deadline' \in [Decisions -> Deadlines]
      /\ AllCallsOK' /\ Memory' /\ AcceptedOnce'
      /\ Spenders' /\ SpentByItsOwnWrite'
      /\ (AnyEnforce' <=> AnyEnforce)
      /\ restarts = 0 => \A r \in Calls : call[r].pc # "new" => call[r].on \in up'
  <2>1. now' \in Nat /\ now' >= now /\ docs' \in [Decisions -> Nat \cup {None}]
    BY <1>1 DEF IInv, TypeOK
  <2>2. up \subseteq up' /\ up' \subseteq Instances /\ live' \subseteq up' /\ revoked' \subseteq live'
    BY <1>1 DEF IInv, TypeOK
  <2> QED BY <1>1, <2>1, <2>2, StillKeeps
<1>3. OneProcess'
  <2>1. ~env.firestore /\ AnyEnforce => up = {}
    BY <1>1 DEF PostureThrows, ScalesOut
  <2> QED BY <1>1, <1>2, <2>1 DEF OneProcess
<1>4. Ledger'
  BY <1>1 DEF IInv, Ledger, Accepted
<1> QED BY <1>2, <1>3, <1>4 DEF IInv

\* Sessions come and go, and credentials die, without the stores.
LEMMA SessionKeeps ==
    ASSUME IInv, NEW i \in Instances, OpenSession(i) \/ RevokeCredential(i)
    PROVE  IInv'
<1>1. UNCHANGED <<env, deadline, seen, call, applied, restarts, now, docs, up>>
  BY DEF OpenSession, RevokeCredential
<1>2. live' \subseteq up' /\ revoked' \subseteq live'
  BY DEF OpenSession, RevokeCredential, IInv, TypeOK
<1>3. /\ TypeOK' /\ deadline' \in [Decisions -> Deadlines]
      /\ AllCallsOK' /\ Memory' /\ AcceptedOnce'
      /\ Spenders' /\ SpentByItsOwnWrite'
      /\ (AnyEnforce' <=> AnyEnforce)
      /\ restarts = 0 => \A r \in Calls : call[r].pc # "new" => call[r].on \in up'
  <2>1. now' \in Nat /\ now' >= now /\ docs' \in [Decisions -> Nat \cup {None}]
    BY <1>1 DEF IInv, TypeOK
  <2>2. up \subseteq up' /\ up' \subseteq Instances
    BY <1>1 DEF IInv, TypeOK
  <2> QED BY <1>1, <1>2, <2>1, <2>2, StillKeeps
<1>4. OneProcess' /\ Ledger'
  BY <1>1, <1>3 DEF IInv, OneProcess, Ledger, Accepted
<1> QED BY <1>3, <1>4 DEF IInv

LEMMA TickKeeps == ASSUME IInv, Tick PROVE IInv'
<1>1. /\ UNCHANGED <<env, deadline, seen, call, applied, restarts, docs, up, live, revoked>>
      /\ now' = now + 1 /\ now \in Nat
  BY DEF Tick, IInv, TypeOK
<1>2. /\ TypeOK' /\ deadline' \in [Decisions -> Deadlines]
      /\ AllCallsOK' /\ Memory' /\ AcceptedOnce'
      /\ Spenders' /\ SpentByItsOwnWrite'
      /\ (AnyEnforce' <=> AnyEnforce)
      /\ restarts = 0 => \A r \in Calls : call[r].pc # "new" => call[r].on \in up'
  <2>1. now' \in Nat /\ now' >= now /\ docs' \in [Decisions -> Nat \cup {None}]
    BY <1>1 DEF IInv, TypeOK
  <2>2. up \subseteq up' /\ up' \subseteq Instances /\ live' \subseteq up' /\ revoked' \subseteq live'
    BY <1>1 DEF IInv, TypeOK
  <2> QED BY <1>1, <2>1, <2>2, StillKeeps
<1>3. OneProcess'
  BY <1>1, <1>2 DEF IInv, OneProcess
<1>4. Ledger'
  <2>1. \A d \in Decisions : deadline[d] < now => deadline[d] < now'
    BY <1>1 DEF IInv, TypeOK
  <2> QED BY <1>1, <2>1 DEF IInv, Ledger, Accepted
<1> QED BY <1>2, <1>3, <1>4 DEF IInv

\* A document is deleted when it has expired and no create is under way.
LEMMA ReclaimKeeps == ASSUME IInv, NEW e \in Decisions, Reclaim(e) PROVE IInv'
<1>1. /\ UNCHANGED <<env, deadline, seen, call, applied, restarts, now, up, live, revoked>>
      /\ docs' = [docs EXCEPT ![e] = None] /\ docs[e] # None /\ docs[e] < now
      /\ \A r \in Calls : call[r].pc = "creating" => call[r].token # e
  BY DEF Reclaim
<1>2. docs' \in [Decisions -> Nat \cup {None}] /\ \A d \in Decisions : docs'[d] \in {docs[d], None}
  BY <1>1 DEF IInv, TypeOK
<1>3. /\ TypeOK' /\ deadline' \in [Decisions -> Deadlines]
      /\ AllCallsOK' /\ Memory' /\ AcceptedOnce'
      /\ Spenders' /\ SpentByItsOwnWrite'
      /\ (AnyEnforce' <=> AnyEnforce)
      /\ restarts = 0 => \A r \in Calls : call[r].pc # "new" => call[r].on \in up'
  <2>1. now' \in Nat /\ now' >= now
    BY <1>1 DEF IInv, TypeOK
  <2>2. up \subseteq up' /\ up' \subseteq Instances /\ live' \subseteq up' /\ revoked' \subseteq live'
    BY <1>1 DEF IInv, TypeOK
  <2> QED BY <1>1, <1>2, <2>1, <2>2, StillKeeps
<1>4. OneProcess'
  BY <1>1, <1>3 DEF IInv, OneProcess
<1>5. Ledger'
  <2> SUFFICES ASSUME env.firestore, NEW r \in Calls, NEW d \in Decisions, Accepted(r, d)
               PROVE  \/ docs'[d] # None /\ docs'[d] >= deadline[d]
                      \/ /\ deadline[d] < now
                         /\ \A q \in Calls : call[q].pc = "creating" => call[q].token # d
    BY <1>1 DEF Ledger, Accepted
  <2>1. \/ docs[d] # None /\ docs[d] >= deadline[d]
        \/ /\ deadline[d] < now
           /\ \A q \in Calls : call[q].pc = "creating" => call[q].token # d
    BY DEF IInv, Ledger
  <2>2. CASE d # e
    BY <1>1, <2>1, <2>2 DEF IInv, TypeOK
  <2>3. CASE d = e
    <3>1. docs[e] \in Nat /\ deadline[e] \in Nat /\ now \in Nat
      BY <1>1 DEF IInv, TypeOK
    <3> QED BY <1>1, <2>1, <2>3, <3>1
  <2> QED BY <2>2, <2>3
<1> QED BY <1>3, <1>4, <1>5 DEF IInv

\* A call arrives with a fresh record.
LEMMA ArriveKeeps ==
    ASSUME IInv, NEW r \in Calls, NEW i \in Instances, NEW c \in Contracts,
           NEW d \in Decisions \cup {None}, NEW f \in BOOLEAN, Arrive(r, i, c, d, f)
    PROVE  IInv'
<1> DEFINE x == [NoCall EXCEPT !.pc = "arrived", !.on = i, !.contract = c, !.token = d, !.fits = f]
<1>1. /\ call[r].pc = "new" /\ i \in live /\ (f => d # None /\ ContractOf[d] = c)
      /\ call' = [call EXCEPT ![r] = x]
      /\ UNCHANGED <<env, now, deadline, up, seen, docs, live, revoked, applied, restarts>>
  BY DEF Arrive
<1>2. /\ x \in CallType /\ x.pc = "arrived" /\ x.on = i /\ x.contract = c /\ x.token = d
      /\ x.fits = f /\ x.verdict = "none"
  BY DEF NoCall, CallType
<1> HIDE DEF x
<1>3. /\ call'[r] = x /\ \A q \in Calls \ {r} : call'[q] = call[q]
      /\ call' \in [Calls -> CallType]
  BY <1>1, <1>2 DEF IInv, TypeOK
<1>4. TypeOK' /\ deadline' \in [Decisions -> Deadlines]
  BY <1>1, <1>3 DEF IInv, TypeOK
<1>5. CallOK(r) /\ r \notin applied /\ call[r].verdict = "none" /\ ~call[r].fits
  BY <1>1 DEF IInv, AllCallsOK, CallOK
<1>6. CallOK(r)'
  BY <1>1, <1>2, <1>3, <1>5 DEF CallOK
<1>7. AllCallsOK'
  BY <1>1, <1>3, <1>6, OthersOK DEF IInv, AllCallsOK
<1>8. AnyEnforce' <=> AnyEnforce
  BY <1>1, ModeKept
<1>9. OneProcess'
  BY <1>1, <1>2, <1>3, <1>8 DEF IInv, OneProcess, TypeOK
<1>10. \A q \in Calls, e \in Decisions :
        /\ Accepted(q, e)' => Accepted(q, e) /\ call'[q] = call[q]
        /\ Presented(q, e) => Presented(q, e)'
        /\ call'[q].pc = "creating" => call[q].pc = "creating" /\ call'[q].token = call[q].token
  BY <1>1, <1>2, <1>3 DEF Accepted, Presented
<1>11. Memory' /\ Ledger'
  BY <1>1, <1>10 DEF IInv, Memory, Ledger
<1>12. AcceptedOnce' /\ Spenders'
  BY <1>1, <1>8, <1>10 DEF IInv, AcceptedOnce, Spenders
<1>13. SpentByItsOwnWrite'
  <2> SUFFICES ASSUME NEW p \in Calls, call'[p].verdict = "replayed"
               PROVE  \E q \in Calls \ {p} : call'[q].token = call'[p].token /\ call'[q].fits
    BY DEF SpentByItsOwnWrite
  <2>1. p # r /\ call'[p] = call[p]
    BY <1>2, <1>3
  <2>2. PICK q \in Calls \ {p} : call[q].token = call[p].token /\ call[q].fits
    BY <2>1 DEF IInv, SpentByItsOwnWrite
  <2> QED BY <1>3, <1>5, <2>1, <2>2
<1> QED BY <1>4, <1>7, <1>9, <1>11, <1>12, <1>13 DEF IInv
-----------------------------------------------------------------------------
LEMMA PassOffKeeps == ASSUME IInv, NEW r \in Calls, PassOff(r) PROVE IInv'
<1>1. /\ call[r].pc = "arrived" /\ ~Enforced(call[r].contract)
      /\ call' = [call EXCEPT ![r].pc = "cleared", ![r].verdict = "off"]
      /\ UNCHANGED <<env, now, deadline, up, seen, docs, live, revoked, applied, restarts>>
  BY DEF PassOff, Enforced
<1>2. CallOK(r) /\ call[r] \in CallType /\ call \in [Calls -> CallType]
  BY DEF IInv, AllCallsOK, TypeOK
<1>3. \A c : Enforced(c)' <=> Enforced(c)
  BY <1>1, ModeKept
<1>4. Moves(r)
  BY ZenonT(30), <1>1, <1>2 DEF Moves, CallType
<1>5. CallOK(r)'
  BY <1>1, <1>2, <1>3 DEF CallOK, CallType
<1>6. call'[r].pc = "cleared" /\ call'[r].verdict = "off"
  BY <1>1, <1>2 DEF CallType
<1>7. live' \subseteq up /\ revoked' \subseteq live'
  BY <1>1 DEF IInv, TypeOK
<1> QED BY <1>1, <1>4, <1>5, <1>6, <1>7, QuietMoveKeeps

LEMMA VerifyBadKeeps == ASSUME IInv, NEW r \in Calls, VerifyBad(r) PROVE IInv'
<1>1. /\ call[r].pc = "arrived" /\ Conclude(r, "bad")
      /\ UNCHANGED <<env, now, deadline, up, seen, docs, applied, restarts>>
  BY DEF VerifyBad
<1>2. /\ Moves(r) /\ CallOK(r)'
      /\ call'[r].verdict = "bad" /\ call'[r].pc \in {"cleared", "done"}
      /\ live' \subseteq up /\ revoked' \subseteq live'
  BY <1>1, ConcludeMoves
<1> QED BY <1>1, <1>2, QuietMoveKeeps

\* The store's answer becomes the verdict; what it says was settled when the
\* create landed.
LEMMA AnswerKeeps == ASSUME IInv, NEW r \in Calls, Answer(r) PROVE IInv'
<1>1. /\ call[r].pc = "answered" /\ Conclude(r, call[r].verdict)
      /\ UNCHANGED <<env, now, deadline, up, seen, docs, applied, restarts>>
  BY DEF Answer
<1>2. call[r].verdict \in {"ok", "replayed", "storeError"} /\ call[r].fits
  BY <1>1 DEF IInv, AllCallsOK, CallOK
<1>3. /\ Moves(r) /\ CallOK(r)'
      /\ call'[r].verdict = call[r].verdict /\ call'[r].pc \in {"cleared", "done"}
      /\ live' \subseteq up /\ revoked' \subseteq live'
  BY <1>1, <1>2, ConcludeMoves
<1> QED BY <1>1, <1>3, QuietMoveKeeps

LEMMA CreateFailsKeeps == ASSUME IInv, NEW r \in Calls, CreateFails(r) PROVE IInv'
<1>1. /\ call[r].pc = "creating"
      /\ call' = [call EXCEPT ![r].pc = "answered", ![r].verdict = "storeError"]
      /\ UNCHANGED <<env, now, deadline, up, seen, docs, live, revoked, applied, restarts>>
  BY DEF CreateFails
<1>2. CallOK(r) /\ call[r] \in CallType /\ call \in [Calls -> CallType]
  BY DEF IInv, AllCallsOK, TypeOK
<1>4. Moves(r)
  BY <1>1, <1>2 DEF Moves, CallType
<1>5. CallOK(r)'
  BY <1>1, <1>2 DEF CallOK, CallType
<1>6. call'[r].pc = "answered" /\ call'[r].verdict = "storeError"
  BY <1>1, <1>2 DEF CallType
<1>7. live' \subseteq up /\ revoked' \subseteq live'
  BY <1>1 DEF IInv, TypeOK
<1> QED BY <1>1, <1>4, <1>5, <1>6, <1>7, QuietMoveKeeps

\* tool.logic runs, or cannot: an enforced call gets here only with verdict ok.
LEMMA RunKeeps == ASSUME IInv, NEW r \in Calls, Run(r) PROVE IInv'
<1>1. PICK res \in {"ran", "failed", "unauthorized", "noSession"} :
        /\ call[r].pc = "cleared"
        /\ call' = [call EXCEPT ![r].pc = "done", ![r].result = res]
        /\ UNCHANGED <<env, now, deadline, up, seen, docs, restarts>>
        /\ applied' \in {applied, applied \cup {r}}
        /\ UNCHANGED <<live, revoked>> \/ DropSession(call[r].on)
  BY DEF Run, RunNoSession, RunUnauthorized, RunApplied, RunFailed, Finish
<1>2. CallOK(r) /\ call[r] \in CallType /\ call \in [Calls -> CallType]
  BY DEF IInv, AllCallsOK, TypeOK
<1>3. \A c : Enforced(c)' <=> Enforced(c)
  BY <1>1, ModeKept
<1>4. Moves(r)
  BY ZenonT(30), <1>1, <1>2 DEF Moves, CallType
<1>5. CallOK(r)'
  BY <1>1, <1>2, <1>3 DEF CallOK, CallType
<1>6. call'[r].pc = "done" /\ call'[r].verdict = call[r].verdict
  BY <1>1, <1>2 DEF CallType
<1>7. live' \subseteq up /\ revoked' \subseteq live'
  BY <1>1, DropKeepsTypes DEF IInv, TypeOK
<1> QED BY <1>1, <1>4, <1>5, <1>6, <1>7, QuietMoveKeeps

\* What verification has established before it turns to a store.
LEMMA VerifiedFacts ==
    ASSUME IInv, NEW r \in Calls, Verified(r)
    PROVE  /\ call[r].pc = "arrived" /\ call[r].fits /\ call[r].token \in Decisions
           /\ now <= deadline[call[r].token]
           /\ call[r].on \in Instances /\ call[r].verdict = "none"
           /\ r \notin applied
<1>1. CallOK(r)
  BY DEF IInv, AllCallsOK
<1>2. call[r].pc = "arrived" /\ call[r].fits /\ call[r].token \in Decisions
  BY <1>1 DEF Verified, Unbound, IInv, TypeOK, CallType, CallOK
<1>3. now <= deadline[call[r].token]
  BY <1>2, GovernanceAssumption DEF Verified, Expired, IInv, TypeOK
<1> QED BY <1>1, <1>2, <1>3 DEF CallOK

\* The store's entry covers the rest of the decision's life.
LEMMA TtlCovers ==
    ASSUME IInv, NEW d \in Decisions, NEW t \in StoreClock
    PROVE  /\ t \in Nat /\ t >= now /\ t <= now + 1
           /\ ConsumeTtl(d) \in Nat /\ t + ConsumeTtl(d) \in Nat
           /\ t + ConsumeTtl(d) >= deadline[d]
           /\ LongTtl => t + ConsumeTtl(d) > deadline[d]
<1>1. now \in Nat /\ deadline[d] \in Nat /\ deadline[d] \in Deadlines /\ JtiTtl \in Nat
  BY GovernanceAssumption DEF IInv, TypeOK
<1>2. t \in {now, now + 1}
  BY DEF StoreClock
<1>3. ConsumeTtl(d) \in Nat /\ ConsumeTtl(d) >= JtiTtl /\ ConsumeTtl(d) >= deadline[d] - now
  BY <1>1 DEF ConsumeTtl
<1>4. LongTtl => deadline[d] < JtiTtl
  BY <1>1 DEF LongTtl
<1> QED BY <1>1, <1>2, <1>3, <1>4

LEMMA SendCreateKeeps == ASSUME IInv, NEW r \in Calls, SendCreate(r) PROVE IInv'
<1> DEFINE d == call[r].token
<1>1. Verified(r) /\ env.firestore
  BY DEF SendCreate
<1>2. PICK t \in StoreClock :
        /\ now' = t
        /\ call' = [call EXCEPT ![r].pc = "creating", ![r].until = t + ConsumeTtl(d)]
        /\ UNCHANGED <<env, deadline, up, seen, docs, live, revoked, applied, restarts>>
  BY DEF SendCreate
<1>3. /\ call[r].pc = "arrived" /\ call[r].fits /\ d \in Decisions
      /\ now <= deadline[d] /\ call[r].on \in Instances /\ call[r].verdict = "none"
      /\ r \notin applied
  BY <1>1, VerifiedFacts
<1>4. /\ t \in Nat /\ t >= now
      /\ t + ConsumeTtl(d) \in Nat /\ t + ConsumeTtl(d) >= deadline[d]
  BY <1>3, TtlCovers
<1>5. CallOK(r) /\ call[r] \in CallType /\ call \in [Calls -> CallType]
  BY DEF IInv, AllCallsOK, TypeOK
<1>6. Moves(r)
  BY <1>2, <1>3, <1>4, <1>5 DEF Moves, CallType
<1>7. /\ call'[r].pc = "creating" /\ call'[r].verdict = "none" /\ call'[r].token = d
      /\ call'[r].until = t + ConsumeTtl(d) /\ call'[r].fits /\ call'[r].on = call[r].on
      /\ call'[r].contract = call[r].contract
  BY <1>2, <1>3, <1>5 DEF CallType
<1>8. CallOK(r)'
  BY <1>1, <1>2, <1>3, <1>4, <1>5, <1>7 DEF CallOK
<1>9. AllCallsOK' /\ OneProcess' /\ SpentByItsOwnWrite'
  BY <1>2, <1>6, <1>7, <1>8, MoveKeeps
<1>10. TypeOK' /\ deadline' \in [Decisions -> Deadlines]
  BY <1>2, <1>4, <1>6 DEF IInv, TypeOK, Moves
<1>11. \A q \in Calls, e \in Decisions :
        /\ Accepted(q, e)' => Accepted(q, e) /\ call'[q].on = call[q].on
        /\ Presented(q, e) => Presented(q, e)'
  BY <1>3, <1>6, <1>7 DEF Accepted, Presented, Moves
<1>12. Memory'
  BY <1>1, <1>2 DEF Memory
<1>13. Ledger'
  <2> SUFFICES ASSUME NEW q \in Calls, NEW e \in Decisions, Accepted(q, e)'
               PROVE  \/ docs[e] # None /\ docs[e] >= deadline[e]
                      \/ /\ deadline[e] < now'
                         /\ \A p \in Calls : call'[p].pc = "creating" => call'[p].token # e
    BY <1>2 DEF Ledger
  <2>1. \/ docs[e] # None /\ docs[e] >= deadline[e]
        \/ /\ deadline[e] < now
           /\ \A p \in Calls : call[p].pc = "creating" => call[p].token # e
    BY <1>1, <1>11 DEF IInv, Ledger
  <2>2. deadline[e] < now => e # d /\ deadline[e] < now'
    BY <1>2, <1>3, <1>4 DEF IInv, TypeOK
  <2> QED BY <1>6, <1>7, <2>1, <2>2 DEF Moves
<1>14. AcceptedOnce'
  <2>1. AnyEnforce' <=> AnyEnforce
    BY <1>2, ModeKept
  <2> QED BY <1>2, <1>11, <2>1 DEF IInv, AcceptedOnce
<1>15. Spenders'
  BY <1>2, <1>11 DEF IInv, Spenders
<1> QED BY <1>9, <1>10, <1>12, <1>13, <1>14, <1>15 DEF IInv
\* The create is atomic at Firestore: the first one of a decision is fresh, and
\* nothing that could accept the decision again was deleted meanwhile.
LEMMA CreateLandsKeeps == ASSUME IInv, NEW r \in Calls, CreateLands(r) PROVE IInv'
<1> DEFINE d == call[r].token
           u == call[r].until
<1>1. PICK v \in {IF docs[d] = None THEN "ok" ELSE "replayed", "storeError"} :
        call' = [call EXCEPT ![r].pc = "answered", ![r].verdict = v]
  BY DEF CreateLands
<1>2. /\ call[r].pc = "creating"
      /\ docs' = [docs EXCEPT ![d] = IF @ = None THEN u ELSE @]
      /\ UNCHANGED <<env, now, deadline, up, seen, live, revoked, applied, restarts>>
  BY DEF CreateLands
<1>3. CallOK(r) /\ call[r] \in CallType /\ call \in [Calls -> CallType]
  BY DEF IInv, AllCallsOK, TypeOK
<1>4. /\ env.firestore /\ call[r].fits /\ d \in Decisions /\ deadline[d] <= u
      /\ u \in Nat /\ call[r].verdict = "none"
  BY <1>2, <1>3 DEF CallOK, CallType
<1>5. Moves(r)
  BY ZenonT(30), <1>1, <1>2, <1>3 DEF Moves, CallType
<1>6. /\ call'[r].pc = "answered" /\ call'[r].verdict = v /\ call'[r].token = d
      /\ call'[r].until = u /\ call'[r].fits
  BY <1>1, <1>3, <1>4 DEF CallType
<1>7. CallOK(r)'
  BY <1>1, <1>2, <1>3, <1>4, <1>5, <1>6 DEF CallOK, Moves
<1>8. docs[d] # None => \E q \in Calls \ {r} : Presented(q, d)
  BY <1>2, <1>4 DEF IInv, Spenders, Presented
<1>9. AllCallsOK' /\ OneProcess' /\ SpentByItsOwnWrite'
  BY <1>1, <1>2, <1>5, <1>6, <1>7, <1>8, MoveKeeps
<1>10. TypeOK' /\ deadline' \in [Decisions -> Deadlines]
  BY <1>2, <1>4, <1>5 DEF IInv, TypeOK, Moves
<1>11. \A e \in Decisions : docs'[e] = IF e = d /\ docs[e] = None THEN u ELSE docs[e]
  BY <1>2, <1>4 DEF IInv, TypeOK
<1>12. \A q \in Calls, e \in Decisions :
        /\ q # r \/ e # d => (Accepted(q, e)' => Accepted(q, e) /\ q # r)
        /\ call'[q].pc = "creating" => call[q].pc = "creating"
        /\ call'[q].token = call[q].token
        /\ Presented(q, e) => Presented(q, e)'
  BY <1>2, <1>4, <1>5, <1>6 DEF Accepted, Presented, Moves
<1>13. Memory'
  BY <1>2, <1>4 DEF Memory
\* Nobody else was accepted while the document was absent and r's create out.
<1>14. v = "ok" => \A q \in Calls : ~Accepted(q, d)
  <2> SUFFICES ASSUME v = "ok", NEW q \in Calls, Accepted(q, d) PROVE FALSE
    OBVIOUS
  <2>1. docs[d] = None
    BY <1>1
  <2> QED BY <1>2, <1>4, <2>1 DEF IInv, Ledger
<1>15. Ledger'
  <2> SUFFICES ASSUME NEW q \in Calls, NEW e \in Decisions, Accepted(q, e)'
               PROVE  \/ docs'[e] # None /\ docs'[e] >= deadline[e]
                      \/ /\ deadline[e] < now
                         /\ \A p \in Calls : call'[p].pc = "creating" => call'[p].token # e
    BY <1>2 DEF Ledger
  <2>1. CASE q = r /\ e = d
    <3>1. v = "ok"
      BY <1>6, <2>1 DEF Accepted
    <3>2. docs'[e] = u
      BY <1>1, <1>11, <2>1, <3>1
    <3> QED BY <1>4, <2>1, <3>2, GovernanceAssumption DEF IInv, TypeOK
  <2>2. CASE q # r \/ e # d
    <3>1. Accepted(q, e)
      BY <1>12, <2>2
    <3>2. \/ docs[e] # None /\ docs[e] >= deadline[e]
          \/ /\ deadline[e] < now
             /\ \A p \in Calls : call[p].pc = "creating" => call[p].token # e
      BY <1>4, <3>1 DEF IInv, Ledger
    <3> QED BY <1>11, <1>12, <3>2
  <2> QED BY <2>1, <2>2
<1>16. AcceptedOnce'
  <2> SUFFICES ASSUME NEW p \in Calls, NEW q \in Calls, NEW e \in Decisions,
                      Accepted(p, e)', Accepted(q, e)'
               PROVE  p = q
    BY DEF AcceptedOnce
  <2>1. Accepted(p, e) /\ Accepted(q, e) => p = q
    BY <1>4 DEF IInv, AcceptedOnce
  <2>2. Accepted(r, e)' => v = "ok"
    BY <1>6 DEF Accepted
  <2> QED BY <1>12, <1>14, <2>1, <2>2
<1>17. Spenders'
  <2>1. \A e \in Decisions : e = d => Presented(r, e)'
    BY <1>6 DEF Presented
  <2> QED BY <1>2, <1>11, <1>12, <2>1 DEF IInv, Spenders
<1> QED BY <1>9, <1>10, <1>13, <1>15, <1>16, <1>17 DEF IInv

\* The store of a process that says "replayed" changes nothing.
LEMMA ReplayedKeeps ==
    ASSUME IInv, NEW r \in Calls, Verified(r), NEW t \in StoreClock, now' = t,
           Remembered(call[r].on, call[r].token, t), Conclude(r, "replayed"),
           UNCHANGED <<env, deadline, up, seen, docs, applied, restarts>>
    PROVE  IInv'
<1> DEFINE d == call[r].token
           i == call[r].on
<1>1. /\ call[r].pc = "arrived" /\ call[r].fits /\ d \in Decisions
      /\ i \in Instances /\ call[r].verdict = "none"
  BY VerifiedFacts
<1>2. /\ Moves(r) /\ CallOK(r)'
      /\ call'[r].verdict = "replayed" /\ call'[r].pc \in {"cleared", "done"}
      /\ live' \subseteq up /\ revoked' \subseteq live'
  BY <1>1, ConcludeMoves
<1>3. t \in Nat /\ t >= now
  BY <1>1, TtlCovers
<1>4. \E q \in Calls \ {r} : Presented(q, d)
  BY <1>1 DEF Remembered, IInv, Spenders, Presented
<1>5. AllCallsOK' /\ OneProcess' /\ SpentByItsOwnWrite'
  BY <1>2, <1>4, MoveKeeps
<1>6. TypeOK' /\ deadline' \in [Decisions -> Deadlines]
  BY <1>2, <1>3 DEF IInv, TypeOK, Moves
<1>7. \A q \in Calls, e \in Decisions :
        /\ Accepted(q, e)' => Accepted(q, e) /\ call'[q].on = call[q].on
        /\ call'[q].pc = "creating" => call[q].pc = "creating"
        /\ call'[q].token = call[q].token
        /\ Presented(q, e) => Presented(q, e)'
        /\ deadline[e] < now => deadline[e] < now'
  BY <1>1, <1>2, <1>3 DEF Accepted, Presented, Moves, IInv, TypeOK
<1>8. Memory' /\ Ledger'
  BY <1>7 DEF IInv, Memory, Ledger
<1>9. AcceptedOnce' /\ Spenders'
  <2>1. AnyEnforce' <=> AnyEnforce
    BY ModeKept
  <2> QED BY <1>7, <2>1 DEF IInv, AcceptedOnce, Spenders
<1> QED BY <1>5, <1>6, <1>8, <1>9 DEF IInv

\* The store of a process accepts a decision it does not remember: the entry it
\* makes outlives the decision, and what its sweep drops has expired.
LEMMA FreshKeeps ==
    ASSUME IInv, NEW r \in Calls, Verified(r), ~env.firestore,
           NEW t \in StoreClock, now' = t,
           ~Remembered(call[r].on, call[r].token, t), Conclude(r, "ok"),
           Remember(call[r].on, call[r].token, t),
           UNCHANGED <<env, deadline, up, docs, applied, restarts>>
    PROVE  IInv'
<1> DEFINE d == call[r].token
           i == call[r].on
           u == t + ConsumeTtl(d)
<1>1. /\ call[r].pc = "arrived" /\ call[r].fits /\ d \in Decisions /\ now <= deadline[d]
      /\ i \in Instances /\ call[r].verdict = "none"
  BY VerifiedFacts
<1>2. /\ Moves(r) /\ CallOK(r)'
      /\ call'[r].verdict = "ok" /\ call'[r].pc \in {"cleared", "done"}
      /\ live' \subseteq up /\ revoked' \subseteq live'
  BY <1>1, ConcludeMoves
<1>3. /\ t \in Nat /\ t >= now /\ t <= now + 1 /\ now \in Nat
      /\ u \in Nat /\ (LongTtl => u > deadline[d])
  BY <1>1, TtlCovers DEF IInv, TypeOK
<1> HIDE DEF u
<1>4. /\ seen' \in [Instances -> [Decisions -> Nat \cup {None}]]
      /\ \A j \in Instances \ {i} : seen'[j] = seen[j]
      /\ seen'[i][d] = u
      /\ \A e \in Decisions \ {d} :
            \/ seen'[i][e] = seen[i][e]
            \/ seen'[i][e] = None /\ ~Remembered(i, e, t)
  <2> DEFINE entries == {e \in Decisions : seen[i][e] # None} \cup {d}
             kept(e) == Cardinality(entries) < SweepAt \/ Remembered(i, e, t)
             new == [e \in Decisions |->
                        IF e = d THEN u ELSE IF kept(e) THEN seen[i][e] ELSE None]
  <2>1. seen \in [Instances -> [Decisions -> Nat \cup {None}]]
    BY DEF IInv, TypeOK
  <2>2. seen' = [seen EXCEPT ![i] = new]
    BY <1>1, <2>1 DEF Remember, u
  <2> HIDE DEF kept
  <2>3. new \in [Decisions -> Nat \cup {None}]
    BY <1>1, <1>3, <2>1
  <2>4. /\ new[d] = u
        /\ \A e \in Decisions \ {d} :
              new[e] = seen[i][e] \/ (new[e] = None /\ ~kept(e))
    BY <1>1
  <2>5. \A e : ~kept(e) => ~Remembered(i, e, t)
    BY DEF kept
  <2> HIDE DEF new
  <2> QED BY <1>1, <2>1, <2>2, <2>3, <2>4, <2>5
<1>5. AllCallsOK' /\ OneProcess' /\ SpentByItsOwnWrite'
  BY <1>2, MoveKeeps
<1>6. TypeOK' /\ deadline' \in [Decisions -> Deadlines]
  BY <1>2, <1>3, <1>4 DEF IInv, TypeOK, Moves
<1>7. \A q \in Calls, e \in Decisions :
        /\ q # r \/ e # d => (Accepted(q, e)' => Accepted(q, e) /\ q # r)
        /\ call'[q].on = call[q].on
        /\ Presented(q, e) => Presented(q, e)'
  BY <1>1, <1>2 DEF Accepted, Presented, Moves
<1>8. Memory'
  <2> SUFFICES ASSUME restarts = 0, LongTtl, NEW q \in Calls, NEW e \in Decisions, Accepted(q, e)'
               PROVE  \/ deadline[e] < t
                      \/ seen'[call[q].on][e] # None /\ seen'[call[q].on][e] > deadline[e]
    BY <1>2, <1>7 DEF Memory, Moves
  <2>1. CASE q = r /\ e = d
    BY <1>3, <1>4, <2>1, GovernanceAssumption
  <2>2. CASE q # r \/ e # d
    <3>1. Accepted(q, e)
      BY <1>7, <2>2
    <3>2. \/ deadline[e] < now
          \/ seen[call[q].on][e] # None /\ seen[call[q].on][e] > deadline[e]
      BY <3>1 DEF IInv, Memory
    <3>3. call[q].on \in Instances /\ deadline[e] \in Nat
      BY <3>1 DEF Accepted, IInv, TypeOK, AllCallsOK, CallOK
    <3>4. CASE deadline[e] < now
      BY <1>3, <3>3, <3>4
    <3>5. CASE seen[call[q].on][e] # None /\ seen[call[q].on][e] > deadline[e]
      <4>1. CASE call[q].on # i
        BY <1>4, <3>3, <3>5, <4>1
      <4>2. CASE call[q].on = i /\ e = d
        BY <1>3, <1>4, <4>2, GovernanceAssumption
      <4>3. CASE call[q].on = i /\ e # d
        <5>1. seen[i][e] \in Nat
          BY <3>3, <3>5, <4>3 DEF IInv, TypeOK
        <5>2. ~Remembered(i, e, t) => seen[i][e] < t
          BY <1>3, <3>5, <4>3, <5>1 DEF Remembered
        <5> QED BY <1>3, <1>4, <3>3, <3>5, <4>3, <5>1, <5>2
      <4> QED BY <4>1, <4>2, <4>3
    <3> QED BY <3>2, <3>4, <3>5
  <2> QED BY <2>1, <2>2
<1>9. Ledger'
  BY <1>2 DEF Ledger, Moves
\* Whoever was accepted before was accepted by this process, which would know.
<1>10. restarts = 0 /\ AnyEnforce /\ LongTtl => \A q \in Calls : ~Accepted(q, d)
  <2> SUFFICES ASSUME restarts = 0, AnyEnforce, LongTtl, NEW q \in Calls, Accepted(q, d)
               PROVE  FALSE
    OBVIOUS
  <2>1. call[q].on \in up /\ i \in up
    BY <1>1 DEF Accepted, IInv, OneProcess, AllCallsOK, CallOK
  <2>2. call[q].on = i
    BY <2>1 DEF IInv, OneProcess
  <2>3. deadline[d] \in Nat
    BY <1>1 DEF IInv, TypeOK
  <2>4. seen[i][d] # None /\ seen[i][d] > deadline[d] /\ seen[i][d] \in Nat
    BY <1>1, <1>3, <2>2, <2>3 DEF IInv, Memory, TypeOK
  <2> QED BY <1>1, <1>3, <2>3, <2>4 DEF Remembered
<1>11. AcceptedOnce'
  <2>1. AnyEnforce' <=> AnyEnforce
    BY <1>2, ModeKept
  <2> SUFFICES ASSUME restarts = 0, AnyEnforce, LongTtl,
                      NEW p \in Calls, NEW q \in Calls, NEW e \in Decisions,
                      Accepted(p, e)', Accepted(q, e)'
               PROVE  p = q
    BY <1>2, <2>1 DEF AcceptedOnce, Moves
  <2>2. Accepted(p, e) /\ Accepted(q, e) => p = q
    BY DEF IInv, AcceptedOnce
  <2> QED BY <1>7, <1>10, <2>2
<1>12. Spenders'
  <2>1. \A e \in Decisions : e = d => Presented(r, e)'
    BY <1>1, <1>2 DEF Presented, Moves
  <2>2. \A e \in Decisions \ {d}, j \in Instances : seen'[j][e] # None => seen[j][e] # None
    BY <1>4
  <2> SUFFICES ASSUME NEW e \in Decisions,
                      docs[e] # None \/ \E j \in Instances : seen'[j][e] # None
               PROVE  \E q \in Calls : Presented(q, e)'
    BY DEF Spenders
  <2>3. CASE e = d
    BY <2>1, <2>3
  <2>4. CASE e # d
    <3>1. docs[e] # None \/ \E j \in Instances : seen[j][e] # None
      BY <2>2, <2>4
    <3>2. PICK q \in Calls : Presented(q, e)
      BY <3>1 DEF IInv, Spenders
    <3> QED BY <1>7, <3>2
  <2> QED BY <2>3, <2>4
<1> QED BY <1>5, <1>6, <1>8, <1>9, <1>11, <1>12 DEF IInv

LEMMA ConsumeInMemoryKeeps ==
    ASSUME IInv, NEW r \in Calls, ConsumeInMemory(r) PROVE IInv'
<1>1. /\ Verified(r) /\ ~env.firestore
      /\ UNCHANGED <<env, deadline, up, docs, applied, restarts>>
  BY DEF ConsumeInMemory
<1>2. PICK t \in StoreClock :
        /\ now' = t
        /\ \/ /\ Remembered(call[r].on, call[r].token, t)
              /\ Conclude(r, "replayed") /\ UNCHANGED seen
           \/ /\ ~Remembered(call[r].on, call[r].token, t)
              /\ Conclude(r, "ok") /\ Remember(call[r].on, call[r].token, t)
  BY DEF ConsumeInMemory
<1> QED BY <1>1, <1>2, ReplayedKeeps, FreshKeeps
\* A process dies: its own memory is gone, the shared store keeps what it has,
\* and what was already sent may arrive.
LEMMA CrashKeeps == ASSUME IInv, NEW i \in Instances, Crash(i) PROVE IInv'
<1> DEFINE waiting(pc) == {r \in Calls : call[r].on = i /\ call[r].pc = pc}
           gone(r) == call[r].on = i /\ call[r].pc \notin {"new", "done"}
<1>0. restarts' = restarts + 1 /\ restarts \in Nat
  BY DEF Crash, IInv, TypeOK
<1>1. /\ up' = up \ {i} /\ live' = live \ {i} /\ revoked' = revoked \ {i}
      /\ seen' = [seen EXCEPT ![i] = [d \in Decisions |-> None]]
      /\ call' = [r \in Calls |->
            IF gone(r) THEN [call[r] EXCEPT !.pc = "done", !.result = "lost"] ELSE call[r]]
      /\ UNCHANGED <<env, now, deadline>>
  BY DEF Crash
<1>2. PICK late \in SUBSET waiting("creating") :
        docs' = [d \in Decisions |->
            IF docs[d] = None /\ \E r \in late : call[r].token = d
            THEN call[CHOOSE r \in late : call[r].token = d].until ELSE docs[d]]
  BY DEF Crash
<1>3. PICK sent \in SUBSET waiting("cleared") : applied' = applied \cup sent
  BY DEF Crash
<1>4. \A r \in Calls : CallOK(r) /\ call[r] \in CallType
  BY DEF IInv, AllCallsOK, TypeOK
<1>5. \A r \in Calls :
        /\ call'[r] \in CallType
        /\ call'[r].on = call[r].on /\ call'[r].contract = call[r].contract
        /\ call'[r].token = call[r].token /\ call'[r].fits = call[r].fits
        /\ call'[r].until = call[r].until /\ call'[r].verdict = call[r].verdict
        /\ gone(r) => call'[r].pc = "done" /\ call'[r].result = "lost"
        /\ ~gone(r) => call'[r] = call[r]
  <2> TAKE r \in Calls
  <2>1. CASE gone(r)
    <3>1. call'[r] = [call[r] EXCEPT !.pc = "done", !.result = "lost"]
      BY <1>1, <2>1
    <3>2. call[r] \in CallType
      BY <1>4
    <3> HIDE DEF gone
    <3>3. call'[r] \in CallType /\ call'[r].pc = "done" /\ call'[r].result = "lost"
      BY ZenonT(30), <3>1, <3>2 DEF CallType
    <3>4. /\ call'[r].on = call[r].on /\ call'[r].contract = call[r].contract
          /\ call'[r].token = call[r].token /\ call'[r].fits = call[r].fits
          /\ call'[r].until = call[r].until /\ call'[r].verdict = call[r].verdict
      BY <3>1, <3>2 DEF CallType
    <3> QED BY <2>1, <3>3, <3>4
  <2>2. CASE ~gone(r)
    <3>1. call'[r] = call[r]
      BY <1>1, <2>2
    <3> HIDE DEF gone
    <3> QED BY <1>4, <2>2, <3>1
  <2> QED BY <2>1, <2>2
\* What the late creates leave in the store.
<1>6. \A d \in Decisions :
        \/ docs'[d] = docs[d]
        \/ \E r \in late : docs[d] = None /\ call[r].token = d /\ docs'[d] = call[r].until
  <2> TAKE d \in Decisions
  <2>1. CASE docs[d] = None /\ \E r \in late : call[r].token = d
    <3>1. PICK r \in late : r = CHOOSE q \in late : call[q].token = d
      BY <2>1
    <3>2. call[r].token = d
      BY <2>1, <3>1
    <3>3. docs'[d] = call[r].until
      BY <1>2, <2>1, <3>1
    <3> QED BY <2>1, <3>2, <3>3
  <2>2. CASE ~(docs[d] = None /\ \E r \in late : call[r].token = d)
    BY <1>2, <2>2
  <2> QED BY <2>1, <2>2
<1>7. \A r \in late : /\ r \in Calls /\ gone(r) /\ call[r].fits
                      /\ deadline[call[r].token] <= call[r].until /\ call[r].until \in Nat
  BY <1>4 DEF CallOK, CallType
<1>8. TypeOK' /\ deadline' \in [Decisions -> Deadlines]
  <2>1. docs' \in [Decisions -> Nat \cup {None}]
    <3>1. \A d \in Decisions : docs'[d] \in Nat \cup {None}
      BY <1>6, <1>7 DEF IInv, TypeOK
    <3> QED BY <1>2, <3>1
  <2>2. call' \in [Calls -> CallType]
    BY <1>1, <1>5
  <2>3. seen' \in [Instances -> [Decisions -> Nat \cup {None}]]
    BY <1>1 DEF IInv, TypeOK
  <2>4. applied' \subseteq Calls
    BY <1>3 DEF IInv, TypeOK
  <2>5. up' \subseteq Instances /\ live' \subseteq up' /\ revoked' \subseteq live'
    BY <1>1 DEF IInv, TypeOK
  <2>6. env' = env /\ now' = now /\ deadline' = deadline
    BY <1>1
  <2> QED BY <1>0, <2>1, <2>2, <2>3, <2>4, <2>5, <2>6 DEF IInv, TypeOK
<1>9. AllCallsOK'
  <2>1. \A c : Enforced(c)' <=> Enforced(c)
    BY <1>1, ModeKept
  <2> SUFFICES ASSUME NEW r \in Calls PROVE CallOK(r)'
    BY DEF AllCallsOK
  <2>2. CASE ~gone(r)
    <3>1. r \in applied' <=> r \in applied
      BY <1>3, <2>2
    <3> QED BY <1>1, <1>4, <1>5, <2>2, <3>1, OthersOK
  <2>3. CASE gone(r)
    <3>1. r \notin applied
      BY <1>4, <2>3 DEF CallOK
    <3>2. r \in applied' => call[r].pc = "cleared"
      BY <1>3, <3>1
    <3>3. /\ call'[r].pc = "done" /\ call'[r].result = "lost"
          /\ call'[r].on = call[r].on /\ call'[r].contract = call[r].contract
          /\ call'[r].token = call[r].token /\ call'[r].fits = call[r].fits
          /\ call'[r].verdict = call[r].verdict
      BY <1>5, <2>3
    <3>4. call[r].pc # "new"
      BY <2>3
    <3>5. CallOK(r)
      BY <1>4
    <3> HIDE DEF gone
    <3> QED BY <2>1, <3>1, <3>2, <3>3, <3>4, <3>5 DEF CallOK
  <2> QED BY <2>2, <2>3
<1>10. OneProcess' /\ Memory'
  <2>1. AnyEnforce' <=> AnyEnforce
    BY <1>1, ModeKept
  <2>2. restarts' # 0
    BY <1>0
  <2> QED BY <1>1, <2>1, <2>2 DEF IInv, OneProcess, Memory
<1>11. \A q \in Calls, d \in Decisions :
        /\ Accepted(q, d)' <=> Accepted(q, d)
        /\ call'[q].pc = "creating" => call[q].pc = "creating"
        /\ Presented(q, d) => Presented(q, d)'
  BY <1>5 DEF Accepted, Presented
<1>12. Ledger'
  <2> SUFFICES ASSUME env.firestore, NEW q \in Calls, NEW d \in Decisions, Accepted(q, d)
               PROVE  \/ docs'[d] # None /\ docs'[d] >= deadline[d]
                      \/ /\ deadline[d] < now
                         /\ \A p \in Calls : call'[p].pc = "creating" => call'[p].token # d
    BY ZenonT(30), <1>1, <1>11 DEF Ledger
  <2>1. \/ docs[d] # None /\ docs[d] >= deadline[d]
        \/ /\ deadline[d] < now
           /\ \A p \in Calls : call[p].pc = "creating" => call[p].token # d
    BY DEF IInv, Ledger
  <2> QED BY <1>5, <1>6, <1>11, <2>1
<1>13. AcceptedOnce'
  <2>1. restarts' # 0
    BY <1>0
  <2> QED BY <1>1, <1>11, <2>1 DEF IInv, AcceptedOnce
<1>14. Spenders'
  <2> SUFFICES ASSUME NEW d \in Decisions,
                      docs'[d] # None \/ \E j \in Instances : seen'[j][d] # None
               PROVE  \E q \in Calls : Presented(q, d)'
    BY DEF Spenders
  <2>1. CASE docs[d] # None \/ \E j \in Instances : seen[j][d] # None
    <3>1. PICK q \in Calls : Presented(q, d)
      BY <2>1 DEF IInv, Spenders
    <3> QED BY <1>11, <3>1
  <2>2. CASE docs[d] = None /\ \A j \in Instances : seen[j][d] = None
    <3>1. \A j \in Instances : seen'[j][d] = None
      BY <1>1, <2>2 DEF IInv, TypeOK
    <3>2. PICK r \in late : call[r].token = d
      BY <1>6, <2>2, <3>1
    <3> QED BY <1>5, <1>7, <3>2 DEF Presented
  <2> QED BY <2>1, <2>2
<1>15. SpentByItsOwnWrite'
  <2> SUFFICES ASSUME NEW p \in Calls, call'[p].verdict = "replayed"
               PROVE  \E q \in Calls \ {p} : call'[q].token = call'[p].token /\ call'[q].fits
    BY DEF SpentByItsOwnWrite
  <2>1. PICK q \in Calls \ {p} : call[q].token = call[p].token /\ call[q].fits
    BY <1>5 DEF IInv, SpentByItsOwnWrite
  <2> QED BY <1>5, <2>1
<1> QED BY <1>8, <1>9, <1>10, <1>12, <1>13, <1>14, <1>15 DEF IInv

LEMMA StutterKeeps == ASSUME IInv, UNCHANGED vars PROVE IInv'
<1>1. /\ UNCHANGED <<env, now, deadline, up, seen, docs, live, revoked, call, applied, restarts>>
      /\ live' \subseteq up' /\ revoked' \subseteq live' /\ up' \subseteq Instances
      /\ now' \in Nat /\ now' >= now /\ docs' \in [Decisions -> Nat \cup {None}]
  BY DEF vars, IInv, TypeOK
<1>2. /\ TypeOK' /\ deadline' \in [Decisions -> Deadlines]
      /\ AllCallsOK' /\ Memory' /\ AcceptedOnce'
      /\ Spenders' /\ SpentByItsOwnWrite' /\ (AnyEnforce' <=> AnyEnforce)
  BY <1>1, StillKeeps
<1>3. OneProcess' /\ Ledger'
  BY <1>1, <1>2 DEF IInv, OneProcess, Ledger, Accepted
<1> QED BY <1>2, <1>3 DEF IInv

LEMMA StepIInv == IInv /\ [Next]_vars => IInv'
<1> SUFFICES ASSUME IInv, [Next]_vars PROVE IInv'
  OBVIOUS
<1>1. CASE \E i \in Instances : Boot(i) \/ Crash(i) \/ OpenSession(i) \/ RevokeCredential(i)
  BY <1>1, BootKeeps, CrashKeeps, SessionKeeps
<1>2. CASE \E r \in Calls, i \in Instances, c \in Contracts, d \in Decisions \cup {None},
              f \in BOOLEAN : Arrive(r, i, c, d, f)
  BY <1>2, ArriveKeeps
<1>3. CASE \E r \in Calls : Step(r)
  BY <1>3, PassOffKeeps, VerifyBadKeeps, ConsumeInMemoryKeeps, SendCreateKeeps,
     CreateLandsKeeps, CreateFailsKeeps, AnswerKeeps, RunKeeps DEF Step, Verify
<1>4. CASE \E d \in Decisions : Reclaim(d)
  BY <1>4, ReclaimKeeps
<1>5. CASE Tick
  BY <1>5, TickKeeps
<1>6. CASE UNCHANGED vars
  BY <1>6, StutterKeeps
<1> QED BY <1>1, <1>2, <1>3, <1>4, <1>5, <1>6 DEF Next
-----------------------------------------------------------------------------
THEOREM Invariance == Spec => []IInv
<1> QED BY InitIInv, StepIInv, PTL DEF Spec

\* Every reachable state of the service is well typed; sessions are those of
\* running processes.
THEOREM TypeCorrect == Spec => []TypeOK
<1>1. IInv => TypeOK
  BY DEF IInv
<1> QED BY <1>1, Invariance, PTL

\* A decision for an enforced write takes effect at most once, for any number of
\* processes, retries and restarts, provided that a stored entry outlives the
\* decision (jtiTtlMs; verifyDecisionToken and the two stores).
THEOREM SingleUse == ASSUME LongTtl PROVE Spec => []OneEffectPerDecision
<1>1. IInv => OneEffectPerDecision
  <2> SUFFICES ASSUME IInv, env.firestore \/ restarts = 0,
                      NEW d \in Decisions, MustEnforce(ContractOf[d])
               PROVE  Cardinality(EffectsOf(d)) <= 1
    BY DEF OneEffectPerDecision
  <2>1. ContractOf[d] \in Contracts
    BY GovernanceAssumption
  <2>2. Enforced(ContractOf[d]) /\ AnyEnforce
    BY <2>1, EnforceWins DEF IInv, AnyEnforce, Enforced
  <2>3. \A r \in EffectsOf(d) : r \in Calls /\ Accepted(r, d)
    BY <2>2 DEF EffectsOf, Accepted, IInv, TypeOK, AllCallsOK, CallOK
  <2>4. \A q, r \in EffectsOf(d) : q = r
    BY <2>2, <2>3 DEF IInv, AcceptedOnce
  <2>5. CASE EffectsOf(d) = {}
    BY <2>5, FS_EmptySet
  <2>6. CASE EffectsOf(d) # {}
    <3>1. PICK r : EffectsOf(d) = {r}
      BY <2>4, <2>6
    <3>2. Cardinality({r}) = 1
      BY FS_Singleton
    <3> QED BY <3>1, <3>2
  <2> QED BY <2>5, <2>6
<1> QED BY <1>1, Invariance, PTL

\* An enforced write takes effect only for the call its decision was minted for,
\* and never for one that was told it was rejected (the governance block of the
\* tool handler).
THEOREM DecidedEffects == Spec => []EffectWasDecided
<1>1. IInv => EffectWasDecided
  <2> SUFFICES ASSUME IInv, NEW r \in applied, MustEnforce(call[r].contract)
               PROVE  call[r].fits /\ call[r].verdict = "ok" /\ call[r].result # "rejected"
    BY DEF EffectWasDecided
  <2>1. r \in Calls /\ CallOK(r)
    BY DEF IInv, TypeOK, AllCallsOK
  <2>2. call[r].contract \in Contracts
    BY <2>1 DEF CallOK
  <2>3. Enforced(call[r].contract)
    BY <2>2, EnforceWins DEF IInv
  <2> QED BY <2>1, <2>3 DEF CallOK
<1> QED BY <1>1, Invariance, PTL

\* Only a fitting call can have used a decision up when another is told so.
THEOREM OwnSpending == Spec => []SpentByItsOwnWrite
<1>1. IInv => SpentByItsOwnWrite
  BY DEF IInv
<1> QED BY <1>1, Invariance, PTL
-----------------------------------------------------------------------------
(* Governed writes implement SingleUse, for any number of processes, calls *)
(* and decisions and every deployment whose entries outlive the decisions. *)

\* A promised decision is given to one call.
OneTaker ==
    \A d \in Decisions, q, r \in Calls : <<d, q>> \in Given /\ <<d, r>> \in Given => q = r

LEMMA GivenOnce == LongTtl /\ IInv => OneTaker
<1> SUFFICES ASSUME LongTtl, IInv, NEW d \in Decisions, NEW q \in Calls, NEW r \in Calls,
                    <<d, q>> \in Given, <<d, r>> \in Given
             PROVE  q = r
  BY DEF OneTaker
<1>1. Promised(d) /\ Accepted(q, d) /\ Accepted(r, d)
  BY DEF Given, Accepted
<1>2. ContractOf[d] \in Contracts
  BY GovernanceAssumption
<1>3. AnyEnforce
  BY <1>1, <1>2, EnforceWins DEF IInv, Promised, AnyEnforce, Enforced
<1> QED BY <1>1, <1>3 DEF IInv, AcceptedOnce, Promised

\* Only calls that were given a promised decision take effect on it.
EffectsGiven == \A r \in PromisedEffects : \E g \in Given : g[2] = r

LEMMA EffectsAreGiven == IInv => EffectsGiven
<1> SUFFICES ASSUME IInv, NEW r \in PromisedEffects PROVE \E g \in Given : g[2] = r
  BY DEF EffectsGiven
<1>1. PICK d \in Decisions :
        /\ Promised(d) /\ r \in applied
        /\ call[r].token = d /\ call[r].contract = ContractOf[d]
  BY DEF PromisedEffects, EffectsOf
<1>2. r \in Calls /\ CallOK(r) /\ ContractOf[d] \in Contracts
  BY <1>1, GovernanceAssumption DEF IInv, TypeOK, AllCallsOK
<1>3. Enforced(call[r].contract)
  BY <1>1, <1>2, EnforceWins DEF IInv, Promised
<1>4. <<d, r>> \in Given
  BY <1>1, <1>2, <1>3 DEF CallOK, Given
<1> QED BY <1>4

LEMMA PromiseInit == Init => Promise!Init
BY DEF Init, NoCall, Promise!Init, Given, PromisedEffects

\* What keeps the configuration and the restarts keeps the promises.
LEMMA PromisesKept ==
    ASSUME UNCHANGED <<env, restarts>>
    PROVE  \A d : Promised(d)' <=> Promised(d)
BY DEF Promised, MustEnforce

\* A step that changes no call and no effect.
LEMMA QuietStep ==
    ASSUME UNCHANGED <<env, restarts, call, applied>>
    PROVE  UNCHANGED Promise!promise
<1>1. \A d : Promised(d)' <=> Promised(d)
  BY PromisesKept
<1>2. Given' = Given
  BY <1>1 DEF Given
<1>3. PromisedEffects' = PromisedEffects
  BY <1>1 DEF PromisedEffects, EffectsOf
<1> QED BY <1>2, <1>3 DEF Promise!promise

\* A step of one call that takes no effect: nothing changes, or the call is given
\* its decision.
OwnStep(r) ==
    /\ UNCHANGED <<env, restarts, applied>>
    /\ \A q \in Calls \ {r} : call'[q] = call[q]
    /\ call[r].verdict = "ok" => call'[r].verdict = "ok"
    /\ \/ call[r].pc = "new" /\ call[r].verdict = "none"
       \/ call'[r].token = call[r].token /\ call'[r].contract = call[r].contract

LEMMA OneCallSteps ==
    ASSUME LongTtl, IInv, IInv', NEW r \in Calls, OwnStep(r)
    PROVE  [Promise!Next]_(Promise!promise)
<1>0. OneTaker'
  <2>1. LongTtl'
    BY DEF LongTtl
  <2> QED BY <2>1, GivenOnce, PTL
<1>1. \A d : Promised(d)' <=> Promised(d)
  BY PromisesKept DEF OwnStep
<1>2. PromisedEffects' = PromisedEffects
  <2>1. ASSUME NEW q \in applied
        PROVE  call'[q].token = call[q].token /\ call'[q].contract = call[q].contract
    <3>1. q \in Calls /\ call[q].pc = "done"
      BY DEF IInv, TypeOK, AllCallsOK, CallOK
    <3> QED BY <3>1 DEF OwnStep
  <2>2. applied' = applied
    BY DEF OwnStep
  <2>3. \A q \in applied, d \in Decisions : (q \in EffectsOf(d))' <=> q \in EffectsOf(d)
    BY <2>1, <2>2 DEF EffectsOf
  <2>4. \A q, d : (q \in EffectsOf(d))' <=> q \in applied' /\ call'[q].token = d /\ call'[q].contract = ContractOf[d]
    BY DEF EffectsOf
  <2> QED BY <1>1, <2>2, <2>3 DEF PromisedEffects
<1>3. ASSUME NEW g \in Given PROVE g \in Given'
  <2>1. PICK d \in Decisions, q \in Calls : g = <<d, q>>
    BY DEF Given
  <2>2. Promised(d) /\ call[q].token = d /\ call[q].verdict = "ok"
    BY <2>1, <1>3 DEF Given
  <2>3. call'[q].token = d /\ call'[q].verdict = "ok"
    BY <2>2 DEF OwnStep
  <2> QED BY <1>1, <2>1, <2>2, <2>3 DEF Given
<1>4. ASSUME NEW g \in Given', g \notin Given
      PROVE  \E d \in Decisions : g = <<d, r>>
  <2>1. PICK d \in Decisions, q \in Calls : g = <<d, q>>
    BY DEF Given
  <2>2. Promised(d) /\ call'[q].token = d /\ call'[q].verdict = "ok"
    BY <1>1, <1>4, <2>1 DEF Given
  <2>3. q = r
    BY <1>4, <2>1, <2>2 DEF OwnStep, Given
  <2> QED BY <2>1, <2>3
<1>5. CASE Given' = Given
  BY <1>2, <1>5 DEF Promise!promise
<1>6. CASE Given' # Given
  <2>1. PICK g \in Given' : g \notin Given
    BY <1>3, <1>6
  <2>2. PICK d \in Decisions : g = <<d, r>>
    BY <1>4, <2>1
  <2>3. \A h \in Given' : h \notin Given => h = g
    <3> SUFFICES ASSUME NEW h \in Given', h \notin Given PROVE h = g
      OBVIOUS
    <3>1. PICK e \in Decisions : h = <<e, r>>
      BY <1>4
    <3>2. call'[r].token = e /\ call'[r].token = d
      BY <3>1, <2>1, <2>2 DEF Given
    <3> QED BY <3>1, <3>2, <2>2
  <2>4. Given' = Given \cup {<<d, r>>}
    BY <1>3, <2>1, <2>2, <2>3
  <2>5. \A h \in Given : h[1] # d
    <3> SUFFICES ASSUME NEW h \in Given, h[1] = d PROVE FALSE
      OBVIOUS
    <3>1. PICK q \in Calls : h = <<d, q>>
      BY DEF Given
    <3>2. <<d, q>> \in Given' /\ <<d, r>> \in Given'
      BY <3>1, <1>3, <2>1, <2>2
    <3>3. q = r
      BY <3>2, <1>0 DEF OneTaker
    <3> QED BY <3>1, <3>3, <2>1, <2>2
  <2>6. Promise!Give(d, r)
    BY <1>2, <2>4, <2>5 DEF Promise!Give
  <2> QED BY <2>6 DEF Promise!Next
<1> QED BY <1>5, <1>6

\* A step that gives nothing and lets calls take effect.
LEMMA EffectStep ==
    ASSUME IInv', env' = env, \A d : Promised(d)' <=> Promised(d),
           \A q \in Calls : /\ call'[q].token = call[q].token
                           /\ call'[q].contract = call[q].contract
                           /\ call'[q].verdict = call[q].verdict,
           applied \subseteq applied', applied' \subseteq Calls
    PROVE  [Promise!Next]_(Promise!promise)
<1>1. Given' = Given
  BY DEF Given
<1>2. PromisedEffects \subseteq PromisedEffects' /\ PromisedEffects' \in SUBSET Calls
  BY DEF PromisedEffects, EffectsOf
<1>3. \A r \in PromisedEffects' : \E g \in Given' : g[2] = r
  <2>1. EffectsGiven'
    BY EffectsAreGiven, PTL
  <2> QED BY <2>1 DEF EffectsGiven
<1>4. PromisedEffects' = PromisedEffects \cup PromisedEffects'
  BY <1>2
<1>5. Promise!TakeEffect(PromisedEffects')
  BY <1>1, <1>3, <1>4 DEF Promise!TakeEffect
<1> QED BY <1>2, <1>5 DEF Promise!Next

\* The write of a call takes effect, or the call ends without.
LEMMA RunSteps ==
    ASSUME IInv, IInv', NEW r \in Calls, Run(r)
    PROVE  [Promise!Next]_(Promise!promise)
<1>1. PICK res \in {"ran", "failed", "unauthorized", "noSession"} :
        /\ call' = [call EXCEPT ![r].pc = "done", ![r].result = res]
        /\ UNCHANGED <<env, restarts>>
        /\ applied' \in {applied, applied \cup {r}}
  BY DEF Run, RunNoSession, RunUnauthorized, RunApplied, RunFailed, Finish
<1>2. \A q \in Calls : /\ call'[q].token = call[q].token
                       /\ call'[q].contract = call[q].contract
                       /\ call'[q].verdict = call[q].verdict
  BY <1>1 DEF IInv, TypeOK, CallType
<1>3. applied \subseteq applied' /\ applied' \subseteq Calls
  BY <1>1 DEF IInv, TypeOK
<1>4. env' = env /\ \A d : Promised(d)' <=> Promised(d)
  BY <1>1, PromisesKept
<1> QED BY <1>2, <1>3, <1>4, EffectStep

\* A process goes away, and what it had sent arrives or not.
LEMMA CrashSteps ==
    ASSUME IInv, IInv', NEW i \in Instances, Crash(i)
    PROVE  [Promise!Next]_(Promise!promise)
<1>1. /\ call' = [r \in Calls |->
            IF call[r].on = i /\ call[r].pc \notin {"new", "done"}
            THEN [call[r] EXCEPT !.pc = "done", !.result = "lost"] ELSE call[r]]
      /\ env' = env /\ restarts' = restarts + 1
      /\ applied \subseteq applied'
  BY DEF Crash
<1>2. \A q \in Calls : /\ call'[q].token = call[q].token
                       /\ call'[q].contract = call[q].contract
                       /\ call'[q].verdict = call[q].verdict
  <2> TAKE q \in Calls
  <2>1. call[q] \in CallType
    BY DEF IInv, TypeOK
  <2>2. call'[q] \in {call[q], [call[q] EXCEPT !.pc = "done", !.result = "lost"]}
    BY <1>1
  <2> QED BY <2>1, <2>2 DEF CallType
<1>3. applied' \subseteq Calls
  BY DEF IInv, TypeOK
<1>4. CASE env.firestore
  <2>1. \A d : Promised(d)' <=> Promised(d)
    BY <1>1, <1>4 DEF Promised, MustEnforce
  <2> QED BY <1>1, <1>2, <1>3, <2>1, EffectStep
<1>5. CASE ~env.firestore
  <2>1. \A d : ~Promised(d)'
    <3>1. restarts \in Nat
      BY DEF IInv, TypeOK
    <3>2. restarts' # 0
      <4>1. restarts' = restarts + 1
        BY <1>1, Zenon
      <4> QED BY <3>1, <4>1
    <3>3. ~env'.firestore
      BY <1>1, <1>5, Zenon
    <3> QED BY <3>2, <3>3 DEF Promised
  <2>2. Given' = {} /\ PromisedEffects' = {}
    BY <2>1 DEF Given, PromisedEffects
  <2> QED BY <2>2 DEF Promise!Next, Promise!Forget
<1> QED BY <1>4, <1>5

\* Every step of the service is one of the promise.
LEMMA PromiseStep ==
    ASSUME LongTtl
    PROVE  IInv /\ IInv' /\ [Next]_vars => [Promise!Next]_(Promise!promise)
<1> SUFFICES ASSUME IInv, IInv', [Next]_vars PROVE [Promise!Next]_(Promise!promise)
  OBVIOUS
<1>0. /\ call \in [Calls -> CallType]
      /\ \A r \in Calls : CallOK(r)
  BY DEF IInv, TypeOK, AllCallsOK
<1>1. ASSUME NEW i \in Instances, Boot(i) \/ OpenSession(i) \/ RevokeCredential(i)
      PROVE  UNCHANGED Promise!promise
  BY <1>1, QuietStep DEF Boot, OpenSession, RevokeCredential
<1>2. ASSUME Tick \/ UNCHANGED vars \/ \E d \in Decisions : Reclaim(d)
      PROVE  UNCHANGED Promise!promise
  BY <1>2, QuietStep DEF Tick, Reclaim, vars
<1>3. ASSUME NEW r \in Calls, NEW i \in Instances, NEW c \in Contracts,
             NEW d \in Decisions \cup {None}, NEW f \in BOOLEAN, Arrive(r, i, c, d, f)
      PROVE  [Promise!Next]_(Promise!promise)
  <2>1. OwnStep(r)
    BY <1>0, <1>3 DEF OwnStep, Arrive, CallOK
  <2> QED BY <2>1, OneCallSteps
<1>4. ASSUME NEW r \in Calls, NEW v \in {"ok", "bad", "replayed", "storeError"}, Conclude(r, v),
             call[r].verdict = "ok" => v = "ok", UNCHANGED <<env, restarts, applied>>
      PROVE  [Promise!Next]_(Promise!promise)
  <2> DEFINE rejected == [call EXCEPT ![r].pc = "done", ![r].verdict = v, ![r].result = "rejected"]
             cleared == [call EXCEPT ![r].pc = "cleared", ![r].verdict = v]
  <2>0. call' = rejected \/ call' = cleared
    BY <1>4 DEF Conclude
  <2>1. OwnStep(r)
    <3>1. call[r] \in CallType
      BY <1>0
    <3>2. /\ \A q \in Calls \ {r} : call'[q] = call[q]
          /\ call'[r].verdict = v /\ call'[r].token = call[r].token
          /\ call'[r].contract = call[r].contract
      BY <1>0, <2>0, <3>1 DEF CallType
    <3> QED BY <1>4, <3>2 DEF OwnStep
  <2> QED BY <2>1, OneCallSteps
<1>5. ASSUME NEW r \in Calls, Verify(r)
      PROVE  [Promise!Next]_(Promise!promise)
  <2>0. call[r].verdict = "none"
    BY <1>0, <1>5 DEF Verify, PassOff, VerifyBad, ConsumeInMemory, SendCreate, Verified, CallOK
  <2>1. CASE PassOff(r)
    <3>1. OwnStep(r)
      BY <1>0, <2>0, <2>1 DEF OwnStep, PassOff
    <3> QED BY <3>1, OneCallSteps
  <2>2. CASE VerifyBad(r)
    BY <1>4, <2>0, <2>2 DEF VerifyBad
  <2>3. CASE ConsumeInMemory(r)
    BY <1>4, <2>0, <2>3 DEF ConsumeInMemory
  <2>4. CASE SendCreate(r)
    <3>1. OwnStep(r)
      BY <1>0, <2>0, <2>4 DEF OwnStep, SendCreate
    <3> QED BY <3>1, OneCallSteps
  <2> QED BY <1>5, <2>1, <2>2, <2>3, <2>4 DEF Verify
<1>6. ASSUME NEW r \in Calls, CreateLands(r) \/ CreateFails(r)
      PROVE  [Promise!Next]_(Promise!promise)
  <2>0. call[r].verdict = "none"
    BY <1>0, <1>6 DEF CreateLands, CreateFails, CallOK
  <2>1. /\ \E v \in {"ok", "replayed", "storeError"} :
             call' = [call EXCEPT ![r].pc = "answered", ![r].verdict = v]
        /\ UNCHANGED <<env, restarts, applied>>
    BY <1>6 DEF CreateLands, CreateFails
  <2>2. /\ \A q \in Calls \ {r} : call'[q] = call[q]
        /\ call'[r].token = call[r].token /\ call'[r].contract = call[r].contract
    BY <1>0, <2>1 DEF CallType
  <2>3. OwnStep(r)
    BY <2>0, <2>1, <2>2 DEF OwnStep
  <2> QED BY <2>3, OneCallSteps
<1>7. ASSUME NEW r \in Calls, Answer(r)
      PROVE  [Promise!Next]_(Promise!promise)
  <2>1. call[r].verdict \in {"ok", "replayed", "storeError"}
    BY <1>0, <1>7 DEF Answer, CallOK
  <2> QED BY <1>4, <1>7, <2>1 DEF Answer
<1> QED
  BY <1>1, <1>2, <1>3, <1>5, <1>6, <1>7, CrashSteps, RunSteps DEF Next, Step

\* A decision for an enforced write is given to one call, and nothing but that
\* call takes effect on it, in any deployment whose store remembers and whose
\* entries outlive the decisions.
THEOREM ImplementsSingleUse == ASSUME LongTtl PROVE Spec => DecisionsUsedOnce
BY PromiseInit, PromiseStep, Invariance, PTL
   DEF Spec, DecisionsUsedOnce, Promise!Spec
=============================================================================
