-------------------------- MODULE ReportStore_proofs --------------------------
(***************************************************************************)
(* Theorems about ReportStore for any processes, sessions, calls, readers  *)
(* and deletions, and every lifetime and capacity.                         *)
(***************************************************************************)
EXTENDS ReportStore, FiniteSetTheorems, WellFoundedInduction, TLAPS

\* A body that was stored has a caller that went on, and only a stored body
\* is mirrored.
CallsOK ==
    \A c \in Calls :
        /\ call[c].pc # "idle" => call[c].on \in Instances
        /\ c \in Stored => call[c].pc \notin {"idle", "downloading"}
        /\ mirror[c] # "none" => bucket /\ c \in Stored

\* What is in memory was stored there, and if its session has gone, after it had.
EntriesOK ==
    \A i \in Instances : \A c \in entries[i] :
        c \in Stored /\ call[c].on = i /\ (Owner(c) \notin open[i] => call[c].late)

Landed == {c \in Calls : call[c].pc \in {"signing", "handed", "done"}}

\* An object is missing only for a call that something disturbed.
ObjectsOK ==
    /\ objects \subseteq Landed
    /\ \A c \in Calls : call[c].pc \in {"signing", "handed"} /\ call[c].undisturbed => c \in objects

\* A deletion works on one session, whose calls it disturbs, and has listed
\* all it owes.
SweepsOK ==
    \A w \in Sweeps :
        /\ sweep[w].left \subseteq Landed \intersect OfSession(sweep[w].of)
        /\ sweep[w].owed \subseteq Landed \intersect OfSession(sweep[w].of)
        /\ sweep[w].pc \in {"listing", "deleting"} =>
               \A c \in OfSession(sweep[w].of) : ~call[c].undisturbed
        /\ sweep[w].pc = "deleting" => sweep[w].owed \intersect objects \subseteq sweep[w].left

\* A read is of a stored body, and what it saw in the mirror stays there.
ReadsOK ==
    \A r \in Readers : read[r].pc \notin {"idle", "unanswered"} =>
        /\ read[r].of \in Stored
        /\ read[r].there => mirror[read[r].of] = "there"

\* Stores are numbered one by one as the clock goes on.
OrderOK ==
    /\ \A c \in Stored : call[c].nth <= Cardinality(Stored) /\ call[c].at <= now
    /\ \A c, d \in Stored : c # d => call[c].nth # call[d].nth
    /\ \A c, d \in Stored : call[c].nth < call[d].nth => call[c].at <= call[d].at

IInv ==
    /\ TypeOK
    /\ CallsOK
    /\ EntriesOK
    /\ ObjectsOK
    /\ SweepsOK
    /\ SweepIsComplete
    /\ ReadsOK
    /\ ServedToItsSessionInTime
    /\ MirroredIsReadable
    /\ OrderOK
    /\ NewestKept

-----------------------------------------------------------------------------
(* Finite sets of calls, and eviction                                      *)

LEMMA FiniteCalls ==
    ASSUME NEW S, S \subseteq Calls
    PROVE  IsFiniteSet(S) /\ Cardinality(S) \in Nat
BY ReportAssumption, FS_Subset, FS_CardinalityType

LEMMA SmallerSet ==
    ASSUME NEW S, NEW T, T \subseteq Calls, S \subseteq T
    PROVE  Cardinality(S) <= Cardinality(T)
BY FiniteCalls, FS_Subset

LEMMA LeastNumber ==
    ASSUME NEW S \in SUBSET Nat, S # {}
    PROVE  \E m \in S : \A n \in S : m <= n
<1>1. PICK m \in S : \A n \in S : ~(<<n, m>> \in OpToRel(<, Nat))
  BY WFMin, NatLessThanWellFounded
<1>2. \A n \in S : ~(n < m)
  BY <1>1 DEF OpToRel
<1> QED BY <1>2

\* evictOldest() drops one entry, the one that was stored first.
LEMMA EvictsFirstStored ==
    ASSUME TypeOK, OrderOK, NEW S, S \subseteq Stored, S # {}
    PROVE  \E c \in S : /\ WithoutOldest(S) = S \ {c}
                        /\ \A d \in S \ {c} : call[c].nth < call[d].nth
<1> DEFINE Numbers == {call[d].nth : d \in S}
<1>1. Numbers \in SUBSET Nat /\ Numbers # {}
  BY DEF TypeOK, CallRecord, Stored
<1>2. PICK m \in Numbers : \A n \in Numbers : m <= n
  BY <1>1, LeastNumber
<1>3. PICK c \in S : call[c].nth = m
  OBVIOUS
<1>4. \A d \in S \ {c} : call[c].nth < call[d].nth
  <2> TAKE d \in S \ {c}
  <2>1. call[d].nth \in Nat /\ call[c].nth \in Nat /\ call[c].nth <= call[d].nth
    BY <1>1, <1>2, <1>3
  <2>2. call[c].nth # call[d].nth
    BY DEF OrderOK
  <2> QED BY <2>1, <2>2
<1>5. \A d \in S : call[d].at \in Nat /\ call[d].nth \in Nat
  BY ReportAssumption DEF TypeOK, CallRecord, Stored
<1>6. \A d \in S \ {c} : call[c].at <= call[d].at
  BY <1>4 DEF OrderOK
<1>7. \A d \in S \ {c} : Older(c, d) /\ ~Older(d, c)
  BY <1>4, <1>5, <1>6 DEF Older
<1>8. ~Older(c, c)
  BY <1>5 DEF Older
<1>9. WithoutOldest(S) = S \ {c}
  BY <1>7, <1>8 DEF WithoutOldest
<1> QED BY <1>4, <1>9

\* store() leaves room for the body it adds.
LEMMA RoomIsMade ==
    ASSUME TypeOK, OrderOK, NEW i \in Instances
    PROVE  MakeRoom(i) \subseteq entries[i] /\ Cardinality(MakeRoom(i)) < MaxEntries
<1>1. entries[i] \subseteq Stored /\ Stored \subseteq Calls /\ Cardinality(entries[i]) <= MaxEntries
  BY DEF TypeOK, CallRecord, Stored
<1>2. Fresh(i) \subseteq entries[i]
  BY DEF Fresh
<1>3. Cardinality(Fresh(i)) <= MaxEntries /\ Cardinality(Fresh(i)) \in Nat
  BY <1>1, <1>2, SmallerSet, FiniteCalls, ReportAssumption
<1>4. CASE Cardinality(Fresh(i)) >= MaxEntries
  <2>1. Fresh(i) # {}
    BY <1>4, FS_EmptySet, ReportAssumption
  <2>2. PICK c \in Fresh(i) : WithoutOldest(Fresh(i)) = Fresh(i) \ {c}
    BY <1>1, <1>2, <2>1, EvictsFirstStored
  <2>3. Cardinality(Fresh(i) \ {c}) = Cardinality(Fresh(i)) - 1
    BY <1>1, <1>2, <2>2, FiniteCalls, FS_RemoveElement
  <2> QED BY <1>2, <1>3, <1>4, <2>2, <2>3, ReportAssumption DEF MakeRoom
<1>5. CASE ~(Cardinality(Fresh(i)) >= MaxEntries)
  BY <1>2, <1>3, <1>5, ReportAssumption DEF MakeRoom
<1> QED BY <1>4, <1>5

\* What a step without a store leaves alone of the calls.
LEMMA OnlyStoreNumbers ==
    ASSUME TypeOK, [Next]_vars, \A c \in Calls, b \in Bodies : ~Store(c, b)
    PROVE  /\ Stored' = Stored
           /\ \A c \in Calls : /\ call'[c].nth = call[c].nth
                               /\ call'[c].at = call[c].at
                               /\ call'[c].late = call[c].late
                               /\ call[c].pc # "idle" =>
                                      call'[c].on = call[c].on /\ call'[c].by = call[c].by
<1> DEFINE Same == \A c \in Calls : /\ call'[c].nth = call[c].nth
                                    /\ call'[c].at = call[c].at
                                    /\ call'[c].late = call[c].late
                                    /\ call[c].pc # "idle" =>
                                           call'[c].on = call[c].on /\ call'[c].by = call[c].by
<1>1. ASSUME call' = call PROVE Same
  BY <1>1
<1>2. ASSUME NEW i \in Instances, NEW s \in Sessions, Close(i, s) PROVE Same
  BY <1>2 DEF Close, Disturb, TypeOK, CallRecord
<1>3. ASSUME NEW i \in Instances, NEW s \in Sessions, NEW c \in Calls, StartDownload(c, i, s)
      PROVE  Same
  BY <1>3 DEF StartDownload, TypeOK, CallRecord
<1>4. ASSUME NEW c \in Calls, NEW b \in Bodies, NotStored(c, b) PROVE Same
  BY <1>4 DEF NotStored, TypeOK, CallRecord
<1>5. ASSUME NEW c \in Calls, SaveLands(c) \/ Signed(c) \/ SpillFails(c) PROVE Same
  <2>1. PICK pc : call' = [call EXCEPT ![c].pc = pc]
    BY <1>5 DEF SaveLands, Signed, SpillFails
  <2> QED BY <2>1 DEF TypeOK, CallRecord
<1>6. ASSUME NEW i \in Instances, Crash(i) PROVE Same
  BY <1>6 DEF Crash, TypeOK, CallRecord
<1>7. Same
  BY ZenonT(30), <1>1, <1>2, <1>3, <1>4, <1>5, <1>6
     DEF Next, vars, Open, MirrorLands, MirrorFails, List, SweepEnds, SweepFails, DeleteObject,
         ReadResource, Fetched, FetchFails, ListResources, Tick
<1> QED BY <1>7 DEF Stored

\* The number of entries stays within the bound when none is added.
LEMMA FewerEntriesFit ==
    ASSUME TypeOK, entries' \in [Instances -> SUBSET Calls],
           \A i \in Instances : entries'[i] \subseteq entries[i]
    PROVE  /\ entries' \in [Instances -> SUBSET Stored]
           /\ \A i \in Instances : Cardinality(entries'[i]) <= MaxEntries
<1>1. \A i \in Instances : entries[i] \subseteq Calls
  BY DEF TypeOK, CallRecord, Stored
<1>2. \A i \in Instances : Cardinality(entries'[i]) <= Cardinality(entries[i])
  BY <1>1, SmallerSet
<1>3. \A i \in Instances : Cardinality(entries'[i]) \in Nat /\ Cardinality(entries[i]) \in Nat
  BY <1>1, FiniteCalls
<1> QED BY <1>2, <1>3, ReportAssumption DEF TypeOK

\* What a store writes; it stores a body for the first time.
LEMMA WhatIsStored ==
    ASSUME TypeOK, CallsOK, OrderOK, NEW c \in Calls, NEW b \in Bodies, Store(c, b)
    PROVE  /\ call[c].on \in Instances /\ c \notin Stored
           /\ Cardinality(Stored) \in Nat
           /\ call' \in [Calls -> CallRecord]
           /\ Stored' = Stored \union {c}
           /\ Cardinality(Stored') = Cardinality(Stored) + 1
           /\ call'[c].pc = Spill(b) /\ call'[c].on = call[c].on /\ call'[c].by = call[c].by
           /\ call'[c].nth = Cardinality(Stored) + 1 /\ call'[c].at = now
           /\ call'[c].undisturbed = call[c].undisturbed
           /\ call'[c].late = (Owner(c) \notin open[call[c].on])
           /\ \A d \in Calls \ {c} : call'[d] = call[d]
<1>1. call[c].on \in Instances /\ c \notin Stored
  BY DEF CallsOK, Store
<1>2. IsFiniteSet(Stored) /\ Cardinality(Stored) \in Nat
  BY FiniteCalls DEF Stored
<1>3. call' = [call EXCEPT ![c] = [call[c] EXCEPT !.pc = Spill(b), !.at = now,
                                             !.nth = Cardinality(Stored) + 1,
                                             !.late = Owner(c) \notin open[call[c].on]]]
  BY DEF Store, TypeOK, CallRecord
<1>4. Spill(b) \in {"saving", "done"}
  BY DEF Spill
<1>5. call' \in [Calls -> CallRecord]
  <2>1. call \in [Calls -> CallRecord] /\ now \in 0 .. MaxTime
    BY DEF TypeOK
  <2>2. \A pc \in {"saving", "done"}, n \in Nat, late \in BOOLEAN :
            [call[c] EXCEPT !.pc = pc, !.at = now, !.nth = n, !.late = late] \in CallRecord
    BY <2>1 DEF CallRecord
  <2>3. (Owner(c) \notin open[call[c].on]) \in BOOLEAN /\ Cardinality(Stored) + 1 \in Nat
    BY <1>2
  <2>4. [call[c] EXCEPT !.pc = Spill(b), !.at = now, !.nth = Cardinality(Stored) + 1,
                        !.late = Owner(c) \notin open[call[c].on]] \in CallRecord
    BY <1>4, <2>2, <2>3
  <2> QED BY <1>3, <2>1, <2>4
<1>6. Stored' = Stored \union {c}
  <2>1. call'[c].nth > 0 /\ \A d \in Calls \ {c} : call'[d] = call[d]
    BY <1>2, <1>3 DEF TypeOK, CallRecord
  <2> QED BY <2>1 DEF Stored
<1>7. Cardinality(Stored') = Cardinality(Stored) + 1
  BY <1>1, <1>2, <1>6, FS_AddElement
<1>8. call \in [Calls -> CallRecord]
  BY DEF TypeOK
<1>9. /\ call'[c] = [call[c] EXCEPT !.pc = Spill(b), !.at = now, !.nth = Cardinality(Stored) + 1,
                                    !.late = Owner(c) \notin open[call[c].on]]
      /\ \A d \in Calls \ {c} : call'[d] = call[d]
  BY <1>3, <1>8
<1>10. \A n, pc, late : LET x == [call[c] EXCEPT !.pc = pc, !.at = now, !.nth = n, !.late = late]
                        IN  /\ x.pc = pc /\ x.on = call[c].on /\ x.by = call[c].by
                            /\ x.nth = n /\ x.at = now
                            /\ x.undisturbed = call[c].undisturbed /\ x.late = late
  BY <1>8 DEF CallRecord
<1>11. /\ call'[c].pc = Spill(b) /\ call'[c].on = call[c].on /\ call'[c].by = call[c].by
       /\ call'[c].nth = Cardinality(Stored) + 1 /\ call'[c].at = now
       /\ call'[c].undisturbed = call[c].undisturbed
       /\ call'[c].late = (Owner(c) \notin open[call[c].on])
  BY <1>9, <1>10
<1> QED BY <1>1, <1>2, <1>5, <1>6, <1>7, <1>9, <1>11

-----------------------------------------------------------------------------
(* Types                                                                   *)

LEMMA InitIsTyped == Init => TypeOK
<1> SUFFICES ASSUME Init PROVE TypeOK
  OBVIOUS
<1>1. now \in 0 .. MaxTime /\ bucket \in BOOLEAN
  BY ReportAssumption DEF Init
<1>2. call \in [Calls -> CallRecord] /\ sweep \in [Sweeps -> SweepRecord]
      /\ read \in [Readers -> ReadRecord]
  BY ReportAssumption
     DEF Init, NoCall, NoSweep, NoRead, CallRecord, SweepRecord, ReadRecord
<1>3. \A i \in Instances : Cardinality(entries[i]) <= MaxEntries
  BY FS_EmptySet, ReportAssumption DEF Init
<1> QED BY <1>1, <1>2, <1>3 DEF Init, TypeOK

LEMMA CallsStayTyped ==
    ASSUME TypeOK, CallsOK, OrderOK, [Next]_vars
    PROVE  call' \in [Calls -> CallRecord]
<1> USE DEF TypeOK, CallRecord
<1>1. ASSUME NEW i \in Instances, NEW s \in Sessions, Close(i, s)
      PROVE  call' \in [Calls -> CallRecord]
  <2>1. \A c \in Calls : [call[c] EXCEPT !.undisturbed = FALSE] \in CallRecord
    BY ZenonT(30)
  <2> QED BY <1>1, <2>1 DEF Close, Disturb
<1>2. ASSUME NEW i \in Instances, NEW s \in Sessions, NEW c \in Calls, StartDownload(c, i, s)
      PROVE  call' \in [Calls -> CallRecord]
  <2>1. PICK u \in BOOLEAN :
            call' = [call EXCEPT ![c] = [call[c] EXCEPT !.pc = "downloading", !.by = s, !.on = i,
                                                        !.undisturbed = u]]
    BY <1>2 DEF StartDownload
  <2>2. [call[c] EXCEPT !.pc = "downloading", !.by = s, !.on = i, !.undisturbed = u] \in CallRecord
    BY ZenonT(60)
  <2> QED BY <2>1, <2>2
<1>3. ASSUME NEW c \in Calls, NEW b \in Bodies, Store(c, b)
      PROVE  call' \in [Calls -> CallRecord]
  BY <1>3, WhatIsStored
<1>4. ASSUME NEW c \in Calls, NEW b \in Bodies, NotStored(c, b)
      PROVE  call' \in [Calls -> CallRecord]
  BY <1>4 DEF NotStored, Spill
<1>5. ASSUME NEW c \in Calls, SaveLands(c) \/ Signed(c) \/ SpillFails(c)
      PROVE  call' \in [Calls -> CallRecord]
  <2>1. PICK pc \in {"signing", "handed", "lost", "done"} : call' = [call EXCEPT ![c].pc = pc]
    BY <1>5 DEF SaveLands, Signed, SpillFails, GivenUp
  <2> QED BY <2>1
<1>6. ASSUME NEW i \in Instances, Crash(i) PROVE call' \in [Calls -> CallRecord]
  <2>1. \A c \in Calls : [call[c] EXCEPT !.pc = GivenUp(call[c].pc)] \in CallRecord
    BY DEF GivenUp
  <2> QED BY <1>6, <2>1 DEF Crash
<1> QED
  BY ZenonT(30), <1>1, <1>2, <1>3, <1>4, <1>5, <1>6
     DEF Next, vars, Open, MirrorLands, MirrorFails, List, SweepEnds, SweepFails, DeleteObject,
         ReadResource, Fetched, FetchFails, ListResources, Tick

LEMMA SweepsStayTyped ==
    ASSUME TypeOK, [Next]_vars
    PROVE  sweep' \in [Sweeps -> SweepRecord]
<1> USE DEF TypeOK, SweepRecord
<1>1. ASSUME NEW i \in Instances, NEW s \in Sessions, Close(i, s)
      PROVE  sweep' \in [Sweeps -> SweepRecord]
  BY <1>1 DEF Close, StartSweep, OfSession
<1>2. ASSUME NEW w \in Sweeps, List(w) \/ SweepEnds(w) \/ SweepFails(w)
      PROVE  sweep' \in [Sweeps -> SweepRecord]
  <2>1. Abandoned \in SweepRecord
    BY DEF Abandoned, NoSweep
  <2> QED BY <1>2, <2>1 DEF List, SweepEnds, SweepFails, Listed, WithPrefix, OfSession
<1>3. ASSUME NEW w \in Sweeps, NEW c \in Calls, DeleteObject(w, c)
      PROVE  sweep' \in [Sweeps -> SweepRecord]
  BY SMTT(30), <1>3 DEF DeleteObject
<1>4. ASSUME NEW i \in Instances, Crash(i) PROVE sweep' \in [Sweeps -> SweepRecord]
  <2>1. Abandoned \in SweepRecord
    BY DEF Abandoned, NoSweep
  <2> QED BY <1>4, <2>1 DEF Crash
<1> QED
  BY ZenonT(30), <1>1, <1>2, <1>3, <1>4
     DEF Next, vars, Open, StartDownload, Store, NotStored, MirrorLands, MirrorFails, SaveLands,
         Signed, SpillFails, ReadResource, Fetched, FetchFails, ListResources, Tick

\* A read ends with an answer about the body it asked for.
LEMMA AnsweredIsTyped ==
    ASSUME NEW pc \in {"served", "notFound"}, NEW s \in Sessions \union {None},
           NEW c \in Calls \union {None}, NEW there \in BOOLEAN
    PROVE  Answered(pc, s, c, there) \in ReadRecord
<1>1. InTime(c) \in BOOLEAN
  BY DEF InTime
<1> QED BY <1>1 DEF Answered, ReadRecord

LEMMA ReadsStayTyped ==
    ASSUME TypeOK, [Next]_vars
    PROVE  read' \in [Readers -> ReadRecord]
<1> USE DEF TypeOK
<1>1. ASSUME NEW r \in Readers, NEW i \in Instances, NEW s \in Sessions, NEW c \in Calls,
             ReadResource(r, i, s, c)
      PROVE  read' \in [Readers -> ReadRecord]
  <2>1. /\ Verdict(c, s) \in {"served", "notFound"}
        /\ (mirror[c] = "there") \in BOOLEAN
    BY DEF Verdict
  <2>2. [pc |-> "fetching", by |-> s, on |-> i, of |-> c, there |-> mirror[c] = "there",
         inTime |-> TRUE, failed |-> FALSE] \in ReadRecord
    BY <2>1 DEF ReadRecord
  <2>3. PICK a \in ReadRecord : read' = [read EXCEPT ![r] = a]
    BY <1>1, <2>1, <2>2, AnsweredIsTyped DEF ReadResource, Miss
  <2> QED BY <2>3
<1>2. ASSUME NEW r \in Readers, Fetched(r) \/ FetchFails(r)
      PROVE  read' \in [Readers -> ReadRecord]
  <2>1. read[r] \in ReadRecord
    OBVIOUS
  <2> DEFINE A(pc) == Answered(pc, read[r].by, read[r].of, read[r].there)
  <2>2. A("served") \in ReadRecord /\ A("notFound") \in ReadRecord
    BY SMTT(60), <2>1, AnsweredIsTyped DEF ReadRecord
  <2>3. \A a \in ReadRecord : [a EXCEPT !.failed = TRUE] \in ReadRecord
    BY DEF ReadRecord
  <2>4. \/ read' = [read EXCEPT ![r] = A("served")]
        \/ read' = [read EXCEPT ![r] = A("notFound")]
        \/ read' = [read EXCEPT ![r] = [A("notFound") EXCEPT !.failed = TRUE]]
    BY <1>2 DEF Fetched, FetchFails, Verdict
  <2> HIDE DEF A
  <2> QED BY <2>2, <2>3, <2>4
<1>3. ASSUME NEW i \in Instances, Crash(i) PROVE read' \in [Readers -> ReadRecord]
  <2>1. Unanswered \in ReadRecord
    BY DEF Unanswered, NoRead, ReadRecord
  <2> QED BY <1>3, <2>1 DEF Crash
<1> QED
  BY <1>1, <1>2, <1>3
     DEF Next, vars, Open, Close, StartDownload, Store, NotStored, MirrorLands, MirrorFails,
         SaveLands, Signed, SpillFails, List, SweepEnds, SweepFails, DeleteObject, ListResources,
         Tick

LEMMA EntriesStayWithinBound ==
    ASSUME TypeOK, CallsOK, OrderOK, [Next]_vars
    PROVE  /\ entries' \in [Instances -> SUBSET Stored']
           /\ \A i \in Instances : Cardinality(entries'[i]) <= MaxEntries
<1>0. entries \in [Instances -> SUBSET Calls]
  BY DEF TypeOK, Stored
<1>1. CASE \E c \in Calls, b \in Bodies : Store(c, b)
  <2>1. PICK c \in Calls, b \in Bodies : Store(c, b)
    BY <1>1
  <2> DEFINE i == call[c].on
  <2>2. /\ i \in Instances /\ c \notin Stored /\ Stored' = Stored \union {c}
        /\ entries' = [entries EXCEPT ![i] = MakeRoom(i) \union {c}]
    BY <2>1, WhatIsStored DEF Store
  <2>3. MakeRoom(i) \subseteq entries[i] /\ Cardinality(MakeRoom(i)) < MaxEntries
    BY <2>2, RoomIsMade
  <2>4. entries[i] \subseteq Stored /\ entries[i] \subseteq Calls
    BY <2>2 DEF TypeOK, Stored
  <2>5. Cardinality(MakeRoom(i) \union {c}) <= MaxEntries
    <3>1. IsFiniteSet(MakeRoom(i)) /\ Cardinality(MakeRoom(i)) \in Nat
      BY <2>3, <2>4, FiniteCalls
    <3>2. Cardinality(MakeRoom(i) \union {c}) = Cardinality(MakeRoom(i)) + 1
      BY <2>2, <2>3, <2>4, <3>1, FS_AddElement
    <3> QED BY <2>3, <3>1, <3>2, ReportAssumption
  <2> HIDE DEF i
  <2>6. entries' \in [Instances -> SUBSET Stored']
    BY <2>2, <2>3 DEF TypeOK
  <2> QED BY <2>2, <2>5, <2>6 DEF TypeOK
<1>2. CASE ~\E c \in Calls, b \in Bodies : Store(c, b)
  <2>1. entries' \in [Instances -> SUBSET Calls] /\ \A i \in Instances : entries'[i] \subseteq entries[i]
    <3>1. ASSUME NEW i \in Instances, NEW s \in Sessions, Close(i, s)
          PROVE  \E S \in SUBSET entries[i] : entries' = [entries EXCEPT ![i] = S]
      BY <3>1 DEF Close, ClearForSession
    <3>2. ASSUME NEW r \in Readers, NEW i \in Instances, NEW s \in Sessions, NEW c \in Calls,
                 ReadResource(r, i, s, c)
          PROVE  \E S \in SUBSET entries[i] : entries' = [entries EXCEPT ![i] = S]
      BY <3>2 DEF ReadResource
    <3>3. ASSUME NEW i \in Instances, ListResources(i) \/ Crash(i)
          PROVE  \E S \in SUBSET entries[i] : entries' = [entries EXCEPT ![i] = S]
      BY <3>3 DEF ListResources, Crash, Fresh
    <3>4. \/ entries' = entries
          \/ \E i \in Instances : \E S \in SUBSET entries[i] : entries' = [entries EXCEPT ![i] = S]
      BY <1>2, <3>1, <3>2, <3>3
         DEF Next, vars, Open, StartDownload, NotStored, MirrorLands, MirrorFails, SaveLands, Signed,
             SpillFails, List, SweepEnds, SweepFails, DeleteObject, Fetched, FetchFails, Tick
    <3> QED BY <1>0, <3>4
  <2>2. Stored' = Stored
    BY <1>2, OnlyStoreNumbers
  <2> QED BY <2>1, <2>2, FewerEntriesFit
<1> QED BY <1>1, <1>2

LEMMA TypeStep ==
    ASSUME TypeOK, CallsOK, OrderOK, [Next]_vars
    PROVE  TypeOK'
<1> DEFINE Rest ==
        /\ now \in 0 .. MaxTime
        /\ bucket \in BOOLEAN
        /\ open \in [Instances -> SUBSET Sessions]
        /\ mirror \in [Calls -> {"none", "writing", "there"}]
        /\ objects \in SUBSET Calls
        /\ crashed \in SUBSET Instances
<1>1. ASSUME NEW i \in Instances, NEW s \in Sessions, Open(i, s) \/ Close(i, s) PROVE Rest'
  BY <1>1 DEF Open, Close, TypeOK
<1>2. ASSUME NEW i \in Instances, NEW s \in Sessions, NEW c \in Calls, StartDownload(c, i, s)
      PROVE  Rest'
  BY <1>2 DEF StartDownload, TypeOK
<1>3. ASSUME NEW c \in Calls, NEW b \in Bodies, Store(c, b) \/ NotStored(c, b) PROVE Rest'
  BY <1>3 DEF Store, NotStored, TypeOK
<1>4. ASSUME NEW c \in Calls, \/ MirrorLands(c) \/ MirrorFails(c)
                              \/ SaveLands(c) \/ Signed(c) \/ SpillFails(c)
      PROVE  Rest'
  BY <1>4 DEF MirrorLands, MirrorFails, SaveLands, Signed, SpillFails, TypeOK
<1>5. ASSUME NEW w \in Sweeps, List(w) \/ SweepEnds(w) \/ SweepFails(w) PROVE Rest'
  BY <1>5 DEF List, SweepEnds, SweepFails, TypeOK
<1>6. ASSUME NEW w \in Sweeps, NEW c \in Calls, DeleteObject(w, c) PROVE Rest'
  BY <1>6 DEF DeleteObject, TypeOK
<1>7. ASSUME NEW r \in Readers, NEW i \in Instances, NEW s \in Sessions, NEW c \in Calls,
             ReadResource(r, i, s, c)
      PROVE  Rest'
  BY <1>7 DEF ReadResource, TypeOK
<1>8. ASSUME NEW r \in Readers, Fetched(r) \/ FetchFails(r) PROVE Rest'
  BY <1>8 DEF Fetched, FetchFails, TypeOK
<1>9. ASSUME NEW i \in Instances, ListResources(i) \/ Crash(i) PROVE Rest'
  BY <1>9 DEF ListResources, Crash, TypeOK
<1>10. ASSUME Tick PROVE Rest'
  BY <1>10, ReportAssumption DEF Tick, TypeOK
<1>11. ASSUME UNCHANGED vars PROVE Rest'
  BY <1>11 DEF vars, TypeOK
<1>12. Rest'
  BY <1>1, <1>2, <1>3, <1>4, <1>5, <1>6, <1>7, <1>8, <1>9, <1>10, <1>11 DEF Next
<1> QED
  BY <1>12, CallsStayTyped, SweepsStayTyped, ReadsStayTyped, EntriesStayWithinBound DEF TypeOK

-----------------------------------------------------------------------------
(* The other parts of the invariant                                        *)

LEMMA OrderStep ==
    ASSUME TypeOK, CallsOK, OrderOK, [Next]_vars
    PROVE  OrderOK'
<1>1. CASE \E c \in Calls, b \in Bodies : Store(c, b)
  <2>1. PICK c \in Calls, b \in Bodies : Store(c, b)
    BY <1>1
  <2>2. /\ c \notin Stored /\ Stored' = Stored \union {c}
        /\ Cardinality(Stored) \in Nat /\ Cardinality(Stored') = Cardinality(Stored) + 1
        /\ call'[c].nth = Cardinality(Stored) + 1 /\ call'[c].at = now
        /\ \A d \in Calls \ {c} : call'[d] = call[d]
        /\ now' = now
    BY <2>1, WhatIsStored DEF Store
  <2>3. \A d \in Stored : /\ d \in Calls \ {c} /\ call'[d] = call[d]
                          /\ call[d].nth \in Nat /\ call[d].at \in Nat /\ now \in Nat
    BY <2>2, ReportAssumption DEF TypeOK, CallRecord, Stored
  <2> QED BY <2>2, <2>3, ReportAssumption DEF OrderOK, TypeOK
<1>2. CASE ~\E c \in Calls, b \in Bodies : Store(c, b)
  <2>1. /\ Stored' = Stored /\ Stored \subseteq Calls
        /\ \A c \in Stored : call'[c].nth = call[c].nth /\ call'[c].at = call[c].at
    BY <1>2, OnlyStoreNumbers DEF Stored
  <2>2. now \in Nat /\ (now' = now \/ now' = now + 1)
    <3>1. now \in Nat
      BY ReportAssumption DEF TypeOK
    <3>2. now' = now \/ now' = now + 1
      BY ZenonT(30) DEF Next, vars, Open, Close, StartDownload, Store, NotStored, MirrorLands, MirrorFails,
             SaveLands, Signed, SpillFails, List, SweepEnds, SweepFails, DeleteObject,
             ReadResource, Fetched, FetchFails, ListResources, Crash, Tick
    <3> QED BY <3>1, <3>2
  <2>3. \A c \in Stored : call[c].at \in Nat
    BY ReportAssumption DEF TypeOK, CallRecord, Stored
  <2> QED BY <2>1, <2>2, <2>3 DEF OrderOK
<1> QED BY <1>1, <1>2

LEMMA CallsStep ==
    ASSUME TypeOK, CallsOK, OrderOK, [Next]_vars
    PROVE  CallsOK'
<1> USE DEF TypeOK, CallRecord, CallsOK, Stored
<1>1. ASSUME NEW i \in Instances, NEW s \in Sessions, Open(i, s) \/ Close(i, s)
      PROVE  CallsOK'
  BY <1>1 DEF Open, Close, Disturb
<1>2. ASSUME NEW i \in Instances, NEW s \in Sessions, NEW c \in Calls, StartDownload(c, i, s)
      PROVE  CallsOK'
  BY <1>2 DEF StartDownload
<1>3. ASSUME NEW c \in Calls, NEW b \in Bodies, Store(c, b)
      PROVE  CallsOK'
  <2>1. /\ Stored' = Stored \union {c}
        /\ call'[c].pc = Spill(b) /\ call'[c].on \in Instances
        /\ \A d \in Calls \ {c} : call'[d] = call[d]
    BY <1>3, WhatIsStored
  <2>2. bucket' = bucket /\ (mirror' = mirror \/ (bucket /\ mirror' = [mirror EXCEPT ![c] = "writing"]))
    <3>1. bucket' = bucket
      BY <1>3 DEF Store
    <3>2. CASE bucket
      BY <1>3, <3>1, <3>2, Zenon DEF Store
    <3>3. CASE ~bucket
      BY <1>3, <3>1, <3>3, Zenon DEF Store
    <3> QED BY <3>2, <3>3
  <2> QED BY <2>1, <2>2 DEF Spill
<1>4. ASSUME NEW c \in Calls, NEW b \in Bodies, NotStored(c, b)
      PROVE  CallsOK'
  BY <1>4 DEF NotStored, Spill
<1>5. ASSUME NEW c \in Calls, MirrorLands(c) \/ MirrorFails(c)
      PROVE  CallsOK'
  BY <1>5 DEF MirrorLands, MirrorFails
<1>6. ASSUME NEW c \in Calls, SaveLands(c) \/ Signed(c) \/ SpillFails(c)
      PROVE  CallsOK'
  <2>1. PICK pc \in {"signing", "handed", "lost", "done"} :
            call[c].pc # "idle" /\ call' = [call EXCEPT ![c].pc = pc]
    BY <1>6 DEF SaveLands, Signed, SpillFails, GivenUp
  <2> QED BY <1>6, <2>1 DEF SaveLands, Signed, SpillFails
<1>7. ASSUME NEW i \in Instances, Crash(i)
      PROVE  CallsOK'
  BY <1>7 DEF Crash, GivenUp
<1>8. ASSUME UNCHANGED <<bucket, call, mirror>>
      PROVE  CallsOK'
  BY <1>8
<1>9. ASSUME \/ \E w \in Sweeps : \/ List(w) \/ SweepEnds(w) \/ SweepFails(w)
                                \/ \E c \in Calls : DeleteObject(w, c)
             \/ \E r \in Readers, i \in Instances, s \in Sessions, c \in Calls :
                    ReadResource(r, i, s, c)
             \/ \E r \in Readers : Fetched(r) \/ FetchFails(r)
             \/ \E i \in Instances : ListResources(i)
             \/ Tick \/ UNCHANGED vars
      PROVE  UNCHANGED <<bucket, call, mirror>>
  BY ZenonT(30), <1>9 DEF vars, List, SweepEnds, SweepFails, DeleteObject, ReadResource, Fetched, FetchFails,
              ListResources, Tick
<1> HIDE DEF TypeOK, CallRecord, CallsOK, Stored
<1> QED
  BY <1>1, <1>2, <1>3, <1>4, <1>5, <1>6, <1>7, <1>8, <1>9 DEF Next

LEMMA EntriesStep ==
    ASSUME TypeOK, CallsOK, OrderOK, EntriesOK, [Next]_vars
    PROVE  EntriesOK'
<1>1. CASE \E c \in Calls, b \in Bodies : Store(c, b)
  <2>1. PICK c \in Calls, b \in Bodies : Store(c, b)
    BY <1>1
  <2> DEFINE i == call[c].on
  <2>2. /\ i \in Instances /\ c \notin Stored /\ Stored' = Stored \union {c}
        /\ entries' = [entries EXCEPT ![i] = MakeRoom(i) \union {c}]
        /\ call'[c].on = i /\ call'[c].by = call[c].by
        /\ call'[c].late = (Owner(c) \notin open[i])
        /\ \A d \in Calls \ {c} : call'[d] = call[d]
        /\ open' = open
    BY <2>1, WhatIsStored DEF Store, Owner
  <2>3. MakeRoom(i) \subseteq entries[i]
    BY <2>2, RoomIsMade
  <2> HIDE DEF i
  <2>4. \A j \in Instances : entries'[j] \subseteq entries[j] \union {c} /\ (c \in entries'[j] => j = i)
    BY <2>2, <2>3 DEF TypeOK, EntriesOK
  <2>5. Stored \subseteq Calls
    BY DEF Stored
  <2>6. ASSUME NEW j \in Instances, NEW d \in entries'[j]
        PROVE  d \in Stored' /\ call'[d].on = j /\ (call'[d].by \notin open'[j] => call'[d].late)
    <3>1. CASE d = c
      <4>1. j = i
        BY <2>4, <3>1
      <4>2. call'[c].by \notin open'[i] => call'[c].late
        BY <2>2, Zenon DEF Owner
      <4> QED BY <2>2, <3>1, <4>1, <4>2
    <3>2. CASE d # c
      <4>1. d \in Stored /\ call[d].on = j /\ (call[d].by \notin open[j] => call[d].late)
        BY <2>4, <3>2 DEF EntriesOK, Owner
      <4>2. call'[d] = call[d] /\ open' = open
        BY <2>2, <2>5, <3>2, <4>1
      <4> QED BY <2>2, <4>1, <4>2
    <3> QED BY <3>1, <3>2
  <2> QED BY <2>6 DEF EntriesOK, Owner
<1>2. CASE ~\E c \in Calls, b \in Bodies : Store(c, b)
  <2>1. /\ Stored' = Stored
        /\ \A c \in Stored : call'[c].on = call[c].on /\ call'[c].by = call[c].by
                             /\ call'[c].late = call[c].late
    BY <1>2, OnlyStoreNumbers DEF CallsOK, Stored
  <2> DEFINE Held == \A j \in Instances : \A c \in entries'[j] :
                         c \in entries[j] /\ (call[c].by \in open[j] => call[c].by \in open'[j])
  <2>2. Held
    <3> USE DEF TypeOK
    <3>0. \A j \in Instances : entries[j] \subseteq Calls
      BY DEF Stored
    <3>1. ASSUME NEW i \in Instances, NEW s \in Sessions, Open(i, s) PROVE Held
      BY <3>1 DEF Open
    <3>2. ASSUME NEW i \in Instances, NEW s \in Sessions, Close(i, s) PROVE Held
      BY <3>0, <3>2 DEF Close, ClearForSession, OfSession, Owner
    <3>3. ASSUME NEW r \in Readers, NEW i \in Instances, NEW s \in Sessions, NEW c \in Calls,
                 ReadResource(r, i, s, c)
          PROVE  Held
      BY <3>3 DEF ReadResource
    <3>4. ASSUME NEW i \in Instances, ListResources(i) \/ Crash(i) PROVE Held
      BY <3>4 DEF ListResources, Crash, Fresh
    <3> QED
      BY <1>2, <3>1, <3>2, <3>3, <3>4
         DEF Next, vars, StartDownload, NotStored, MirrorLands, MirrorFails, SaveLands, Signed,
             SpillFails, List, SweepEnds, SweepFails, DeleteObject, Fetched, FetchFails, Tick
  <2> QED BY <2>1, <2>2 DEF EntriesOK, Owner
<1> QED BY <1>1, <1>2

\* A call that has landed stays with its session, and its disturbance stays too.
LEMMA LandedStays ==
    ASSUME TypeOK, CallsOK, OrderOK, [Next]_vars
    PROVE  \A c \in Landed : /\ c \in Landed'
                             /\ call'[c].by = call[c].by
                             /\ call'[c].undisturbed => call[c].undisturbed
<1> DEFINE Stays == \A c \in Landed : /\ call'[c].pc \in {"signing", "handed", "done"}
                                      /\ call'[c].by = call[c].by
                                      /\ call'[c].undisturbed => call[c].undisturbed
<1> USE DEF TypeOK, CallRecord, Landed
<1>1. ASSUME NEW i \in Instances, NEW s \in Sessions, Close(i, s) PROVE Stays
  BY <1>1 DEF Close, Disturb
<1>2. ASSUME NEW i \in Instances, NEW s \in Sessions, NEW c \in Calls, StartDownload(c, i, s)
      PROVE  Stays
  BY <1>2 DEF StartDownload
<1>3. ASSUME NEW c \in Calls, NEW b \in Bodies, Store(c, b) PROVE Stays
  <2>1. call[c].pc = "downloading" /\ \A d \in Calls \ {c} : call'[d] = call[d]
    BY <1>3, WhatIsStored DEF Store
  <2> QED BY <2>1
<1>4. ASSUME NEW c \in Calls, NEW b \in Bodies, NotStored(c, b) PROVE Stays
  BY <1>4 DEF NotStored
<1>5. ASSUME NEW c \in Calls, SaveLands(c) \/ Signed(c) \/ SpillFails(c) PROVE Stays
  BY <1>5 DEF SaveLands, Signed, SpillFails, GivenUp
<1>6. ASSUME NEW i \in Instances, Crash(i) PROVE Stays
  BY <1>6 DEF Crash, GivenUp
<1>7. Stays
  BY ZenonT(60), <1>1, <1>2, <1>3, <1>4, <1>5, <1>6
     DEF Next, vars, Open, MirrorLands, MirrorFails, List, SweepEnds, SweepFails, DeleteObject,
         ReadResource, Fetched, FetchFails, ListResources, Tick
<1> QED BY <1>7

LEMMA ObjectsStep ==
    ASSUME TypeOK, CallsOK, OrderOK, ObjectsOK, SweepsOK, [Next]_vars
    PROVE  ObjectsOK'
<1> DEFINE Linked == \A c \in Calls :
               call'[c].pc \in {"signing", "handed"} /\ call'[c].undisturbed => c \in objects'
<1>1. objects' \subseteq objects \union Landed'
  <2>1. ASSUME NEW c \in Calls, SaveLands(c) PROVE objects' \subseteq objects \union Landed'
    BY <2>1 DEF SaveLands, Landed, TypeOK, CallRecord
  <2>2. ASSUME NEW w \in Sweeps, NEW c \in Calls, DeleteObject(w, c)
        PROVE  objects' \subseteq objects \union Landed'
    BY <2>2 DEF DeleteObject
  <2> QED
    BY ZenonT(30), <2>1, <2>2
       DEF Next, vars, Open, Close, StartDownload, Store, NotStored, MirrorLands, MirrorFails,
           Signed, SpillFails, List, SweepEnds, SweepFails, ReadResource, Fetched, FetchFails,
           ListResources, Crash, Tick
<1>2. objects' \subseteq Landed'
  BY <1>1, LandedStays DEF ObjectsOK
<1>3. Linked
  <2> USE DEF TypeOK, CallRecord, ObjectsOK
  <2>1. ASSUME NEW i \in Instances, NEW s \in Sessions, Close(i, s) PROVE Linked
    BY <2>1 DEF Close, Disturb
  <2>2. ASSUME NEW i \in Instances, NEW s \in Sessions, NEW c \in Calls, StartDownload(c, i, s)
        PROVE  Linked
    BY <2>2 DEF StartDownload
  <2>3. ASSUME NEW c \in Calls, NEW b \in Bodies, Store(c, b) PROVE Linked
    <3>1. /\ call'[c].pc = Spill(b) /\ objects' = objects
          /\ \A d \in Calls \ {c} : call'[d] = call[d]
      BY <2>3, WhatIsStored DEF Store
    <3> QED BY <3>1 DEF Spill
  <2>4. ASSUME NEW c \in Calls, NEW b \in Bodies, NotStored(c, b) PROVE Linked
    BY <2>4 DEF NotStored, Spill
  <2>5. ASSUME NEW c \in Calls, SaveLands(c) \/ Signed(c) \/ SpillFails(c) PROVE Linked
    BY <2>5 DEF SaveLands, Signed, SpillFails, GivenUp
  <2>6. ASSUME NEW w \in Sweeps, NEW c \in Calls, DeleteObject(w, c) PROVE Linked
    <3>1. ~call[c].undisturbed
      BY <2>6 DEF DeleteObject, SweepsOK
    <3> QED BY <2>6, <3>1 DEF DeleteObject
  <2>7. ASSUME NEW i \in Instances, Crash(i) PROVE Linked
    BY <2>7 DEF Crash, GivenUp
  <2> QED
    BY ZenonT(30), <2>1, <2>2, <2>3, <2>4, <2>5, <2>6, <2>7
       DEF Next, vars, Open, MirrorLands, MirrorFails, List, SweepEnds, SweepFails,
           ReadResource, Fetched, FetchFails, ListResources, Tick
<1> QED BY <1>2, <1>3 DEF ObjectsOK

LEMMA SweepsStep ==
    ASSUME TypeOK, CallsOK, OrderOK, ObjectsOK, SweepsOK, SweepIsComplete, [Next]_vars
    PROVE  SweepsOK' /\ SweepIsComplete'
<1> DEFINE Works(w) ==
        /\ sweep[w].left \subseteq Landed \intersect OfSession(sweep[w].of)
        /\ sweep[w].owed \subseteq Landed \intersect OfSession(sweep[w].of)
        /\ sweep[w].pc = "deleting" => sweep[w].owed \intersect objects \subseteq sweep[w].left
        /\ sweep[w].pc = "ended" => sweep[w].owed \intersect objects = {}
           Disturbing(w) == sweep[w].pc \in {"listing", "deleting"} =>
               \A c \in Calls : call[c].by = sweep[w].of => ~call[c].undisturbed
<1>1. \A w \in Sweeps : Works(w) /\ Disturbing(w)
  BY DEF SweepsOK, SweepIsComplete, OfSession, Owner
<1>2. \A w \in Sweeps : sweep[w].owed \intersect objects' \subseteq sweep[w].owed \intersect objects
  <2>1. ASSUME NEW c \in Calls, SaveLands(c)
        PROVE  objects' \intersect Landed \subseteq objects
    BY <2>1 DEF SaveLands, Landed
  <2>2. ASSUME NEW w \in Sweeps, NEW c \in Calls, DeleteObject(w, c)
        PROVE  objects' \intersect Landed \subseteq objects
    BY <2>2 DEF DeleteObject
  <2>3. objects' \intersect Landed \subseteq objects
    BY ZenonT(30), <2>1, <2>2
       DEF Next, vars, Open, Close, StartDownload, Store, NotStored, MirrorLands, MirrorFails,
           Signed, SpillFails, List, SweepEnds, SweepFails, ReadResource, Fetched, FetchFails,
           ListResources, Crash, Tick
  <2> QED BY <1>1, <2>3
<1>3. \A s : Landed \intersect OfSession(s) \subseteq Landed' \intersect OfSession(s)'
  BY LandedStays DEF OfSession, Owner, Landed
<1>4. ASSUME NEW w \in Sweeps, sweep'[w] = sweep[w] PROVE Works(w)'
  BY <1>1, <1>2, <1>3, <1>4
<1>5. \A w \in Sweeps : Works(w)'
  <2> USE DEF TypeOK, SweepRecord
  <2>1. ASSUME NEW i \in Instances, NEW s \in Sessions, Close(i, s), NEW w \in Sweeps
        PROVE  Works(w)'
    <3>1. CASE sweep'[w] = sweep[w]
      BY <1>4, <3>1
    <3>2. CASE sweep'[w] # sweep[w]
      <4>1. sweep'[w] = [pc |-> "listing", of |-> s, on |-> i, left |-> {},
                         owed |-> objects \intersect OfSession(s)]
        BY <2>1, <3>2 DEF Close, StartSweep
      <4>2. objects \intersect OfSession(s) \subseteq Landed \intersect OfSession(s)
        BY DEF ObjectsOK
      <4> QED BY <1>3, <4>1, <4>2
    <3> QED BY <3>1, <3>2
  <2>2. ASSUME NEW w \in Sweeps, NEW v \in Sweeps, List(v) PROVE Works(w)'
    <3>1. CASE w # v
      BY <1>4, <2>2, <3>1 DEF List
    <3>2. CASE w = v
      <4>1. /\ sweep'[w].pc = "deleting" /\ sweep'[w].left = Listed(sweep[w].of)
            /\ sweep'[w].owed = sweep[w].owed /\ sweep'[w].of = sweep[w].of
        BY <2>2, <3>2 DEF List
      <4>2. Listed(sweep[w].of) = objects \intersect OfSession(sweep[w].of)
        BY DEF Listed, WithPrefix
      <4>3. objects' = objects /\ objects \subseteq Landed
        BY <2>2 DEF List, ObjectsOK
      <4> QED BY <1>1, <1>3, <4>1, <4>2, <4>3
    <3> QED BY <3>1, <3>2
  <2>3. ASSUME NEW w \in Sweeps, NEW v \in Sweeps, NEW c \in Calls, DeleteObject(v, c)
        PROVE  Works(w)'
    <3>1. CASE w # v
      BY <1>4, <2>3, <3>1 DEF DeleteObject
    <3>2. CASE w = v
      <4>1. /\ sweep'[w].pc = "deleting" /\ sweep[w].pc = "deleting"
            /\ sweep'[w].left = sweep[w].left \ {c}
            /\ sweep'[w].owed = sweep[w].owed /\ sweep'[w].of = sweep[w].of
            /\ objects' = objects \ {c}
        BY <2>3, <3>2 DEF DeleteObject
      <4> QED BY <1>1, <1>3, <4>1
    <3> QED BY <3>1, <3>2
  <2>4. ASSUME NEW w \in Sweeps, NEW v \in Sweeps, SweepEnds(v) \/ SweepFails(v) PROVE Works(w)'
    <3>1. CASE w # v
      BY <1>4, <2>4, <3>1 DEF SweepEnds, SweepFails
    <3>2. CASE w = v
      <4>1. /\ objects' = objects
            /\ \/ /\ sweep'[w].pc = "ended" /\ sweep[w].pc = "deleting" /\ sweep[w].left = {}
                  /\ sweep'[w].left = sweep[w].left /\ sweep'[w].owed = sweep[w].owed
                  /\ sweep'[w].of = sweep[w].of
               \/ sweep'[w].pc = "failed" /\ sweep'[w].left = {} /\ sweep'[w].owed = {}
        BY <2>4, <3>2 DEF SweepEnds, SweepFails, Abandoned, NoSweep
      <4> QED BY <1>1, <1>3, <4>1
    <3> QED BY <3>1, <3>2
  <2>5. ASSUME NEW i \in Instances, Crash(i), NEW w \in Sweeps PROVE Works(w)'
    <3>1. CASE sweep'[w] = sweep[w]
      BY <1>4, <3>1
    <3>2. CASE sweep'[w] # sweep[w]
      <4>1. sweep'[w].pc = "failed" /\ sweep'[w].left = {} /\ sweep'[w].owed = {}
        BY <2>5, <3>2 DEF Crash, Abandoned, NoSweep
      <4> QED BY <1>1, <1>3, <4>1
    <3> QED BY <3>1, <3>2
  <2> QED
    BY ZenonT(30), <1>4, <2>1, <2>2, <2>3, <2>4, <2>5
       DEF Next, vars, Open, StartDownload, Store, NotStored, MirrorLands, MirrorFails, SaveLands,
           Signed, SpillFails, ReadResource, Fetched, FetchFails, ListResources, Tick
<1>6. \A w \in Sweeps : Disturbing(w)'
  <2> USE DEF TypeOK, SweepRecord, CallRecord
  <2>1. ASSUME NEW i \in Instances, NEW s \in Sessions, Close(i, s) PROVE \A w \in Sweeps : Disturbing(w)'
    BY <1>1, <2>1 DEF Close, StartSweep, Disturb, Owner
  <2>2. ASSUME NEW i \in Instances, NEW s \in Sessions, NEW c \in Calls, StartDownload(c, i, s)
        PROVE  \A w \in Sweeps : Disturbing(w)'
    <3>1. /\ call'[c].by = s /\ call'[c].undisturbed = ~Sweeping(s)
          /\ \A d \in Calls \ {c} : call'[d] = call[d]
          /\ sweep' = sweep
      BY <2>2 DEF StartDownload
    <3>2. ASSUME NEW w \in Sweeps, sweep[w].pc \in {"listing", "deleting"}, sweep[w].of = s
          PROVE  ~call'[c].undisturbed
      <4>1. Sweeping(s)
        BY <3>2 DEF Sweeping
      <4> QED BY <3>1, <4>1
    <3> QED BY <1>1, <3>1, <3>2
  <2>3. ASSUME NEW c \in Calls, NEW b \in Bodies, Store(c, b) PROVE \A w \in Sweeps : Disturbing(w)'
    <3>1. /\ call'[c].by = call[c].by /\ call'[c].undisturbed = call[c].undisturbed
          /\ \A d \in Calls \ {c} : call'[d] = call[d]
          /\ sweep' = sweep
      BY <2>3, WhatIsStored DEF Store
    <3> QED BY <1>1, <3>1
  <2>4. ASSUME NEW c \in Calls, NEW b \in Bodies, NotStored(c, b)
        PROVE  \A w \in Sweeps : Disturbing(w)'
    BY <1>1, <2>4 DEF NotStored
  <2>5. ASSUME NEW c \in Calls, SaveLands(c) \/ Signed(c) \/ SpillFails(c)
        PROVE  \A w \in Sweeps : Disturbing(w)'
    <3>1. PICK pc \in {"signing", "handed", "lost", "done"} :
              call' = [call EXCEPT ![c].pc = pc] /\ sweep' = sweep
      BY <2>5 DEF SaveLands, Signed, SpillFails, GivenUp
    <3> QED BY <1>1, <3>1
  <2>6. ASSUME NEW w \in Sweeps, List(w) \/ SweepEnds(w) \/ SweepFails(w)
        PROVE  \A v \in Sweeps : Disturbing(v)'
    <3>1. /\ sweep[w].pc \in {"listing", "deleting"} /\ call' = call
          /\ \A v \in Sweeps : /\ sweep'[v].of = sweep[v].of \/ sweep'[v].pc = "failed"
                               /\ v # w => sweep'[v] = sweep[v]
      BY <2>6 DEF List, SweepEnds, SweepFails, Abandoned, NoSweep
    <3> QED BY <1>1, <3>1
  <2>7. ASSUME NEW w \in Sweeps, NEW c \in Calls, DeleteObject(w, c)
        PROVE  \A v \in Sweeps : Disturbing(v)'
    BY <1>1, <2>7 DEF DeleteObject
  <2>8. ASSUME NEW i \in Instances, Crash(i) PROVE \A w \in Sweeps : Disturbing(w)'
    BY <1>1, <2>8 DEF Crash, Abandoned
  <2> QED
    BY ZenonT(60), <1>1, <2>1, <2>2, <2>3, <2>4, <2>5, <2>6, <2>7, <2>8
       DEF Next, vars, Open, MirrorLands, MirrorFails, ReadResource, Fetched, FetchFails,
           ListResources, Tick
<1> QED BY <1>5, <1>6 DEF SweepsOK, SweepIsComplete, OfSession, Owner

\* What was in the mirror stays there.
LEMMA MirrorStays ==
    ASSUME TypeOK, CallsOK, OrderOK, [Next]_vars
    PROVE  \A c \in Calls : mirror[c] = "there" => mirror'[c] = "there"
<1> DEFINE Stays == \A c \in Calls : mirror[c] = "there" => mirror'[c] = "there"
<1>1. ASSUME NEW c \in Calls, NEW b \in Bodies, Store(c, b) PROVE Stays
  <2>1. mirror[c] # "there"
    BY <1>1, WhatIsStored DEF CallsOK
  <2>2. mirror' = mirror \/ mirror' = [mirror EXCEPT ![c] = "writing"]
    BY <1>1 DEF Store
  <2> QED BY <2>1, <2>2 DEF TypeOK
<1>2. ASSUME NEW c \in Calls, MirrorLands(c) \/ MirrorFails(c) PROVE Stays
  BY <1>2 DEF MirrorLands, MirrorFails, TypeOK
<1> QED
  BY ZenonT(30), <1>1, <1>2
     DEF Next, vars, Open, Close, StartDownload, NotStored, SaveLands, Signed, SpillFails, List,
         SweepEnds, SweepFails, DeleteObject, ReadResource, Fetched, FetchFails, ListResources,
         Crash, Tick

LEMMA ReadsStep ==
    ASSUME TypeOK, CallsOK, OrderOK, ReadsOK, ServedToItsSessionInTime, MirroredIsReadable,
           [Next]_vars
    PROVE  ReadsOK' /\ ServedToItsSessionInTime' /\ MirroredIsReadable'
<1> DEFINE Right(a) ==
        a.pc \notin {"idle", "unanswered"} =>
            /\ a.of \in Stored
            /\ a.there => mirror[a.of] = "there"
            /\ a.pc = "served" => a.by = call[a.of].by /\ a.inTime
            /\ a.pc = "notFound" /\ a.there /\ a.by = call[a.of].by => ~a.inTime \/ a.failed
<1>1. \A r \in Readers : Right(read[r])
  BY DEF ReadsOK, ServedToItsSessionInTime, MirroredIsReadable, Owner
<1>2. \A c \in Stored : c \in Stored' /\ call'[c].by = call[c].by /\ c \in Calls
  <2>1. CASE \E c \in Calls, b \in Bodies : Store(c, b)
    BY <2>1, WhatIsStored DEF Stored
  <2>2. CASE ~\E c \in Calls, b \in Bodies : Store(c, b)
    BY <2>2, OnlyStoreNumbers DEF CallsOK, Stored
  <2> QED BY <2>1, <2>2
<1>3. ASSUME NEW r \in Readers, Right(read'[r]) PROVE Right(read[r])'
  BY <1>2, <1>3, MirrorStays
<1>4. ASSUME NEW c \in Stored, NEW s, NEW there \in BOOLEAN, there => mirror[c] = "there",
             NEW pc, pc = Verdict(c, s)
      PROVE  Right(Answered(pc, s, c, there))
  <2>1. InTime(c) \in BOOLEAN
    BY DEF InTime
  <2>2. /\ pc = "served" => s = call[c].by /\ InTime(c)
        /\ pc = "notFound" /\ s = call[c].by => ~InTime(c)
    BY <1>4 DEF Verdict, Owner
  <2>3. /\ Answered(pc, s, c, there).pc = pc /\ Answered(pc, s, c, there).of = c
        /\ Answered(pc, s, c, there).by = s /\ Answered(pc, s, c, there).there = there
        /\ Answered(pc, s, c, there).inTime = InTime(c)
    BY DEF Answered
  <2>4. there => mirror[c] = "there"
    BY <1>4
  <2> HIDE DEF Answered
  <2> QED BY <2>1, <2>2, <2>3, <2>4, Zenon
<1>5. \A r \in Readers : Right(read[r])'
  <2> USE DEF TypeOK, ReadRecord
  <2>1. ASSUME NEW r \in Readers, NEW i \in Instances, NEW s \in Sessions, NEW c \in Calls,
               ReadResource(r, i, s, c)
        PROVE  Right(read'[r])
    <3>0. c \in Stored /\ c \in Calls
      BY <2>1 DEF ReadResource
    <3>1. CASE c \in Fresh(i)
      <4>1. read'[r] = Answered(Verdict(c, s), s, c, FALSE)
        BY <2>1, <3>1 DEF ReadResource
      <4>2. \E t \in BOOLEAN : ~t /\ read'[r] = Answered(Verdict(c, s), s, c, t)
        BY <4>1, Zenon
      <4>3. PICK t \in BOOLEAN : ~t /\ read'[r] = Answered(Verdict(c, s), s, c, t)
        BY <4>2
      <4>4. Right(Answered(Verdict(c, s), s, c, t))
        BY <1>4, <3>0, <4>3
      <4> QED BY <4>3, <4>4, Zenon
    <3>2. CASE c \notin Fresh(i) /\ ~bucket
      <4>1. read'[r] = Answered("notFound", s, c, mirror[c] = "there")
        BY <2>1, <3>2 DEF ReadResource, Miss
      <4>2. mirror[c] # "there"
        BY <3>0, <3>2 DEF CallsOK
      <4>3. read'[r].pc = "notFound" /\ read'[r].of = c
            /\ read'[r].there = (mirror[c] = "there")
        BY <4>1 DEF Answered
      <4> QED BY <3>0, <4>2, <4>3, Zenon
    <3>3. CASE c \notin Fresh(i) /\ bucket
      <4>1. read'[r] = [pc |-> "fetching", by |-> s, on |-> i, of |-> c,
                        there |-> mirror[c] = "there", inTime |-> TRUE, failed |-> FALSE]
        BY <2>1, <3>3 DEF ReadResource, Miss
      <4>2. read'[r].pc = "fetching" /\ read'[r].of = c
            /\ read'[r].there = (mirror[c] = "there")
        BY <4>1
      <4> QED BY <3>0, <4>2, Zenon
    <3> QED BY <3>1, <3>2, <3>3
  <2>2. ASSUME NEW r \in Readers, Fetched(r) PROVE Right(read'[r])
    <3> DEFINE c == read[r].of
               s == read[r].by
    <3>1. c \in Stored /\ read[r].there \in BOOLEAN /\ (read[r].there => mirror[c] = "there")
      BY <1>1, <2>2 DEF Fetched
    <3>2. read'[r] = Answered(IF mirror[c] = "there" THEN Verdict(c, s) ELSE "notFound",
                              s, c, read[r].there)
      BY <2>2 DEF Fetched
    <3> HIDE DEF c, s
    <3>3. CASE mirror[c] = "there"
      BY <1>4, <3>1, <3>2, <3>3
    <3>4. CASE mirror[c] # "there"
      <4>1. read'[r].pc = "notFound" /\ read'[r].of = c /\ ~read'[r].there
        BY <3>1, <3>2, <3>4 DEF Answered
      <4> QED BY <3>1, <4>1
    <3> QED BY <3>3, <3>4
  <2>3. ASSUME NEW r \in Readers, FetchFails(r) PROVE Right(read'[r])
    <3>1. read[r].of \in Stored /\ read[r].there \in BOOLEAN
          /\ (read[r].there => mirror[read[r].of] = "there")
      BY <1>1, <2>3 DEF FetchFails
    <3>2. /\ read'[r].pc = "notFound" /\ read'[r].of = read[r].of
          /\ read'[r].there = read[r].there /\ read'[r].failed
      BY <2>3 DEF FetchFails, Answered
    <3> QED BY <3>1, <3>2
  <2>4. ASSUME NEW r \in Readers, read'[r] = read[r] PROVE Right(read'[r])
    BY <1>1, <2>4
  <2>5. ASSUME NEW v \in Readers, NEW i \in Instances, NEW s \in Sessions, NEW c \in Calls,
               ReadResource(v, i, s, c)
        PROVE  \A r \in Readers : Right(read'[r])
    <3>1. \A r \in Readers \ {v} : read'[r] = read[r]
      BY <2>5 DEF ReadResource
    <3> QED BY <2>1, <2>4, <2>5, <3>1
  <2>6. ASSUME NEW v \in Readers, Fetched(v) PROVE \A r \in Readers : Right(read'[r])
    <3>1. \A r \in Readers \ {v} : read'[r] = read[r]
      BY <2>6 DEF Fetched
    <3> QED BY <2>2, <2>4, <2>6, <3>1
  <2>7. ASSUME NEW v \in Readers, FetchFails(v) PROVE \A r \in Readers : Right(read'[r])
    <3>1. \A r \in Readers \ {v} : read'[r] = read[r]
      BY <2>7 DEF FetchFails
    <3> QED BY <2>3, <2>4, <2>7, <3>1
  <2>8. ASSUME NEW i \in Instances, Crash(i) PROVE \A r \in Readers : Right(read'[r])
    <3>1. \A r \in Readers : read'[r] = read[r] \/ read'[r].pc = "unanswered"
      BY <2>8 DEF Crash, Unanswered, NoRead
    <3> QED BY <2>4, <3>1
  <2>9. \A r \in Readers : Right(read'[r])
    BY <2>4, <2>5, <2>6, <2>7, <2>8
       DEF Next, vars, Open, Close, StartDownload, Store, NotStored, MirrorLands, MirrorFails,
           SaveLands, Signed, SpillFails, List, SweepEnds, SweepFails, DeleteObject,
           ListResources, Tick
  <2> QED BY <1>3, <2>9
<1> QED BY <1>5 DEF ReadsOK, ServedToItsSessionInTime, MirroredIsReadable, Owner

\* The store that evicts a body is itself the last of the maxEntries that
\* came after the body.
LEMMA NewestStep ==
    ASSUME TypeOK, CallsOK, OrderOK, EntriesOK, NewestKept, [Next]_vars
    PROVE  NewestKept'
<1> DEFINE Later(d) == {e \in Stored : call[e].on = call[d].on /\ call[e].nth > call[d].nth}
           Kept(d) == call[d].undisturbed /\ call[d].on \notin crashed /\ now < call[d].at + Ttl
                          /\ d \notin entries[call[d].on]
                      => Cardinality(Later(d)) >= MaxEntries
<1>0. \A d \in Stored : Kept(d)
  BY DEF NewestKept, InTime, Expiry
<1>1. CASE \E c \in Calls, b \in Bodies : Store(c, b)
  <2>1. PICK c \in Calls, b \in Bodies : Store(c, b)
    BY <1>1
  <2> DEFINE i == call[c].on
  <2>2. /\ i \in Instances /\ c \notin Stored /\ Stored' = Stored \union {c}
        /\ entries' = [entries EXCEPT ![i] = MakeRoom(i) \union {c}]
        /\ Cardinality(Stored) \in Nat
        /\ call'[c].on = i /\ call'[c].nth = Cardinality(Stored) + 1
        /\ \A d \in Calls \ {c} : call'[d] = call[d]
        /\ now' = now /\ crashed' = crashed
    BY <2>1, WhatIsStored DEF Store
  <2> HIDE DEF i
  <2>3. \A d \in Stored : /\ d \in Calls \ {c} /\ call'[d] = call[d]
                          /\ call[d].nth \in Nat /\ call[d].nth <= Cardinality(Stored)
                          /\ call[d].on \in Instances
    BY <2>2 DEF OrderOK, Stored, TypeOK, CallRecord, CallsOK
  <2>4. \A d \in Stored : Later(d) \subseteq Later(d)' /\ Later(d)' \subseteq Calls
    BY <2>2, <2>3
  <2>5. ASSUME NEW d \in Stored, Kept(d), d \notin entries[call[d].on] PROVE Kept(d)'
    <3>1. call'[d] = call[d] /\ Cardinality(Later(d)) <= Cardinality(Later(d)')
      BY <2>3, <2>4, SmallerSet
    <3>2. Cardinality(Later(d)) \in Nat /\ Cardinality(Later(d)') \in Nat
      BY <2>4, FiniteCalls
    <3> HIDE DEF Later
    <3> QED BY <2>2, <2>5, <3>1, <3>2, ReportAssumption
  <2>6. ASSUME NEW d \in Stored, d \in entries[call[d].on], now < call[d].at + Ttl,
               d \notin entries'[call[d].on]
        PROVE  Cardinality(Later(d)') >= MaxEntries
    <3>1. call[d].on = i /\ d \in Fresh(i) /\ d \notin MakeRoom(i)
      BY <2>2, <2>3, <2>6 DEF TypeOK, Fresh, InTime, Expiry
    <3>2. Cardinality(Fresh(i)) >= MaxEntries /\ MakeRoom(i) = WithoutOldest(Fresh(i))
      BY <3>1 DEF MakeRoom
    <3>3. Fresh(i) \subseteq Stored /\ \A e \in Fresh(i) : call[e].on = i
      BY <2>2 DEF Fresh, EntriesOK
    <3>4. PICK x \in Fresh(i) : /\ WithoutOldest(Fresh(i)) = Fresh(i) \ {x}
                                /\ \A e \in Fresh(i) \ {x} : call[x].nth < call[e].nth
      BY <3>1, <3>3, EvictsFirstStored
    <3>5. d = x
      BY <3>1, <3>2, <3>4
    <3>6. Fresh(i) \ {d} \subseteq Later(d)'
      <4>1. \A e \in Fresh(i) \ {d} : e \in Stored /\ call[e].on = i /\ call[d].nth < call[e].nth
        BY <3>3, <3>4, <3>5
      <4> QED BY <2>2, <2>3, <3>1, <4>1
    <3>7. c \in Later(d)'
      BY <2>2, <2>3, <3>1
    <3>8. (Fresh(i) \ {d}) \union {c} \subseteq Later(d)' /\ c \notin Fresh(i)
      BY <2>2, <3>3, <3>6, <3>7
    <3>9. IsFiniteSet(Fresh(i)) /\ Fresh(i) \subseteq Calls
      BY <3>3, FiniteCalls DEF Stored
    <3>10. Cardinality(Fresh(i) \ {d}) = Cardinality(Fresh(i)) - 1 /\ IsFiniteSet(Fresh(i) \ {d})
      BY <3>1, <3>9, FS_RemoveElement
    <3>11. Cardinality((Fresh(i) \ {d}) \union {c}) = Cardinality(Fresh(i) \ {d}) + 1
      BY <3>8, <3>10, FS_AddElement
    <3>12. Cardinality(Fresh(i)) \in Nat
      BY <3>9, FiniteCalls
    <3>13. Cardinality((Fresh(i) \ {d}) \union {c}) = Cardinality(Fresh(i))
      BY <3>10, <3>11, <3>12
    <3>14. Cardinality((Fresh(i) \ {d}) \union {c}) <= Cardinality(Later(d)')
      BY <2>4, <3>8, SmallerSet
    <3>15. Cardinality(Later(d)') \in Nat
      BY <2>4, FiniteCalls
    <3> HIDE DEF Later
    <3> QED BY <3>2, <3>12, <3>13, <3>14, <3>15, ReportAssumption
  <2>7. ASSUME NEW d \in Stored PROVE Kept(d)'
    <3>1. CASE d \notin entries[call[d].on]
      BY <1>0, <2>5, <3>1
    <3>2. CASE d \in entries[call[d].on]
      <4>1. call'[d] = call[d]
        BY <2>3
      <4> HIDE DEF Later
      <4> QED BY <2>2, <2>6, <3>2, <4>1
    <3> QED BY <3>1, <3>2
  <2>8. c \in entries'[call'[c].on]
    BY <2>2 DEF TypeOK
  <2>9. \A d \in Stored' : Kept(d)'
    <3> HIDE DEF Later
    <3> QED BY <2>2, <2>7, <2>8
  <2> QED BY <2>9 DEF NewestKept, InTime, Expiry
<1>2. CASE ~\E c \in Calls, b \in Bodies : Store(c, b)
  <2>1. /\ Stored' = Stored
        /\ \A d \in Stored : /\ d \in Calls
                             /\ call'[d].on = call[d].on /\ call[d].on \in Instances
                             /\ call'[d].nth = call[d].nth /\ call'[d].at = call[d].at
    BY <1>2, OnlyStoreNumbers DEF CallsOK, Stored
  <2>2. \A d \in Stored : Later(d)' = Later(d)
    BY <2>1
  <2> DEFINE Excused == \A d \in Stored :
                 call'[d].undisturbed /\ call'[d].on \notin crashed' /\ now' < call[d].at + Ttl
                     /\ d \notin entries'[call[d].on]
                 => /\ call[d].undisturbed /\ call[d].on \notin crashed /\ now < call[d].at + Ttl
                    /\ d \notin entries[call[d].on]
  <2>3. Excused
    <3> USE DEF TypeOK, CallRecord
    <3>0. \A d \in Stored : d \in Calls /\ call[d].on \in Instances
      BY <2>1
    <3>1. ASSUME NEW i \in Instances, NEW s \in Sessions, Close(i, s) PROVE Excused
      BY <3>0, <3>1 DEF Close, ClearForSession, OfSession, Owner, Disturb
    <3>2. ASSUME NEW i \in Instances, NEW s \in Sessions, NEW c \in Calls, StartDownload(c, i, s)
          PROVE  Excused
      BY <3>0, <3>2 DEF StartDownload, CallsOK
    <3>3. ASSUME NEW c \in Calls, NEW b \in Bodies, NotStored(c, b) PROVE Excused
      BY <3>0, <3>3 DEF NotStored
    <3>4. ASSUME NEW c \in Calls, SaveLands(c) \/ Signed(c) \/ SpillFails(c) PROVE Excused
      <4>1. PICK pc \in {"signing", "handed", "lost", "done"} :
                /\ call' = [call EXCEPT ![c].pc = pc]
                /\ entries' = entries /\ now' = now /\ crashed' = crashed
        BY <3>4 DEF SaveLands, Signed, SpillFails, GivenUp
      <4> QED BY <3>0, <4>1
    <3>5. ASSUME NEW r \in Readers, NEW i \in Instances, NEW s \in Sessions, NEW c \in Calls,
                 ReadResource(r, i, s, c)
          PROVE  Excused
      BY <3>0, <3>5 DEF ReadResource, Fresh, InTime, Expiry
    <3>6. ASSUME NEW i \in Instances, ListResources(i) PROVE Excused
      BY <3>0, <3>6 DEF ListResources, Fresh, InTime, Expiry
    <3>7. ASSUME NEW i \in Instances, Crash(i) PROVE Excused
      BY <3>0, <3>7 DEF Crash
    <3>8. ASSUME Tick PROVE Excused
      <4>1. /\ call' = call /\ entries' = entries /\ crashed' = crashed
            /\ now' = now + 1
        BY <3>8 DEF Tick
      <4>2. \A d \in Stored : call[d].at + Ttl \in Int /\ now \in Int
        BY <3>0, ReportAssumption
      <4> QED BY <4>1, <4>2
    <3>9. ASSUME call' = call, entries' = entries, now' = now, crashed' = crashed PROVE Excused
      BY <3>9
    <3> HIDE DEF Excused
    <3> QED
      BY <1>2, <3>1, <3>2, <3>3, <3>4, <3>5, <3>6, <3>7, <3>8, <3>9
         DEF Next, vars, Open, MirrorLands, MirrorFails, List, SweepEnds, SweepFails, DeleteObject,
             Fetched, FetchFails
  <2>4. \A d \in Stored : Kept(d)'
    <3> HIDE DEF Later
    <3> QED BY <1>0, <2>1, <2>2, <2>3
  <2> QED BY <2>1, <2>4 DEF NewestKept, InTime, Expiry
<1> QED BY <1>1, <1>2

-----------------------------------------------------------------------------
(* The theorems                                                            *)

LEMMA InitHolds == Init => IInv
<1> SUFFICES ASSUME Init PROVE IInv
  OBVIOUS
<1>1. TypeOK
  BY InitIsTyped
<1>2. Stored = {}
  BY DEF Init, NoCall, Stored
<1>3. CallsOK /\ OrderOK /\ NewestKept
  BY <1>2 DEF Init, NoCall, CallsOK, OrderOK, NewestKept
<1>4. EntriesOK /\ ObjectsOK
  BY DEF Init, NoCall, EntriesOK, ObjectsOK
<1>5. SweepsOK /\ SweepIsComplete
  BY DEF Init, NoSweep, SweepsOK, SweepIsComplete
<1>6. ReadsOK /\ ServedToItsSessionInTime /\ MirroredIsReadable
  BY DEF Init, NoRead, ReadsOK, ServedToItsSessionInTime, MirroredIsReadable
<1> QED BY <1>1, <1>3, <1>4, <1>5, <1>6 DEF IInv

\* The inductive invariant of the store, its mirror and the spilled objects.
THEOREM Invariance == Spec => []IInv
<1>1. IInv /\ [Next]_vars => IInv'
  BY TypeStep, CallsStep, EntriesStep, ObjectsStep, SweepsStep, ReadsStep, OrderStep, NewestStep
     DEF IInv
<1> QED BY InitHolds, <1>1, PTL DEF Spec

\* No process ever holds more than maxEntries bodies (store(), evictOldest).
THEOREM TypeCorrect == Spec => []TypeOK
<1>1. IInv => TypeOK
  BY DEF IInv
<1> QED BY Invariance, <1>1, PTL

\* A body reaches only the session that stored it, and never after its
\* expiry, through the memory of any process or the mirror (report-csv-resource).
THEOREM ServedRightly == Spec => []ServedToItsSessionInTime
<1>1. IInv => ServedToItsSessionInTime
  BY DEF IInv
<1> QED BY Invariance, <1>1, PTL

\* What the mirror holds is found by any process until it expires, by every read that the
\* storage does not fail (getRemote, fetchFromMirror).
THEOREM MirrorServes == Spec => []MirroredIsReadable
<1>1. IInv => MirroredIsReadable
  BY DEF IInv
<1> QED BY Invariance, <1>1, PTL

\* Eviction takes a body only after maxEntries later ones of its process
\* (evictOldest, whatever instants and order the entries have).
THEOREM NewestStays == Spec => []NewestKept
<1>1. IInv => NewestKept
  BY DEF IInv
<1> QED BY Invariance, <1>1, PTL

\* Only a call that outlived its session leaves an entry behind (clearForSession).
THEOREM ClosedIsCleared == Spec => []ClosedKeepsOnlyLateEntries
<1>1. IInv => ClosedKeepsOnlyLateEntries
  BY DEF IInv, EntriesOK, ClosedKeepsOnlyLateEntries
<1> QED BY Invariance, <1>1, PTL

\* A handed link leads to its object until its own session is deleted
\* (deleteSpilledObjectsForSession removes only what is under its prefix).
THEOREM LinksWork == Spec => []HandedLinkWorks
<1>1. IInv => HandedLinkWorks
  BY DEF IInv, ObjectsOK, HandedLinkWorks
<1> QED BY Invariance, <1>1, PTL

\* A deletion that succeeds has removed all that its session had spilled.
THEOREM SweepsComplete == Spec => []SweepIsComplete
<1>1. IInv => SweepIsComplete
  BY DEF IInv
<1> QED BY Invariance, <1>1, PTL
=============================================================================
