--------------------------- MODULE ProcessEnd_proofs ---------------------------
(***************************************************************************)
(* Theorems about the loggers and the shutdown over them, for any loggers, *)
(* records and signals.                                                    *)
(***************************************************************************)
EXTENDS ProcessEnd, FiniteSetTheorems, TLAPS

-----------------------------------------------------------------------------
(* The invariant of one logger.                                            *)

\* How many records have left the buffer.
Gone(l) == appended[l] - Len(buffer[l])

\* How many are in the object for sure: those of a save that landed as well.
Written(l) == IF flight[l] = "landed" THEN Gone(l) + Len(batch[l]) ELSE Gone(l)

\* The buffer holds the last records, in order.
BufferOK(l) ==
    /\ Len(buffer[l]) <= appended[l]
    /\ \A i \in 1 .. Len(buffer[l]) : buffer[l][i] = Gone(l) + i

\* What is being flushed is the head of the buffer, and no other save comes between the
\* download and the save.
BatchOK(l) ==
    /\ flight[l] = "no" => batch[l] = <<>>
    /\ Len(batch[l]) <= Len(buffer[l])
    /\ \A i \in 1 .. Len(batch[l]) : batch[l][i] = buffer[l][i]
    /\ flight[l] = "save" => existing[l] = object[l]

\* The object holds what has left the buffer, and nothing else unless an answer was lost.
ObjectOK(l) ==
    /\ \A n \in 1 .. Written(l) : \E i \in 1 .. Len(object[l]) : object[l][i] = n
    /\ ~doubt[l] => /\ Len(object[l]) = Written(l)
                    /\ \A i \in 1 .. Len(object[l]) : object[l][i] = i

LogOK(l) == BufferOK(l) /\ BatchOK(l) /\ ObjectOK(l)

\* What makes the loggers' properties inductive.
IInv == TypeOK /\ \A l \in Loggers : LogOK(l)

-----------------------------------------------------------------------------
(* The steps of a logger.                                                  *)

\* What the loggers do in a step of the process.
LogStep ==
    \/ \E l \in Loggers : Construct(l) \/ Append1(l) \/ TimerFlush(l) \/ FlushStep(l) \/ Drain(l)
    \/ CloseAll
    \/ UNCHANGED logVars

\* A step of the process is a step of its loggers.
LEMMA StepsAreLogSteps == [Next]_vars => LogStep
<1> SUFFICES ASSUME [Next]_vars PROVE LogStep
  OBVIOUS
<1>1. ASSUME NEW l \in Loggers, OpenServer(l) \/ ToolCall(l) \/ Flush(l) PROVE LogStep
  BY <1>1 DEF OpenServer, ToolCall, Flush, LogStep, FlushStep
<1>2. ASSUME NEW s \in Signals, Signal(s) \/ HandlerStep(s) PROVE LogStep
  BY <1>2 DEF Signal, HandlerStep, StartDrain, Drained, Exit, LogStep
<1>3. ASSUME UNCHANGED vars PROVE LogStep
  BY <1>3 DEF vars, LogStep
<1> QED
  BY <1>1, <1>2, <1>3 DEF Next

\* The loggers stay well typed.
LEMMA LogTypes ==
    ASSUME LTypeOK, \A l \in Loggers : LogOK(l), LogStep
    PROVE  LTypeOK'
<1> USE LogAssumption DEF LTypeOK
<1>1. ASSUME NEW l \in Loggers, Construct(l) PROVE LTypeOK'
  BY <1>1 DEF Construct, flushVars
<1>2. ASSUME NEW l \in Loggers, Append1(l) PROVE LTypeOK'
  <2>1. appended' \in [Loggers -> 0 .. MaxRecords] /\ appended'[l] \in 1 .. MaxRecords
    BY <1>2 DEF Append1
  <2>2. Append(buffer[l], appended'[l]) \in Seq(1 .. MaxRecords)
    BY <2>1
  <2> QED BY <1>2, <2>1, <2>2 DEF Append1
<1>3. ASSUME NEW l \in Loggers, TimerFlush(l) PROVE LTypeOK'
  BY <1>3 DEF TimerFlush, StartFlush
<1>4. ASSUME NEW l \in Loggers, Downloaded(l) PROVE LTypeOK'
  BY <1>4 DEF Downloaded
<1>5. ASSUME NEW l \in Loggers, SaveLands(l) PROVE LTypeOK'
  <2>1. existing[l] \o batch[l] \in Seq(1 .. MaxRecords)
    OBVIOUS
  <2> QED BY <1>5, <2>1 DEF SaveLands
<1>6. ASSUME NEW l \in Loggers, SaveAnswered(l) PROVE LTypeOK'
  <2>1. Len(batch[l]) \in 0 .. Len(buffer[l])
    BY DEF LogOK, BatchOK
  <2>2. Splice(l) \in Seq(1 .. MaxRecords)
    BY <2>1 DEF Splice
  <2> QED BY <1>6, <2>2 DEF SaveAnswered, FlushEnds
<1>7. ASSUME NEW l \in Loggers, RequestFails(l) PROVE LTypeOK'
  BY <1>7 DEF RequestFails, FlushEnds
<1>8. ASSUME NEW l \in Loggers, Drain(l) PROVE LTypeOK'
  BY <1>8 DEF Drain, StartFlush
<1>9. ASSUME CloseAll PROVE LTypeOK'
  BY <1>9 DEF CloseAll, flushVars
<1>10. ASSUME UNCHANGED logVars PROVE LTypeOK'
  BY <1>10 DEF logVars, flushVars
<1> QED
  BY <1>1, <1>2, <1>3, <1>4, <1>5, <1>6, <1>7, <1>8, <1>9, <1>10 DEF LogStep, FlushStep

\* What the invariant says of a logger depends on its own fields only.
LEMMA Untouched ==
    ASSUME NEW l \in Loggers, LogOK(l),
           appended'[l] = appended[l], buffer'[l] = buffer[l], flight'[l] = flight[l],
           batch'[l] = batch[l], existing'[l] = existing[l], object'[l] = object[l],
           doubt'[l] = doubt[l]
    PROVE  LogOK(l)'
  BY DEF LogOK, BufferOK, BatchOK, ObjectOK, Gone, Written

\* A record goes behind the others.
LEMMA AppendKeeps ==
    ASSUME LTypeOK, NEW l \in Loggers, LogOK(l), Append1(l)
    PROVE  LogOK(l)'
<1> DEFINE b == buffer[l]
           a == appended[l]
<1>1. /\ a \in Nat /\ b \in Seq(Nat) /\ batch[l] \in Seq(Nat)
      /\ appended'[l] = a + 1 /\ buffer'[l] = Append(b, a + 1)
      /\ flight' = flight /\ batch' = batch /\ existing' = existing
      /\ object' = object /\ doubt' = doubt
  BY LogAssumption DEF LTypeOK, Append1
<1>2. /\ Len(b) \in Nat /\ Len(Append(b, a + 1)) = Len(b) + 1
      /\ \A i \in 1 .. Len(b) : Append(b, a + 1)[i] = b[i]
      /\ Append(b, a + 1)[Len(b) + 1] = a + 1
  BY <1>1
<1>3. /\ Len(b) <= a /\ Gone(l) = a - Len(b)
      /\ \A i \in 1 .. Len(b) : b[i] = Gone(l) + i
      /\ Len(batch[l]) <= Len(b) /\ Len(batch[l]) \in Nat
      /\ \A i \in 1 .. Len(batch[l]) : batch[l][i] = b[i]
  BY <1>1 DEF LogOK, BufferOK, BatchOK, Gone
<1> HIDE DEF a, b
<1>4. Gone(l)' = Gone(l)
  <2>1. Gone(l)' = (a + 1) - (Len(b) + 1)
    BY <1>1, <1>2 DEF Gone
  <2> QED BY <1>1, <1>2, <1>3, <2>1
<1>5. Written(l)' = Written(l)
  BY <1>1, <1>4 DEF Written
<1>6. BufferOK(l)'
  <2>1. ASSUME NEW i \in 1 .. Len(b) + 1
        PROVE  Append(b, a + 1)[i] = Gone(l) + i
    <3>1. CASE i = Len(b) + 1
      BY <1>1, <1>2, <1>3, <3>1
    <3>2. CASE i # Len(b) + 1
      BY <1>2, <1>3, <3>2
    <3> QED BY <3>1, <3>2
  <2> QED BY <1>1, <1>2, <1>3, <1>4, <2>1 DEF BufferOK
<1>7. BatchOK(l)'
  <2>1. Len(batch[l]) <= Len(b) + 1
        /\ \A i \in 1 .. Len(batch[l]) : batch[l][i] = Append(b, a + 1)[i]
    BY <1>2, <1>3
  <2> QED BY <1>1, <1>2, <2>1 DEF LogOK, BatchOK
<1>8. ObjectOK(l)'
  BY <1>1, <1>5 DEF LogOK, ObjectOK
<1> QED BY <1>6, <1>7, <1>8 DEF LogOK

\* A flush takes the whole buffer.
LEMMA StartKeeps ==
    ASSUME LTypeOK, NEW l \in Loggers, LogOK(l), flight[l] = "no", StartFlush(l),
           UNCHANGED <<appended, buffer, existing, object, doubt>>
    PROVE  LogOK(l)'
<1>1. /\ flight'[l] = "download" /\ batch'[l] = buffer[l] /\ Len(buffer[l]) \in Nat
      /\ appended' = appended /\ buffer' = buffer /\ object' = object /\ doubt' = doubt
  BY DEF LTypeOK, StartFlush
<1>2. Gone(l)' = Gone(l) /\ Written(l)' = Written(l)
  BY <1>1 DEF Gone, Written
<1>3. BufferOK(l)'
  BY <1>1, <1>2 DEF LogOK, BufferOK
<1>4. BatchOK(l)'
  BY <1>1 DEF BatchOK
<1>5. ObjectOK(l)'
  BY <1>1, <1>2 DEF LogOK, ObjectOK
<1> QED BY <1>3, <1>4, <1>5 DEF LogOK

\* What the object holds when the save lands: all there was, and the batch behind it.
LEMMA SaveKeeps ==
    ASSUME LTypeOK, NEW l \in Loggers, LogOK(l), SaveLands(l)
    PROVE  /\ LogOK(l)'
           /\ IsPrefix(object[l], object'[l])
<1> DEFINE o == object[l]
           b == batch[l]
<1>1. /\ o \in Seq(Nat) /\ b \in Seq(Nat) /\ buffer[l] \in Seq(Nat) /\ appended[l] \in Nat
      /\ flight[l] = "save" /\ flight'[l] = "landed" /\ existing[l] = o
      /\ UNCHANGED <<appended, buffer, batch, existing, doubt>>
  BY LogAssumption DEF LTypeOK, SaveLands, LogOK, BatchOK
<1>2. object'[l] = o \o b
  BY <1>1 DEF LTypeOK, SaveLands
<1> HIDE DEF o, b
<1>3. /\ Len(o \o b) = Len(o) + Len(b) /\ Len(o) \in Nat /\ Len(b) \in Nat
      /\ \A i \in 1 .. Len(o) : (o \o b)[i] = o[i]
      /\ \A i \in 1 .. Len(b) : (o \o b)[Len(o) + i] = b[i]
  BY <1>1
<1>4. Gone(l) \in Nat /\ Gone(l)' = Gone(l) /\ Written(l) = Gone(l)
      /\ Written(l)' = Gone(l) + Len(b)
  BY <1>1, <1>3 DEF LogOK, BufferOK, Gone, Written, b
<1>5. \A i \in 1 .. Len(b) : b[i] = Gone(l) + i
  BY SMTT(30), <1>1, <1>3 DEF LogOK, BufferOK, BatchOK, b
<1>6. ASSUME NEW n \in 1 .. Written(l)'
      PROVE  \E i \in 1 .. Len(o \o b) : (o \o b)[i] = n
  <2>1. CASE n <= Gone(l)
    <3>1. PICK i \in 1 .. Len(o) : o[i] = n
      BY <1>4, <2>1 DEF LogOK, ObjectOK, o
    <3> QED BY <1>3, <3>1
  <2>2. CASE n > Gone(l)
    <3>1. n - Gone(l) \in 1 .. Len(b) /\ n - Gone(l) + Gone(l) = n
      BY <1>3, <1>4, <2>2
    <3>2. (o \o b)[Len(o) + (n - Gone(l))] = n
      BY SMTT(30), <1>3, <1>4, <1>5, <3>1
    <3>3. Len(o) + (n - Gone(l)) \in 1 .. Len(o \o b)
      BY <1>3, <3>1
    <3> QED BY <3>2, <3>3
  <2> QED BY <1>3, <1>4, <2>1, <2>2
<1>7. ASSUME ~doubt[l], NEW i \in 1 .. Len(o \o b)
      PROVE  (o \o b)[i] = i
  <2>1. Len(o) = Gone(l) /\ \A j \in 1 .. Len(o) : o[j] = j
    BY <1>4, <1>7 DEF LogOK, ObjectOK, o
  <2>2. CASE i <= Len(o)
    BY <1>3, <2>1, <2>2
  <2>3. CASE i > Len(o)
    <3>1. i - Len(o) \in 1 .. Len(b) /\ i = Len(o) + (i - Len(o))
      BY <1>3, <2>3
    <3> QED BY <1>3, <1>4, <1>5, <2>1, <3>1
  <2> QED BY <1>3, <2>2, <2>3
<1>8. ~doubt[l] => Len(o \o b) = Written(l)'
  BY <1>3, <1>4 DEF LogOK, ObjectOK, o
<1>9. ObjectOK(l)'
  BY SMTT(30), <1>1, <1>2, <1>6, <1>7, <1>8 DEF ObjectOK
<1>10. BufferOK(l)' /\ BatchOK(l)'
  BY <1>1, <1>4 DEF LogOK, BufferOK, BatchOK, Gone
<1>11. SubSeq(o, 1, Len(o)) = o /\ SubSeq(o \o b, 1, Len(o)) = o
  BY <1>1
<1> QED BY <1>2, <1>3, <1>9, <1>10, <1>11 DEF LogOK, IsPrefix, o

\* The saved lines leave the buffer.
LEMMA SpliceKeeps ==
    ASSUME LTypeOK, NEW l \in Loggers, LogOK(l), SaveAnswered(l)
    PROVE  LogOK(l)' /\ Gone(l)' = Gone(l) + Len(batch[l])
<1> DEFINE b == buffer[l]
           k == Len(batch[l])
<1>1. /\ b \in Seq(Nat) /\ k \in Nat /\ k <= Len(b) /\ appended[l] \in Nat /\ Len(b) <= appended[l]
      /\ flight[l] = "landed" /\ flight'[l] = "no" /\ batch'[l] = <<>>
      /\ buffer'[l] = SubSeq(b, k + 1, Len(b))
      /\ appended' = appended /\ object' = object /\ doubt' = doubt
  BY LogAssumption DEF LTypeOK, SaveAnswered, FlushEnds, Splice, LogOK, BatchOK, BufferOK
<1>2. \A i \in 1 .. Len(b) : b[i] = Gone(l) + i
  BY DEF LogOK, BufferOK
<1>3. Gone(l) = appended[l] - Len(b) /\ Written(l) = Gone(l) + k
  BY <1>1 DEF Gone, Written
<1> HIDE DEF b, k
<1>4. /\ Len(SubSeq(b, k + 1, Len(b))) = Len(b) - k
      /\ \A i \in 1 .. Len(b) - k : SubSeq(b, k + 1, Len(b))[i] = b[k + i]
  BY <1>1
<1>5. Gone(l)' = Gone(l) + k /\ Written(l)' = Gone(l) + k
  <2>1. Gone(l)' = appended[l] - (Len(b) - k)
    BY <1>1, <1>4 DEF Gone
  <2>2. Len(b) \in Nat
    BY <1>1
  <2>3. Gone(l)' = Gone(l) + k
    BY <1>1, <1>3, <2>1, <2>2
  <2> QED BY <1>1, <2>3 DEF Written
<1>6. BufferOK(l)'
  <2>1. ASSUME NEW i \in 1 .. Len(b) - k
        PROVE  b[k + i] = Gone(l) + (k + i)
    <3>1. Len(b) \in Nat /\ k \in Nat
      BY <1>1
    <3>2. k + i \in 1 .. Len(b)
      BY <3>1
    <3> QED BY <1>2, <3>2
  <2>2. Gone(l) \in Int
    BY <1>1, <1>3
  <2>3. \A i \in 1 .. Len(b) - k : SubSeq(b, k + 1, Len(b))[i] = (Gone(l) + k) + i
    <3>1. Len(b) \in Nat /\ k \in Nat
      BY <1>1
    <3>2. ASSUME NEW i \in 1 .. Len(b) - k
          PROVE  Gone(l) + (k + i) = (Gone(l) + k) + i
      BY <2>2, <3>1
    <3> QED BY <1>4, <2>1, <3>2
  <2>4. Len(b) - k <= appended[l]
    BY <1>1
  <2> QED BY <1>1, <1>4, <1>5, <2>3, <2>4 DEF BufferOK
<1>7. BatchOK(l)'
  BY <1>1, <1>4 DEF BatchOK
<1>8. ObjectOK(l)'
  BY <1>1, <1>3, <1>5 DEF LogOK, ObjectOK
<1> QED BY <1>5, <1>6, <1>7, <1>8 DEF LogOK, k

\* A flush that fails leaves the buffer as it is, and a doubt if the save had landed.
LEMMA FailKeeps ==
    ASSUME LTypeOK, NEW l \in Loggers, LogOK(l), RequestFails(l)
    PROVE  LogOK(l)'
<1>1. /\ flight'[l] = "no" /\ batch'[l] = <<>>
      /\ appended' = appended /\ buffer' = buffer /\ object' = object
      /\ doubt'[l] = (doubt[l] \/ flight[l] = "landed")
  BY DEF LTypeOK, RequestFails, FlushEnds
<1>2. buffer[l] \in Seq(Nat) /\ batch[l] \in Seq(Nat) /\ appended[l] \in Nat
  BY LogAssumption DEF LTypeOK
<1>3. BufferOK(l)' /\ Gone(l)' = Gone(l) /\ Gone(l) \in Nat
  BY <1>1, <1>2 DEF LogOK, BufferOK, Gone
<1>4. BatchOK(l)'
  BY <1>1, <1>2 DEF BatchOK
<1>5. Written(l)' = Gone(l)
  BY <1>1, <1>3 DEF Written
<1>6. Gone(l) <= Written(l) /\ Written(l) \in Nat
  <2>1. Len(batch[l]) \in Nat
    BY <1>2
  <2> QED BY <1>3, <2>1 DEF Written
<1>7. ~doubt'[l] => ~doubt[l] /\ Written(l) = Gone(l)
  <2>1. flight[l] # "landed" => Written(l) = Gone(l)
    BY DEF Written
  <2> QED BY <1>1, <2>1
<1>8. ObjectOK(l)'
  <2>1. ASSUME NEW n \in 1 .. Gone(l)
        PROVE  \E i \in 1 .. Len(object[l]) : object[l][i] = n
    <3>1. n \in 1 .. Written(l)
      BY <1>3, <1>6
    <3> QED BY <3>1 DEF LogOK, ObjectOK
  <2> QED BY <1>1, <1>5, <1>7, <2>1 DEF LogOK, ObjectOK
<1> QED BY <1>3, <1>4, <1>8 DEF LogOK


\* Every step of the loggers keeps what the invariant says of each of them.
LEMMA LogKeeps ==
    ASSUME LTypeOK, \A l \in Loggers : LogOK(l), LogStep
    PROVE  \A l \in Loggers : LogOK(l)'
<1> SUFFICES ASSUME NEW m \in Loggers PROVE LogOK(m)'
  OBVIOUS
<1>1. ASSUME NEW l \in Loggers, Construct(l) PROVE LogOK(m)'
  BY <1>1, Untouched DEF Construct, flushVars
<1>2. ASSUME NEW l \in Loggers, Append1(l) PROVE LogOK(m)'
  <2>1. CASE m = l
    BY <1>2, <2>1, AppendKeeps
  <2>2. CASE m # l
    BY <1>2, <2>2, Untouched DEF LTypeOK, Append1
  <2> QED BY <2>1, <2>2
<1>3. ASSUME NEW l \in Loggers, TimerFlush(l) PROVE LogOK(m)'
  <2>1. CASE m = l
    BY <1>3, <2>1, StartKeeps DEF TimerFlush, Flushable
  <2>2. CASE m # l
    BY <1>3, <2>2, Untouched DEF LTypeOK, TimerFlush, StartFlush
  <2> QED BY <2>1, <2>2
<1>4. ASSUME NEW l \in Loggers, Downloaded(l) PROVE LogOK(m)'
  BY <1>4 DEF LTypeOK, Downloaded, LogOK, BufferOK, BatchOK, ObjectOK, Gone, Written
<1>5. ASSUME NEW l \in Loggers, SaveLands(l) PROVE LogOK(m)'
  <2>1. CASE m = l
    BY <1>5, <2>1, SaveKeeps
  <2>2. CASE m # l
    BY <1>5, <2>2, Untouched DEF LTypeOK, SaveLands
  <2> QED BY <2>1, <2>2
<1>6. ASSUME NEW l \in Loggers, SaveAnswered(l) PROVE LogOK(m)'
  <2>1. CASE m = l
    BY <1>6, <2>1, SpliceKeeps
  <2>2. CASE m # l
    BY <1>6, <2>2, Untouched DEF LTypeOK, SaveAnswered, FlushEnds
  <2> QED BY <2>1, <2>2
<1>7. ASSUME NEW l \in Loggers, RequestFails(l) PROVE LogOK(m)'
  <2>1. CASE m = l
    BY <1>7, <2>1, FailKeeps
  <2>2. CASE m # l
    BY <1>7, <2>2, Untouched DEF LTypeOK, RequestFails, FlushEnds
  <2> QED BY <2>1, <2>2
<1>8. ASSUME NEW l \in Loggers, Drain(l) PROVE LogOK(m)'
  <2>1. CASE m = l /\ Flushable(l)
    BY <1>8, <2>1, StartKeeps DEF Drain
  <2>2. CASE m # l \/ ~Flushable(l)
    BY <1>8, <2>2, Untouched DEF LTypeOK, Drain, StartFlush
  <2> QED BY <2>1, <2>2
<1>9. ASSUME CloseAll \/ UNCHANGED logVars PROVE LogOK(m)'
  BY <1>9, Untouched DEF CloseAll, logVars, flushVars
<1> QED
  BY <1>1, <1>2, <1>3, <1>4, <1>5, <1>6, <1>7, <1>8, <1>9 DEF LogStep, FlushStep

\* Buffers and objects are empty at first.
LEMMA InitIInv == Init => IInv
<1> SUFFICES ASSUME Init PROVE IInv
  OBVIOUS
<1>1. TypeOK
  <2>1. 0 \in 0 .. MaxRecords /\ <<>> \in Seq(1 .. MaxRecords)
    BY LogAssumption
  <2>2. LTypeOK
    BY <2>1 DEF Init, LogInit, LTypeOK
  <2> QED BY <2>1, <2>2 DEF Init, TypeOK
<1>2. ASSUME NEW l \in Loggers PROVE LogOK(l)
  BY DEF Init, LogInit, LogOK, BufferOK, BatchOK, ObjectOK, Gone, Written
<1> QED
  BY <1>1, <1>2 DEF IInv

\* Loggers and handlers keep the invariant.
LEMMA StepIInv == IInv /\ [Next]_vars => IInv'
<1> SUFFICES ASSUME IInv, [Next]_vars PROVE IInv'
  OBVIOUS
<1>1. LogStep /\ LTypeOK /\ \A l \in Loggers : LogOK(l)
  BY StepsAreLogSteps DEF IInv, TypeOK
<1>2. LTypeOK' /\ \A l \in Loggers : LogOK(l)'
  BY <1>1, LogTypes, LogKeeps
<1>3. TypeOK'
  <2> USE <1>2 DEF IInv, TypeOK
  <2>1. ASSUME NEW s \in Signals, Signal(s) PROVE TypeOK'
    BY <2>1 DEF Signal, LTypeOK
  <2>2. ASSUME NEW s \in Signals, StartDrain(s) PROVE TypeOK'
    BY <2>2 DEF StartDrain, LTypeOK
  <2>3. ASSUME NEW s \in Signals, Drained(s) \/ Exit(s) PROVE TypeOK'
    BY <2>3 DEF Drained, Exit
  <2>4. ASSUME NEW l \in Loggers, OpenServer(l) \/ ToolCall(l) \/ Flush(l) PROVE TypeOK'
    BY <2>4 DEF OpenServer, ToolCall, Flush, endVars
  <2>5. ASSUME UNCHANGED vars PROVE TypeOK'
    BY <2>5 DEF vars, endVars
  <2> HIDE DEF IInv, TypeOK
  <2> QED BY <2>1, <2>2, <2>3, <2>4, <2>5 DEF Next, HandlerStep
<1> QED
  BY <1>2, <1>3 DEF IInv

\* The invariant holds in every reachable state.
LEMMA Invariance == Spec => []IInv
<1> QED
  BY InitIInv, StepIInv, PTL DEF Spec

-----------------------------------------------------------------------------

\* Loggers and handlers are well typed in every reachable state.
THEOREM TypeCorrect == Spec => []TypeOK
<1>1. IInv => TypeOK
  BY DEF IInv
<1> QED
  BY <1>1, Invariance, PTL

\* What was appended is stored or buffered, however flushes fail and overlap with calls.
THEOREM NothingDropped == Spec => []NoRecordDropped
<1>1. ASSUME IInv PROVE NoRecordDropped
  <2> SUFFICES ASSUME NEW l \in Loggers, NEW n \in 1 .. appended[l]
               PROVE  \/ \E i \in 1 .. Len(object[l]) : object[l][i] = n
                      \/ \E i \in 1 .. Len(buffer[l]) : buffer[l][i] = n
    BY DEF NoRecordDropped
  <2>1. /\ appended[l] \in Nat /\ Len(buffer[l]) \in Nat /\ Len(batch[l]) \in Nat
        /\ Len(buffer[l]) <= appended[l] /\ Gone(l) = appended[l] - Len(buffer[l])
        /\ \A i \in 1 .. Len(buffer[l]) : buffer[l][i] = Gone(l) + i
    BY <1>1, LogAssumption DEF IInv, TypeOK, LTypeOK, LogOK, BufferOK, Gone
  <2>2. CASE n <= Gone(l)
    <3>1. n \in 1 .. Written(l)
      BY <2>1, <2>2 DEF Written
    <3> QED BY <1>1, <3>1 DEF IInv, LogOK, ObjectOK
  <2>3. CASE n > Gone(l)
    <3>1. n - Gone(l) \in 1 .. Len(buffer[l]) /\ Gone(l) + (n - Gone(l)) = n
      BY <2>1, <2>3
    <3> QED BY <2>1, <3>1
  <2> QED BY <2>1, <2>2, <2>3
<1> QED
  BY <1>1, Invariance, PTL

\* Without a lost answer the object is a prefix of the log.
THEOREM LogIsPrefix == Spec => []LogInOrder
<1>1. IInv => LogInOrder
  BY DEF IInv, LogOK, ObjectOK, LogInOrder
<1> QED
  BY <1>1, Invariance, PTL

\* No save takes back what an earlier one has stored.
THEOREM StoredStays == Spec => AppendOnly
<1>1. ASSUME IInv, [Next]_vars, NEW l \in Loggers PROVE IsPrefix(object[l], object'[l])
  <2>1. object[l] \in Seq(1 .. MaxRecords) /\ LogStep /\ LTypeOK
    BY <1>1, StepsAreLogSteps DEF IInv, TypeOK, LTypeOK
  <2>2. CASE SaveLands(l)
    BY <1>1, <2>1, <2>2, SaveKeeps DEF IInv
  <2>3. CASE ~SaveLands(l)
    <3>1. object'[l] = object[l]
      BY <2>1, <2>3
         DEF LTypeOK, LogStep, Construct, Append1, TimerFlush, FlushStep, Downloaded, SaveLands,
             SaveAnswered, RequestFails, Drain, CloseAll, logVars, flushVars
    <3> QED BY <2>1, <3>1 DEF IsPrefix
  <2> QED BY <2>2, <2>3
<1>2. IInv /\ [Next]_vars => [\A l \in Loggers : IsPrefix(object[l], object'[l])]_logVars
  BY <1>1
<1> QED
  BY <1>2, Invariance, PTL DEF Spec, AppendOnly

-----------------------------------------------------------------------------
(* The shutdown, with one signal in stdio mode.                            *)

\* The handler has work to do.
Active(s) == handler[s] \in {"closing", "draining", "ending"}

\* One handler works at a time: the guard of the HTTP handler, the one signal of a stdio
\* process.
HandlersOK ==
    /\ ~shuttingDown => \A s \in Signals : handler[s] = "idle"
    /\ \A s, t \in Signals : Active(s) /\ Active(t) => s = t
    /\ exited => \E s \in Signals : handler[s] = "ending"

\* Until it drains, every logger is registered and open; then it awaits every logger
\* that had a record when the signal came, and goes on when they are closed.
DrainOK ==
    /\ (\A s \in Signals : handler[s] \notin {"draining", "ending"}) =>
           live = made /\ \A l \in Loggers : closing[l] = "no"
    /\ \A s \in Signals : handler[s] \in {"draining", "ending"} =>
           \A l \in Loggers : atSignal[l] > 0 => l \in snapshot[s]
    /\ \A s \in Signals : handler[s] = "ending" =>
           \A l \in snapshot[s] : closing[l] = "closed"

\* The final flush takes what the signal found, and a logger it closes without a failure
\* has stored it.
CloseOK(l) ==
    /\ appended[l] > 0 => l \in made
    /\ atSignal[l] <= appended[l]
    /\ closing[l] = "draining" => flight[l] # "no" /\ atSignal[l] <= Gone(l) + Len(batch[l])
    /\ closing[l] = "closed" /\ ~faulty[l] => atSignal[l] <= Gone(l)

\* What makes DrainedBeforeExit inductive, beside IInv.
EInv == HandlersOK /\ DrainOK /\ \A l \in Loggers : CloseOK(l)

\* At first no signal has come and every logger is open.
LEMMA InitEInv == Init => EInv
<1> SUFFICES ASSUME Init PROVE EInv
  OBVIOUS
<1>1. HandlersOK /\ DrainOK
  BY DEF Init, LogInit, HandlersOK, DrainOK, Active
<1>2. \A l \in Loggers : CloseOK(l)
  BY DEF Init, LogInit, CloseOK
<1> QED
  BY <1>1, <1>2 DEF EInv

\* A signal that starts a handler finds none before it.
LEMMA FirstSignal ==
    ASSUME StdioSignals <= 1, HandlersOK, NEW s \in Signals, Signal(s), mode \in {"stdio", "http"}
    PROVE  \/ \A t \in Signals : handler[t] = "idle"
           \/ handler' = [handler EXCEPT ![s] = "returned"] /\ Signalled
<1>1. CASE mode = "stdio"
  <2> DEFINE busy == {t \in Signals : handler[t] # "idle"}
  <2>1. IsFiniteSet(busy)
    BY EndAssumption, FS_Subset
  <2>2. Cardinality(busy) \in Nat /\ Cardinality(busy) < StdioSignals
    BY <1>1, <2>1, FS_CardinalityType DEF Signal
  <2>3. Cardinality(busy) = 0
    BY <2>2, EndAssumption
  <2>4. busy = {}
    BY <2>1, <2>3, FS_EmptySet
  <2> QED BY <2>4
<1>2. CASE mode = "http" /\ ~shuttingDown
  BY <1>2 DEF HandlersOK
<1>3. CASE mode = "http" /\ shuttingDown /\ Signalled
  BY <1>3 DEF Signal
<1>4. CASE ~Signalled
  BY <1>4 DEF Signalled
<1> QED
  BY <1>1, <1>2, <1>3, <1>4

\* No step starts a second handler.
LEMMA HandlersKeep ==
    ASSUME StdioSignals <= 1, TypeOK, HandlersOK, [Next]_vars
    PROVE  HandlersOK'
<1>1. ASSUME NEW s \in Signals, Signal(s) PROVE HandlersOK'
  <2>1. handler \in [Signals -> {"idle", "closing", "draining", "ending", "returned"}]
        /\ mode \in {"stdio", "http"}
    BY DEF TypeOK
  <2>2. shuttingDown' = TRUE /\ ~exited /\ exited' = exited
    BY <1>1 DEF Signal
  <2>3. CASE \A t \in Signals : handler[t] = "idle"
    <3>1. \A t \in Signals \ {s} : handler'[t] = "idle"
      BY <1>1, <2>1, <2>3 DEF Signal
    <3> QED BY <2>2, <3>1 DEF HandlersOK, Active
  <2>4. CASE handler' = [handler EXCEPT ![s] = "returned"]
    BY <2>1, <2>2, <2>4 DEF HandlersOK, Active
  <2> QED BY <1>1, <2>1, <2>3, <2>4, FirstSignal
<1>2. ASSUME NEW s \in Signals, HandlerStep(s) PROVE HandlersOK'
  BY <1>2 DEF HandlerStep, StartDrain, Drained, Exit, HandlersOK, Active, TypeOK
<1>3. ASSUME NEW l \in Loggers, OpenServer(l) \/ ToolCall(l) \/ Flush(l) PROVE HandlersOK'
  BY <1>3 DEF OpenServer, ToolCall, Flush, endVars, HandlersOK, Active
<1>4. ASSUME UNCHANGED vars PROVE HandlersOK'
  BY <1>4 DEF vars, endVars, HandlersOK, Active
<1> QED
  BY <1>1, <1>2, <1>3, <1>4 DEF Next

\* Nothing reopens or forgets a logger that a handler awaits.
LEMMA DrainKeeps ==
    ASSUME StdioSignals <= 1, TypeOK, EInv, [Next]_vars
    PROVE  DrainOK'
<1> USE DEF EInv, HandlersOK, DrainOK
<1>1. ASSUME NEW s \in Signals, Signal(s) PROVE DrainOK'
  <2>1. handler \in [Signals -> {"idle", "closing", "draining", "ending", "returned"}]
        /\ mode \in {"stdio", "http"}
    BY DEF TypeOK
  <2>2. /\ live' = live /\ made' = made /\ closing' = closing /\ snapshot' = snapshot
        /\ handler[s] = "idle" /\ handler'[s] \in {"closing", "returned"}
        /\ \A t \in Signals \ {s} : handler'[t] = handler[t]
    BY <1>1, <2>1 DEF Signal, logVars
  <2>3. CASE \A t \in Signals : handler[t] = "idle"
    BY <2>2, <2>3
  <2>4. CASE Signalled
    <3>1. atSignal' = atSignal
      BY <1>1, <2>4 DEF Signal
    <3> QED BY <2>2, <3>1
  <2> QED BY <1>1, <2>1, <2>3, <2>4, FirstSignal
<1>2. ASSUME NEW s \in Signals, StartDrain(s) PROVE DrainOK'
  <2>1. \A t \in Signals : handler[t] \notin {"draining", "ending"}
    BY <1>2 DEF StartDrain, Active
  <2>2. /\ handler'[s] = "draining" /\ snapshot'[s] = made /\ atSignal' = atSignal
        /\ \A t \in Signals \ {s} : handler'[t] = handler[t]
    BY <1>2, <2>1 DEF StartDrain, TypeOK
  <2>3. \A l \in Loggers : atSignal[l] > 0 => l \in made
    <3>1. \A l \in Loggers : atSignal[l] \in Nat /\ appended[l] \in Nat
      BY LogAssumption DEF TypeOK, LTypeOK
    <3> QED BY <3>1 DEF CloseOK
  <2> QED BY <2>1, <2>2, <2>3
<1>3. ASSUME NEW s \in Signals, Drained(s) PROVE DrainOK'
  BY <1>3 DEF Drained, TypeOK, logVars
<1>4. ASSUME NEW s \in Signals, Exit(s) PROVE DrainOK'
  BY <1>4 DEF Exit, logVars
<1>5. ASSUME NEW l \in Loggers, OpenServer(l) PROVE DrainOK'
  BY <1>5 DEF OpenServer, Construct, endVars
<1>6. ASSUME NEW l \in Loggers, ToolCall(l) PROVE DrainOK'
  BY <1>6 DEF ToolCall, Append1, endVars
<1>7. ASSUME NEW l \in Loggers, Flush(l) PROVE DrainOK'
  <2>1. /\ handler' = handler /\ snapshot' = snapshot /\ atSignal' = atSignal
        /\ live' = live /\ made' = made
    BY <1>7 DEF Flush, endVars, TimerFlush, FlushStep, Downloaded, SaveLands, SaveAnswered,
                RequestFails, Drain
  <2>2. \A m \in Loggers : closing[m] \in {"no", "closed"} => closing'[m] = closing[m]
    BY <1>7 DEF TypeOK, LTypeOK, Flush, TimerFlush, FlushStep, Downloaded, SaveLands, SaveAnswered,
                RequestFails, FlushEnds, Drain
  <2>3. \A t \in Signals : snapshot[t] \subseteq Loggers
    BY DEF TypeOK
  <2> QED BY <2>1, <2>2, <2>3
<1>8. ASSUME UNCHANGED vars PROVE DrainOK'
  BY <1>8 DEF vars, logVars, endVars
<1> HIDE DEF EInv, HandlersOK, DrainOK
<1> QED
  BY <1>1, <1>2, <1>3, <1>4, <1>5, <1>6, <1>7, <1>8 DEF Next, HandlerStep

\* The steps of a logger, of other loggers, and of the handlers that leave it alone.
LEMMA CloseKeeps ==
    ASSUME IInv, EInv, [Next]_vars, NEW m \in Loggers
    PROVE  CloseOK(m)'
<1>1. /\ LTypeOK /\ LogOK(m) /\ CloseOK(m) /\ atSignal[m] \in Nat
      /\ appended[m] \in Nat /\ Len(buffer[m]) \in Nat /\ Len(batch[m]) \in Nat
      /\ Gone(m) = appended[m] - Len(buffer[m])
  BY LogAssumption DEF IInv, EInv, TypeOK, LTypeOK, Gone
<1>2. ASSUME NEW l \in Loggers, OpenServer(l) PROVE CloseOK(m)'
  BY <1>1, <1>2 DEF OpenServer, Construct, flushVars, endVars, CloseOK, Gone
<1>3. ASSUME NEW l \in Loggers, ToolCall(l) PROVE CloseOK(m)'
  <2>1. /\ made' = made /\ closing' = closing /\ faulty' = faulty /\ atSignal' = atSignal
        /\ flight' = flight /\ batch' = batch /\ l \in made
    BY <1>3 DEF ToolCall, Append1, endVars
  <2>2. appended'[m] >= appended[m] /\ (appended'[m] # appended[m] => m = l) /\ Gone(m)' = Gone(m)
    <3>1. CASE m = l
      <4>1. appended'[m] = appended[m] + 1 /\ buffer'[m] = Append(buffer[m], appended[m] + 1)
        BY <1>1, <1>3, <3>1 DEF LTypeOK, ToolCall, Append1
      <4>2. Len(buffer'[m]) = Len(buffer[m]) + 1
        BY <1>1, <4>1 DEF LTypeOK
      <4>3. Gone(m)' = (appended[m] + 1) - (Len(buffer[m]) + 1)
        BY <4>1, <4>2 DEF Gone
      <4> QED BY <1>1, <3>1, <4>1, <4>3
    <3>2. CASE m # l
      BY <1>1, <1>3, <3>2 DEF LTypeOK, ToolCall, Append1, Gone
    <3> QED BY <3>1, <3>2
  <2>3. appended'[m] \in Nat
    BY <1>1, <1>3 DEF LTypeOK, ToolCall, Append1
  <2> QED BY <1>1, <2>1, <2>2, <2>3 DEF CloseOK
<1>4. ASSUME NEW l \in Loggers, Flush(l) PROVE CloseOK(m)'
  <2>1. made' = made /\ appended' = appended /\ atSignal' = atSignal
    BY <1>4 DEF Flush, endVars, TimerFlush, FlushStep, Downloaded, SaveLands, SaveAnswered,
                RequestFails, Drain
  <2>2. CASE m # l
    BY <1>1, <1>4, <2>1, <2>2
       DEF LTypeOK, Flush, TimerFlush, StartFlush, FlushStep, Downloaded, SaveLands, SaveAnswered,
           RequestFails, FlushEnds, Drain, CloseOK, Gone
  <2>3. CASE m = l /\ TimerFlush(l)
    BY <1>1, <2>1, <2>3 DEF LTypeOK, TimerFlush, StartFlush, Flushable, CloseOK, Gone
  <2>4. CASE m = l /\ (Downloaded(l) \/ SaveLands(l))
    BY <1>1, <2>1, <2>4 DEF LTypeOK, Downloaded, SaveLands, CloseOK, Gone
  <2>5. CASE m = l /\ SaveAnswered(l)
    <3>1. Gone(m)' = Gone(m) + Len(batch[m])
      BY <1>1, <2>5, SpliceKeeps
    <3>2. faulty' = faulty
          /\ closing'[m] = (IF closing[m] = "draining" THEN "closed" ELSE closing[m])
      BY <1>1, <2>5 DEF LTypeOK, SaveAnswered, FlushEnds
    <3>3. Gone(m) \in Int
      BY <1>1
    <3> QED BY <1>1, <2>1, <3>1, <3>2, <3>3 DEF CloseOK
  <2>6. CASE m = l /\ RequestFails(l)
    <3>1. /\ buffer' = buffer
          /\ closing'[m] = (IF closing[m] = "draining" THEN "closed" ELSE closing[m])
          /\ faulty'[m] = (faulty[m] \/ closing[m] = "draining")
      BY <1>1, <2>6 DEF LTypeOK, RequestFails, FlushEnds
    <3>2. Gone(m)' = Gone(m)
      BY <2>1, <3>1 DEF Gone
    <3> QED BY <1>1, <2>1, <3>1, <3>2 DEF CloseOK
  <2>7. CASE m = l /\ Drain(l) /\ Flushable(l)
    <3>1. /\ buffer' = buffer /\ faulty' = faulty
          /\ closing'[m] = "draining" /\ flight'[m] = "download" /\ batch'[m] = buffer[m]
      BY <1>1, <2>7 DEF LTypeOK, Drain, StartFlush
    <3>2. Gone(m)' + Len(batch'[m]) = appended[m]
      BY <1>1, <2>1, <3>1 DEF Gone
    <3> QED BY <1>1, <2>1, <3>1, <3>2 DEF CloseOK
  <2>8. CASE m = l /\ Drain(l) /\ ~Flushable(l)
    <3>1. buffer' = buffer /\ closing'[m] = "closed" /\ buffer[m] = <<>>
      BY <1>1, <2>8 DEF LTypeOK, Drain, Flushable
    <3>2. Gone(m)' = appended[m]
      BY <1>1, <2>1, <3>1 DEF Gone
    <3> QED BY <1>1, <2>1, <3>1, <3>2 DEF CloseOK
  <2> QED BY <1>4, <2>2, <2>3, <2>4, <2>5, <2>6, <2>7, <2>8 DEF Flush, FlushStep
<1>5. ASSUME NEW s \in Signals, Signal(s) PROVE CloseOK(m)'
  <2>1. UNCHANGED logVars
    BY <1>5 DEF Signal
  <2>2. CASE Signalled
    BY <1>1, <1>5, <2>1, <2>2 DEF Signal, logVars, flushVars, CloseOK, Gone
  <2>3. CASE ~Signalled
    <3>1. closing[m] = "no" /\ atSignal'[m] = appended[m]
      BY <1>5, <2>3 DEF Signal, Signalled, EInv, DrainOK
    <3> QED BY <1>1, <2>1, <3>1 DEF logVars, flushVars, CloseOK
  <2> QED BY <2>2, <2>3
<1>6. ASSUME NEW s \in Signals, StartDrain(s) PROVE CloseOK(m)'
  <2>1. closing[m] = "no"
    BY <1>6 DEF StartDrain, EInv, HandlersOK, DrainOK, Active
  <2>2. closing'[m] \in {"no", "waiting"}
    BY <1>6, <2>1 DEF StartDrain, CloseAll
  <2> QED BY <1>1, <1>6, <2>2 DEF StartDrain, CloseAll, flushVars, CloseOK
<1>7. ASSUME NEW s \in Signals, Drained(s) \/ Exit(s) PROVE CloseOK(m)'
  BY <1>1, <1>7 DEF Drained, Exit, logVars, flushVars, CloseOK, Gone
<1>8. ASSUME UNCHANGED vars PROVE CloseOK(m)'
  BY <1>1, <1>8 DEF vars, endVars, logVars, flushVars, CloseOK, Gone
<1> QED
  BY <1>2, <1>3, <1>4, <1>5, <1>6, <1>7, <1>8 DEF Next, HandlerStep

\* What the first signal found is stored when the process exits, unless the final flush
\* failed, in HTTP mode whatever signals come and in stdio mode for one signal.
THEOREM DrainedByExit ==
    ASSUME StdioSignals <= 1
    PROVE  Spec => []DrainedBeforeExit
<1>1. IInv /\ EInv /\ [Next]_vars => EInv'
  <2> SUFFICES ASSUME IInv, EInv, [Next]_vars PROVE EInv'
    OBVIOUS
  <2>1. HandlersOK'
    BY HandlersKeep DEF IInv, EInv
  <2>2. DrainOK'
    BY DrainKeeps DEF IInv
  <2>3. \A l \in Loggers : CloseOK(l)'
    BY CloseKeeps
  <2> QED BY <2>1, <2>2, <2>3 DEF EInv
<1>2. ASSUME IInv, EInv PROVE DrainedBeforeExit
  <2> SUFFICES ASSUME exited, NEW l \in Loggers, ~faulty[l], NEW n \in 1 .. atSignal[l]
               PROVE  \E i \in 1 .. Len(object[l]) : object[l][i] = n
    BY DEF DrainedBeforeExit
  <2>1. atSignal[l] \in Nat /\ Gone(l) \in Int /\ Len(batch[l]) \in Nat
    BY <1>2, LogAssumption DEF IInv, TypeOK, LTypeOK, Gone
  <2>2. PICK s \in Signals : handler[s] = "ending"
    BY <1>2 DEF EInv, HandlersOK
  <2>3. l \in snapshot[s]
    BY <1>2, <2>1, <2>2 DEF EInv, DrainOK
  <2>4. closing[l] = "closed"
    BY <1>2, <2>2, <2>3 DEF EInv, DrainOK
  <2>5. atSignal[l] <= Gone(l)
    BY <1>2, <2>4 DEF EInv, CloseOK
  <2>6. n \in 1 .. Written(l)
    BY <2>1, <2>5 DEF Written
  <2> QED BY <1>2, <2>6 DEF IInv, LogOK, ObjectOK
<1> QED
  BY <1>1, <1>2, InitEInv, Invariance, PTL DEF Spec

================================================================================
