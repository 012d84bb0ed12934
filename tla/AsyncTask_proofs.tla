------------------------ MODULE AsyncTask_proofs ------------------------
(***************************************************************************)
(* Safety of report runs and their tasks, for every retry budget, backoff, *)
(* cooldown, headroom and lag.                                             *)
(*                                                                         *)
(* The invariant of a run has one part per question: where its loops       *)
(* stand, which ids it holds, what the platform was asked for, what is     *)
(* left in the account, what happened after the cap, and how much of the   *)
(* worst case has been slept.  The invariant of its task says that it can  *)
(* only expire once the lag has used up the headroom.                      *)
(***************************************************************************)
EXTENDS AsyncTask, WellFoundedInduction, TLAPS

Longest == IF InitialDelay < MaxDelay THEN MaxDelay ELSE InitialDelay

Ended   == {"delete", "done"}
Polling == {"first", "fetch", "pause", "deafPause"}

\* Where the loops over attempts and over status reads stand.
LoopsOK ==
    /\ attempt < QueryRetries
    /\ pc = "cooldown" => attempt + 1 < QueryRetries
    /\ pc = "first" => reads = 0 /\ delay = InitialDelay
    /\ pc \in {"fetch", "pause", "deafPause"} => reads >= 1
    /\ pc \in {"pause", "deafPause"} => reads < PollRetries
    /\ delay <= Longest

\* Which ids the run must hold by now.
IdsOK ==
    /\ reportKnown => queryKnown
    /\ pc = "create" => ~queryKnown
    /\ pc \in {"status", "run", "download"} \cup Polling => queryKnown
    /\ pc = "status" => reportKnown

\* What the platform was asked for.
AskedOK ==
    /\ creates <= 1 /\ overlaps \subseteq {"unspecified"}
    /\ pc \in {"head", "create", "cooldown"} /\ ~queryKnown => creates = 0
    /\ pc \notin Ended /\ ~reportKnown => report = "none"
    /\ pc = "run" /\ report \notin {"none", "failed"} => lastSaid = "unspecified"

\* What is left behind.
LeftOK ==
    /\ pc = "done" => deleteTried \/ ~queryKnown
    /\ outcome = "csv" => report = "done" /\ pc \in Ended

\* What happened after the cap.
LateOK ==
    /\ ~expired => late = 0 /\ lateSlept = 0
    /\ late <= 1
    /\ pc \in {"create", "status"} => late = 0
    /\ pc \notin Ended => lateSlept = 0
    /\ lateSlept <= Longest

\* The worst case of one attempt, and what is still to be slept in this one.
AttemptCost == InitialDelay + PollSleeps[1][InitialDelay]

\* Where an attempt has slept nothing yet, and where it has begun to read.
Before == {"head", "create", "status", "run", "first"}
Reads  == {"fetch", "pause", "deafPause"}

OwedAt(p, i, d) ==
    IF p \in Before THEN AttemptCost ELSE IF p \in Reads THEN PollSleeps[i][d] ELSE 0

Owed == OwedAt(pc, reads, delay)

\* What has been slept, with what this attempt still owes, is within the worst
\* case of the attempts so far.
SleptOK == slept + Owed <= attempt * (AttemptCost + Cooldown) + AttemptCost

RInv == LoopsOK /\ IdsOK /\ AskedOK /\ LeftOK /\ LateOK /\ SleptOK

\* The task lives as long as its worker, while the lag stays below the headroom.
TaskOK ==
    /\ worker \in {"storing", "failing", "done"} => pc = "done"
    /\ task = "working" => since = 0 /\ worker # "done"
    /\ worker # "none" => task # "none"
    /\ worker \in {"running", "storing", "failing"} /\ ~closed /\ lag < Headroom
        => task = "working"

IInv == TypeOK /\ RInv /\ TaskOK
-----------------------------------------------------------------------------
(* The worst case of a run's sleeps is a number.                           *)

\* A nonempty set of naturals has a least element.
LEMMA LeastNat ==
    ASSUME NEW T \in SUBSET Nat, T # {}
    PROVE  \E m \in T : \A y \in T : m <= y
<1>1. PICK m \in T : \A y \in T : ~(<<y, m>> \in OpToRel(<, Nat))
  BY WFMin, NatLessThanWellFounded
<1>2. \A y \in T : ~(y < m)
  BY <1>1 DEF OpToRel
<1> QED
  BY <1>2

\* Downward induction over the reads of one polling.
LEMMA DownFromLast ==
    ASSUME NEW S, PollRetries \in S, \A i \in 1 .. PollRetries : i + 1 \in S => i \in S
    PROVE  \A i \in 1 .. PollRetries : i \in S
<1> DEFINE T == {n \in Nat : n < PollRetries /\ PollRetries - n \notin S}
<1>0. PollRetries \in Nat \ {0}
  BY ReportAssumption
<1>1. T = {}
  <2> SUFFICES ASSUME T # {} PROVE FALSE
    OBVIOUS
  <2>1. PICK m \in T : \A y \in T : m <= y
    BY LeastNat
  <2>2. m \in Nat /\ m < PollRetries /\ PollRetries - m \notin S /\ m # 0
    BY <1>0, <2>1
  <2>3. m - 1 \in Nat /\ m - 1 < PollRetries /\ m - 1 \notin T
    BY <1>0, <2>1, <2>2
  <2>4. PollRetries - (m - 1) \in S
    BY <2>3
  <2>5. PollRetries - m \in 1 .. PollRetries /\ (PollRetries - m) + 1 = PollRetries - (m - 1)
    BY <1>0, <2>2
  <2> QED BY <2>2, <2>4, <2>5
<1>2. ASSUME NEW i \in 1 .. PollRetries PROVE i \in S
  <2>1. /\ PollRetries - i \in Nat /\ PollRetries - i < PollRetries
        /\ PollRetries - (PollRetries - i) = i
    BY <1>0, <1>2
  <2> QED BY <1>1, <2>1
<1> QED BY <1>2

Doubled(d) == IF 2 * d < MaxDelay THEN 2 * d ELSE MaxDelay

\* The equation that defines PollSleeps, for reads from i on.
Sums(f, i) ==
    \A j \in i .. PollRetries : \A d \in Nat :
        f[j][d] = IF j = PollRetries THEN 0 ELSE d + f[j + 1][Doubled(d)]

\* A function that meets it exists, so that PollSleeps is one.
LEMMA SumsExist == \E f \in [1 .. PollRetries -> [Nat -> Nat]] : Sums(f, 1)
<1> DEFINE S == {i \in 1 .. PollRetries :
                   \E f \in [i .. PollRetries -> [Nat -> Nat]] : Sums(f, i)}
<1>0. PollRetries \in Nat \ {0} /\ \A d \in Nat : Doubled(d) \in Nat
  BY ReportAssumption DEF Doubled
<1>1. PollRetries \in S
  <2> DEFINE f == [j \in PollRetries .. PollRetries |-> [d \in Nat |-> 0]]
  <2>1. f \in [PollRetries .. PollRetries -> [Nat -> Nat]]
    OBVIOUS
  <2>2. Sums(f, PollRetries)
    BY <1>0 DEF Sums
  <2> QED BY SMTT(30), <1>0, <2>1, <2>2
<1>2. ASSUME NEW i \in 1 .. PollRetries, i + 1 \in S
      PROVE  i \in S
  <2>1. PICK f \in [(i + 1) .. PollRetries -> [Nat -> Nat]] : Sums(f, i + 1)
    BY <1>2
  <2>2. i + 1 \in (i + 1) .. PollRetries /\ i \in Nat
    BY <1>0, <1>2
  <2> DEFINE g == [j \in i .. PollRetries |->
                     IF j = i THEN [d \in Nat |-> d + f[i + 1][Doubled(d)]] ELSE f[j]]
  <2>3. ASSUME NEW j \in i .. PollRetries
        PROVE  /\ j # i => j \in (i + 1) .. PollRetries /\ g[j] = f[j]
               /\ g[j] \in [Nat -> Nat]
    <3>1. CASE j = i
      <4>1. g[j] = [d \in Nat |-> d + f[i + 1][Doubled(d)]]
        BY <3>1
      <4>2. f[i + 1] \in [Nat -> Nat]
        BY <2>1, <2>2
      <4> DEFINE r == f[i + 1]
      <4> HIDE DEF g, r
      <4>3. ASSUME NEW d \in Nat PROVE d + r[Doubled(d)] \in Nat
        <5>1. r \in [Nat -> Nat] /\ Doubled(d) \in Nat
          BY <1>0, <4>2 DEF r
        <5>2. r[Doubled(d)] \in Nat
          BY <5>1
        <5> QED BY <5>2
      <4>4. g[j] = [d \in Nat |-> d + r[Doubled(d)]]
        BY <4>1 DEF r
      <4> QED BY <3>1, <4>3, <4>4
    <3>2. CASE j # i
      <4>1. j \in (i + 1) .. PollRetries
        BY <1>0, <2>2, <3>2
      <4>2. g[j] = f[j]
        BY <3>2
      <4> HIDE DEF g
      <4> QED BY <2>1, <4>1, <4>2
    <3> QED BY <3>1, <3>2
  <2>4. ASSUME NEW j \in i .. PollRetries, NEW d \in Nat
        PROVE  g[j][d] = IF j = PollRetries THEN 0 ELSE d + g[j + 1][Doubled(d)]
    <3>1. CASE j = i
      <4>1. g[j][d] = d + f[i + 1][Doubled(d)] /\ j # PollRetries
        BY <1>0, <2>2, <3>1
      <4>2. g[i + 1] = f[i + 1]
        BY <1>0, <2>2
      <4> QED BY <3>1, <4>1, <4>2
    <3>2. CASE j # i
      <4>1. j \in (i + 1) .. PollRetries /\ g[j] = f[j]
        BY <2>3, <3>2
      <4>2. f[j][d] = IF j = PollRetries THEN 0 ELSE d + f[j + 1][Doubled(d)]
        BY <2>1, <4>1 DEF Sums
      <4>3. j # PollRetries => g[j + 1] = f[j + 1]
        BY <1>0, <2>2, <4>1
      <4> QED BY <4>1, <4>2, <4>3
    <3> QED BY <3>1, <3>2
  <2>5. g \in [i .. PollRetries -> [Nat -> Nat]]
    BY <2>3
  <2>6. Sums(g, i)
    BY <2>4 DEF Sums
  <2> QED BY <2>5, <2>6
<1> HIDE DEF S
<1>3. 1 \in S
  BY <1>0, <1>1, <1>2, DownFromLast
<1> QED BY <1>3 DEF S

\* What computeWorstCaseReportDurationMs adds up is a number, read by read.
LEMMA PollSleepsAre ==
    /\ \A i \in 1 .. PollRetries, d \in Nat : PollSleeps[i][d] \in Nat
    /\ Sums(PollSleeps, 1)
<1>0. PollRetries \in Nat \ {0} /\ \A d \in Nat : Doubled(d) \in Nat
  BY ReportAssumption DEF Doubled
<1>1. PICK f \in [1 .. PollRetries -> [Nat -> Nat]] : Sums(f, 1)
  BY SumsExist
<1>2. f = [i \in 1 .. PollRetries |-> [d \in Nat |->
             IF i = PollRetries THEN 0
             ELSE d + f[i + 1][IF 2 * d < MaxDelay THEN 2 * d ELSE MaxDelay]]]
  <2>1. ASSUME NEW i \in 1 .. PollRetries
        PROVE  f[i] = [d \in Nat |->
                 IF i = PollRetries THEN 0
                 ELSE d + f[i + 1][IF 2 * d < MaxDelay THEN 2 * d ELSE MaxDelay]]
    <3>1. f[i] \in [Nat -> Nat]
      OBVIOUS
    <3>2. \A d \in Nat : f[i][d] = IF i = PollRetries THEN 0 ELSE d + f[i + 1][Doubled(d)]
      BY <1>1 DEF Sums
    <3> QED BY <3>1, <3>2 DEF Doubled
  <2> QED BY <2>1
<1>3. PollSleeps = [i \in 1 .. PollRetries |-> [d \in Nat |->
             IF i = PollRetries THEN 0
             ELSE d + PollSleeps[i + 1][IF 2 * d < MaxDelay THEN 2 * d ELSE MaxDelay]]]
  BY <1>2 DEF PollSleeps
<1>4. Sums(PollSleeps, 1)
  <2> SUFFICES ASSUME NEW i \in 1 .. PollRetries, NEW d \in Nat
               PROVE  PollSleeps[i][d] =
                        IF i = PollRetries THEN 0 ELSE d + PollSleeps[i + 1][Doubled(d)]
    BY DEF Sums
  <2>1. PollSleeps[i] = [e \in Nat |->
             IF i = PollRetries THEN 0
             ELSE e + PollSleeps[i + 1][IF 2 * e < MaxDelay THEN 2 * e ELSE MaxDelay]]
    BY <1>3
  <2> QED BY <2>1 DEF Doubled
<1> DEFINE S == {i \in 1 .. PollRetries : \A d \in Nat : PollSleeps[i][d] \in Nat}
<1>a. \A i \in 1 .. PollRetries, d \in Nat :
        PollSleeps[i][d] = IF i = PollRetries THEN 0 ELSE d + PollSleeps[i + 1][Doubled(d)]
  BY <1>4 DEF Sums
<1>5. PollRetries \in S
  <2>1. PollRetries \in 1 .. PollRetries
    BY <1>0
  <2>2. \A d \in Nat : PollSleeps[PollRetries][d] = 0
    BY <1>a, <2>1
  <2>3. \A d \in Nat : PollSleeps[PollRetries][d] \in Nat
    BY <2>2
  <2> QED BY <2>1, <2>3
<1>6. ASSUME NEW i \in 1 .. PollRetries, i + 1 \in S PROVE i \in S
  <2> SUFFICES ASSUME NEW d \in Nat PROVE PollSleeps[i][d] \in Nat
    OBVIOUS
  <2>1. PollSleeps[i + 1][Doubled(d)] \in Nat
    BY <1>0, <1>6
  <2>2. PollSleeps[i][d] = IF i = PollRetries THEN 0 ELSE d + PollSleeps[i + 1][Doubled(d)]
    BY <1>a
  <2> DEFINE x == PollSleeps[i][d]
             y == PollSleeps[i + 1][Doubled(d)]
  <2> HIDE DEF x, y
  <2>3. y \in Nat /\ x = IF i = PollRetries THEN 0 ELSE d + y
    BY <2>1, <2>2 DEF x, y
  <2>4. x \in Nat
    BY <2>3
  <2> QED BY <2>4 DEF x
<1> HIDE DEF S
<1>7. \A i \in 1 .. PollRetries : i \in S
  BY <1>5, <1>6, DownFromLast
<1> QED BY <1>4, <1>7 DEF S
-----------------------------------------------------------------------------
(* The loops of a run and the ids it holds.                                *)

\* Attempts and reads stay within their budgets.
LEMMA LoopsStep ==
    ASSUME RTypeOK, RInv, RunStep \/ Expire \/ Generate
    PROVE  RTypeOK' /\ LoopsOK'
<1>0. RTypeOK /\ LoopsOK
  BY DEF RInv
<1> USE ReportAssumption DEF RTypeOK, Requests, Sleeps, Unfinished, Reports, LoopsOK, Longest,
      progress, ids, platform, clock, history
<1>1. CASE Head
  BY <1>0, <1>1 DEF Head, Begin, Continue, Over
<1>2. CASE CreateAnswered
  BY <1>0, <1>2 DEF CreateAnswered, Create, Begin, Continue
<1>3. CASE CreateLost
  <2>1. /\ query' \in {"none", "live", "deleted"} /\ report' = report
        /\ overlaps' = overlaps /\ creates' \in Nat
    BY <1>0, <1>3 DEF CreateLost, Create
  <2>2. pc' = "done" /\ outcome' = "error" /\ UNCHANGED <<attempt, reads, delay, late>>
    BY <1>3 DEF CreateLost, Ambiguous, Fatal, Over
  <2>3. UNCHANGED <<queryKnown, reportKnown, lastSaid, deleteTried, capped, expired, slept, lateSlept>>
    BY <1>3 DEF CreateLost
  <2> QED BY <1>0, <2>1, <2>2, <2>3
<1>4. CASE CreateRefused
  BY <1>0, <1>4 DEF CreateRefused, Refused, Retry, Over
<1>5. CASE StatusAnswered
  BY <1>0, <1>5 DEF StatusAnswered, Usable, StartPolling, Begin
<1>6. CASE ReadFailed
  BY <1>0, <1>6 DEF ReadFailed, Refused, Fatal, Retry, Over
<1>7. CASE RunAnswered
  BY <1>0, <1>7 DEF RunAnswered, Run, StartPolling
<1>8. CASE RunLost
  <2>1. /\ query' \in {"none", "live", "deleted"}
        /\ report' \in Reports /\ overlaps' \subseteq Reports /\ creates' \in Nat
    BY <1>0, <1>8 DEF RunLost, Run
  <2>2. pc' \in Ended /\ outcome' = "error" /\ UNCHANGED <<attempt, reads, delay, late>>
    BY <1>8 DEF RunLost, Ambiguous, Fatal, Over, Ended
  <2> QED BY <1>0, <1>8, <2>1, <2>2 DEF RunLost, Ended
<1>9. CASE RunRefused
  BY <1>0, <1>9 DEF RunRefused, Refused, Retry, Over
<1>10. CASE FirstSleep
  BY <1>0, <1>10 DEF FirstSleep, Slept, Poll, Over, Begin
<1>11. CASE FetchUnfinished
  BY <1>0, <1>11 DEF FetchUnfinished, Retry, Over
<1>12. CASE FetchFailed
  BY <1>0, <1>12 DEF FetchFailed, Retry, Over
<1>13. CASE FetchDone
  BY <1>0, <1>13 DEF FetchDone, Over
<1>14. CASE Pause
  BY <1>0, <1>14 DEF Pause, Slept, Poll, Over, Begin, NextDelay
<1>15. CASE CooldownOver
  BY <1>0, <1>15 DEF CooldownOver, Slept
<1>16. CASE Download
  BY <1>0, <1>16 DEF Download, Over
<1>17. CASE Delete
  BY <1>0, <1>17 DEF Delete
<1>18. CASE Expire
  BY <1>0, <1>18 DEF Expire
<1>19. CASE Generate
  BY <1>0, <1>19 DEF Generate
<1> QED BY <1>1, <1>2, <1>3, <1>4, <1>5, <1>6, <1>7, <1>8, <1>9, <1>10, <1>11, <1>12, <1>13,
      <1>14, <1>15, <1>16, <1>17, <1>18, <1>19 DEF RunStep

\* Ids, what was asked of the platform, and what is left there.
LEMMA IdsStep ==
    ASSUME RTypeOK, RInv, RunStep \/ Expire \/ Generate
    PROVE  IdsOK' /\ AskedOK' /\ LeftOK'
<1>0. RTypeOK /\ IdsOK /\ AskedOK /\ LeftOK
  BY DEF RInv
<1> USE ReportAssumption DEF RTypeOK, Requests, Sleeps, Unfinished, Reports, Polling, Ended, IdsOK,
      AskedOK, LeftOK, progress, ids, platform, clock, history
<1>1. CASE Head
  BY <1>0, <1>1 DEF Head, Begin, Continue, Over
<1>2. CASE CreateAnswered
  BY <1>0, <1>2 DEF CreateAnswered, Create, Begin, Continue
<1>3. CASE CreateLost
  <2>1. /\ report' = report /\ overlaps' = overlaps
        /\ creates' = creates \/ creates' = creates + 1
    BY <1>3 DEF CreateLost, Create
  <2>2. pc = "create" /\ pc' = "done" /\ outcome' = "error" /\ UNCHANGED late
    BY <1>3 DEF CreateLost, Ambiguous, Fatal, Over
  <2>3. UNCHANGED <<queryKnown, reportKnown, lastSaid, deleteTried>>
    BY <1>3 DEF CreateLost
  <2>4. ~queryKnown /\ ~reportKnown /\ creates = 0
    BY <1>0, <2>2
  <2> QED BY <1>0, <2>1, <2>2, <2>3, <2>4
<1>4. CASE CreateRefused
  BY <1>0, <1>4 DEF CreateRefused, Refused, Retry, Over
<1>5. CASE StatusAnswered
  BY <1>0, <1>5 DEF StatusAnswered, Usable, StartPolling, Begin
<1>6. CASE ReadFailed
  BY <1>0, <1>6 DEF ReadFailed, Refused, Fatal, Retry, Over
<1>7. CASE RunAnswered
  BY <1>0, <1>7 DEF RunAnswered, Run, StartPolling
<1>8. CASE RunLost
  BY <1>0, <1>8 DEF RunLost, Run, Ambiguous, Fatal, Over, platform
<1>9. CASE RunRefused
  BY <1>0, <1>9 DEF RunRefused, Refused, Retry, Over
<1>10. CASE FirstSleep
  BY <1>0, <1>10 DEF FirstSleep, Slept, Poll, Over, Begin
<1>11. CASE FetchUnfinished
  BY <1>0, <1>11 DEF FetchUnfinished, Retry, Over
<1>12. CASE FetchFailed
  BY <1>0, <1>12 DEF FetchFailed, Retry, Over
<1>13. CASE FetchDone
  BY <1>0, <1>13 DEF FetchDone, Over
<1>14. CASE Pause
  BY <1>0, <1>14 DEF Pause, Slept, Poll, Over, Begin, NextDelay
<1>15. CASE CooldownOver
  BY <1>0, <1>15 DEF CooldownOver, Slept
<1>16. CASE Download
  BY <1>0, <1>16 DEF Download, Over
<1>17. CASE Delete
  BY <1>0, <1>17 DEF Delete
<1>18. CASE Expire
  BY <1>0, <1>18 DEF Expire
<1>19. CASE Generate
  BY <1>0, <1>19 DEF Generate
<1> QED BY <1>1, <1>2, <1>3, <1>4, <1>5, <1>6, <1>7, <1>8, <1>9, <1>10, <1>11, <1>12, <1>13,
      <1>14, <1>15, <1>16, <1>17, <1>18, <1>19 DEF RunStep

\* What happens after the cap.
LEMMA LateStep ==
    ASSUME RTypeOK, RInv, RunStep \/ Expire \/ Generate
    PROVE  LateOK'
<1>0. RTypeOK /\ IdsOK /\ LoopsOK /\ LateOK
  BY DEF RInv
<1> USE ReportAssumption DEF RTypeOK, Requests, Sleeps, Unfinished, Reports, Polling, Ended, IdsOK,
      LateOK, LoopsOK, Longest, progress, ids, platform, clock, history
<1>1. CASE Head
  BY <1>0, <1>1 DEF Head, Begin, Continue, Over
<1>2. CASE CreateAnswered
  BY <1>0, <1>2 DEF CreateAnswered, Create, Begin, Continue
<1>3. CASE CreateLost
  BY <1>0, <1>3 DEF CreateLost, Create, Ambiguous, Fatal, Over, platform
<1>4. CASE CreateRefused
  BY <1>0, <1>4 DEF CreateRefused, Refused, Retry, Over
<1>5. CASE StatusAnswered
  BY <1>0, <1>5 DEF StatusAnswered, Usable, StartPolling, Begin
<1>6. CASE ReadFailed
  BY <1>0, <1>6 DEF ReadFailed, Refused, Fatal, Retry, Over
<1>7. CASE RunAnswered
  BY <1>0, <1>7 DEF RunAnswered, Run, StartPolling
<1>8. CASE RunLost
  BY <1>0, <1>8 DEF RunLost, Run, Ambiguous, Fatal, Over, platform
<1>9. CASE RunRefused
  BY <1>0, <1>9 DEF RunRefused, Refused, Retry, Over
<1>10. CASE FirstSleep
  BY <1>0, <1>10 DEF FirstSleep, Slept, Poll, Over, Begin
<1>11. CASE FetchUnfinished
  BY <1>0, <1>11 DEF FetchUnfinished, Retry, Over
<1>12. CASE FetchFailed
  BY <1>0, <1>12 DEF FetchFailed, Retry, Over
<1>13. CASE FetchDone
  BY <1>0, <1>13 DEF FetchDone, Over
<1>14. CASE Pause
  BY <1>0, <1>14 DEF Pause, Slept, Poll, Over, Begin, NextDelay
<1>15. CASE CooldownOver
  BY <1>0, <1>15 DEF CooldownOver, Slept
<1>16. CASE Download
  BY <1>0, <1>16 DEF Download, Over
<1>17. CASE Delete
  BY <1>0, <1>17 DEF Delete
<1>18. CASE Expire
  BY <1>0, <1>18 DEF Expire
<1>19. CASE Generate
  BY <1>0, <1>19 DEF Generate
<1> QED BY <1>1, <1>2, <1>3, <1>4, <1>5, <1>6, <1>7, <1>8, <1>9, <1>10, <1>11, <1>12, <1>13,
      <1>14, <1>15, <1>16, <1>17, <1>18, <1>19 DEF RunStep
-----------------------------------------------------------------------------
(* The sleeps against the worst case.                                      *)

\* The cost of an attempt is a number, the first sleep included.
LEMMA CostType ==
    /\ AttemptCost \in Nat /\ AttemptCost >= InitialDelay
    /\ PollSleeps[1][InitialDelay] \in Nat
    /\ AttemptCost = InitialDelay + PollSleeps[1][InitialDelay]
<1>1. 1 \in 1 .. PollRetries /\ InitialDelay \in Nat
  BY ReportAssumption
<1>2. PollSleeps[1][InitialDelay] \in Nat
  BY <1>1, PollSleepsAre
<1> DEFINE p == PollSleeps[1][InitialDelay]
<1> HIDE DEF p
<1>3. p \in Nat /\ AttemptCost = InitialDelay + p
  BY <1>2 DEF p, AttemptCost
<1> QED BY <1>1, <1>3 DEF p

\* What an attempt may owe is a number.
LEMMA OwedIsNat ==
    ASSUME NEW p, NEW i \in Nat, NEW d \in Nat, p \in Reads => i \in 1 .. PollRetries
    PROVE  OwedAt(p, i, d) \in Nat
<1>1. CASE p \in Before
  BY <1>1, CostType DEF OwedAt
<1>2. CASE p \notin Before /\ p \in Reads
  <2>1. OwedAt(p, i, d) = PollSleeps[i][d]
    BY <1>2 DEF OwedAt
  <2> QED BY <1>2, <2>1, PollSleepsAre
<1>3. CASE p \notin Before /\ p \notin Reads
  BY <1>3 DEF OwedAt
<1> QED BY <1>1, <1>2, <1>3

\* What this attempt owes is a number, before a step and after it.
LEMMA OwedType == RTypeOK /\ LoopsOK => Owed \in Nat
<1> SUFFICES ASSUME RTypeOK, LoopsOK PROVE Owed \in Nat
  OBVIOUS
<1>1. reads \in Nat /\ delay \in Nat /\ (pc \in Reads => reads \in 1 .. PollRetries)
  BY DEF RTypeOK, LoopsOK, Reads
<1> QED BY <1>1, OwedIsNat DEF Owed

LEMMA OwedNext == RTypeOK' /\ LoopsOK' => Owed' \in Nat
<1> SUFFICES ASSUME RTypeOK', LoopsOK' PROVE Owed' \in Nat
  OBVIOUS
<1>1. reads' \in Nat /\ delay' \in Nat /\ (pc' \in Reads => reads' \in 1 .. PollRetries)
  BY DEF RTypeOK, LoopsOK, Reads
<1>2. OwedAt(pc', reads', delay') \in Nat
  BY <1>1, OwedIsNat
<1>3. Owed' = OwedAt(pc', reads', delay')
  BY DEF Owed, OwedAt, AttemptCost, PollSleeps
<1> QED BY <1>2, <1>3

\* Sums of what was and what is slept and owed.
LEMMA Sleeping ==
    ASSUME NEW s \in Nat, NEW o \in Nat, NEW s2 \in Nat, NEW o2 \in Nat
    PROVE  /\ s2 = s /\ o2 <= o => s2 + o2 <= s + o
           /\ \A m \in Nat : s + o <= m /\ s2 + o2 <= s + o => s2 + o2 <= m
           /\ \A d \in Nat : s2 = s + d /\ o = d + o2 => s2 + o2 <= s + o
           /\ \A d \in Nat : s2 = s + d /\ d <= o /\ o2 = 0 => s2 + o2 <= s + o
OBVIOUS

\* A step that sleeps no more than it settles of what was owed.
LEMMA SleptSoFar ==
    ASSUME RTypeOK, LoopsOK, RTypeOK', LoopsOK', SleptOK, attempt' = attempt,
           slept' + Owed' <= slept + Owed
    PROVE  SleptOK'
<1> DEFINE m == attempt * (AttemptCost + Cooldown) + AttemptCost
<1>a. Owed \in Nat /\ Owed' \in Nat
  BY OwedType, OwedNext
<1>1. m \in Nat /\ slept \in Nat /\ slept' \in Nat /\ Owed \in Nat /\ Owed' \in Nat
  <2>1. attempt \in Nat /\ AttemptCost \in Nat /\ Cooldown \in Nat
    BY CostType, ReportAssumption DEF RTypeOK
  <2>2. m \in Nat
    BY <2>1
  <2> HIDE DEF m
  <2>3. slept \in Nat /\ slept' \in Nat
    BY DEF RTypeOK
  <2> QED BY <1>a, <2>2, <2>3
<1>2. slept + Owed <= m
  BY DEF SleptOK
<1>3. SleptOK' <=> slept' + Owed' <= m
  BY DEF SleptOK, AttemptCost
<1>b. slept' + Owed' <= slept + Owed
  OBVIOUS
<1> HIDE DEF m
<1>4. slept' + Owed' <= m
  BY <1>1, <1>2, <1>b, Sleeping
<1> QED BY <1>3, <1>4

\* What is slept stays within the worst case of the attempts so far.
LEMMA SleptStep ==
    ASSUME RTypeOK, RInv, RTypeOK', LoopsOK', RunStep \/ Expire \/ Generate
    PROVE  SleptOK'
<1> USE DEF Before, Reads
<1>0. LoopsOK /\ SleptOK /\ Owed \in Nat /\ Owed' \in Nat /\ AttemptCost \in Nat
  <2>1. LoopsOK /\ SleptOK
    BY DEF RInv
  <2>2. Owed \in Nat
    BY <2>1, OwedType
  <2>3. Owed' \in Nat
    BY OwedNext
  <2> QED BY <2>1, <2>2, <2>3, CostType
<1>a. slept \in Nat /\ slept' \in Nat /\ InitialDelay \in Nat /\ delay \in Nat /\ reads \in Nat
  BY ReportAssumption DEF RTypeOK
<1>1. ASSUME slept' = slept, attempt' = attempt,
             \/ pc' \notin Before \cup Reads
             \/ pc \in Before /\ pc' \in Before
             \/ pc \in Reads /\ pc' \in Reads /\ reads' = reads /\ delay' = delay
      PROVE  SleptOK'
  <2>1. Owed' <= Owed
    <3>1. CASE pc' \notin Before \cup Reads
      <4>1. Owed' = 0
        BY <3>1 DEF Owed, OwedAt
      <4> QED BY <1>0, <4>1
    <3>2. CASE pc \in Reads /\ pc' \in Reads /\ reads' = reads /\ delay' = delay
      <4>1. Owed' = PollSleeps[reads][delay] /\ Owed = PollSleeps[reads][delay]
        BY <3>2 DEF Owed, OwedAt
      <4>2. Owed' = Owed
        BY <4>1
      <4> QED BY <1>0, <4>2
    <3>3. CASE pc \in Before /\ pc' \in Before
      <4>1. Owed = AttemptCost /\ Owed' = AttemptCost
        BY <3>3 DEF Owed, OwedAt, AttemptCost
      <4>2. Owed' = Owed
        BY <4>1
      <4> QED BY <1>0, <4>2
    <3> QED BY <1>1, <3>1, <3>2, <3>3
  <2>2. slept' + Owed' <= slept + Owed
    BY <1>0, <1>a, <1>1, <2>1, Sleeping
  <2> QED BY <1>0, <1>1, <2>2, SleptSoFar
<1>2. CASE Head \/ CreateAnswered \/ CreateLost \/ CreateRefused
  <2>1. slept' = slept /\ attempt' = attempt /\ pc \in Before /\ pc' \notin Reads
    BY <1>2 DEF Head, CreateAnswered, CreateLost, CreateRefused, Begin, Continue, Over,
         Ambiguous, Fatal, Refused, Retry
  <2> QED BY <1>1, <2>1
<1>3. CASE StatusAnswered \/ RunAnswered \/ RunLost \/ RunRefused
  <2>1. slept' = slept /\ attempt' = attempt /\ pc \in Before /\ pc' \notin Reads
    BY <1>3 DEF StatusAnswered, RunAnswered, RunLost, RunRefused, Begin, StartPolling, Over,
         Ambiguous, Fatal, Refused, Retry
  <2> QED BY <1>1, <2>1
<1>4. CASE ReadFailed \/ FetchFailed \/ FetchDone \/ Download \/ Delete
  <2>1. slept' = slept /\ attempt' = attempt /\ pc' \notin Before \cup Reads
    BY <1>4 DEF ReadFailed, FetchFailed, FetchDone, Download, Delete, Over, Fatal, Refused,
         Retry, history
  <2> QED BY <1>1, <2>1
<1>5. CASE FetchUnfinished
  <2>1. /\ slept' = slept /\ attempt' = attempt /\ reads' = reads /\ delay' = delay
        /\ pc \in Reads /\ pc' \notin Before
    BY <1>5 DEF FetchUnfinished, Over, Retry
  <2> QED BY <1>1, <2>1
<1>9. CASE Expire \/ Generate
  <2>1. UNCHANGED <<slept, attempt, pc, reads, delay>>
    BY <1>9 DEF Expire, Generate, progress, history
  <2>2. Owed' = Owed
    BY <2>1 DEF Owed, OwedAt
  <2> QED BY <1>0, <1>a, <2>1, <2>2, SleptSoFar
<1>6. CASE FirstSleep
  <2>0. /\ pc = "first" /\ attempt' = attempt /\ reads = 0 /\ delay = InitialDelay
        /\ delay' = delay /\ Owed = AttemptCost
    BY <1>0, <1>6 DEF FirstSleep, LoopsOK, Owed, OwedAt
  <2>1. CASE expired
    <3>1. slept' = slept /\ pc' \in Ended
      BY <1>6, <2>1 DEF FirstSleep, Poll, Over, Ended
    <3> QED BY <1>1, <2>0, <3>1 DEF Ended
  <2>2. CASE ~expired
    <3>1. slept' = slept + InitialDelay /\ pc' = "fetch" /\ reads' = 1
      BY <1>6, <2>0, <2>2 DEF FirstSleep, Slept, Poll, Begin
    <3>2. Owed' = PollSleeps[1][InitialDelay]
      BY <2>0, <3>1 DEF Owed, OwedAt
    <3>3. AttemptCost = InitialDelay + Owed'
      BY <3>2, CostType
    <3>4. slept' + Owed' <= slept + Owed
      <4>1. Owed = InitialDelay + Owed'
        BY <2>0, <3>3
      <4> QED BY <1>0, <1>a, <3>1, <4>1, Sleeping
    <3> QED BY <1>0, <2>0, <3>4, SleptSoFar
  <2> QED BY <2>1, <2>2
<1>7. CASE Pause
  <2>0. /\ pc \in {"pause", "deafPause"} /\ attempt' = attempt
        /\ reads \in 1 .. PollRetries /\ reads + 1 \in 1 .. PollRetries /\ reads # PollRetries
    BY <1>0, <1>7, ReportAssumption DEF Pause, LoopsOK, RTypeOK
  <2>1. CASE pc = "pause" /\ expired
    <3>1. slept' = slept /\ pc' \in Ended
      BY <1>7, <2>1 DEF Pause, Over, Ended
    <3> QED BY <1>1, <2>0, <3>1 DEF Ended
  <2>2. CASE ~(pc = "pause" /\ expired)
    <3>1. slept' = slept + delay /\ delay' = NextDelay
      BY <1>7, <2>2 DEF Pause, Slept
    <3>2. NextDelay = Doubled(delay) /\ Doubled(delay) \in Nat
      BY <1>a, ReportAssumption DEF NextDelay, Doubled
    <3> DEFINE x == PollSleeps[reads + 1][Doubled(delay)]
    <3>3. Owed = delay + x /\ x \in Nat
      <4>1. Owed = PollSleeps[reads][delay]
        BY <2>0 DEF Owed, OwedAt
      <4>2. PollSleeps[reads][delay] = delay + PollSleeps[reads + 1][Doubled(delay)]
        BY <1>a, <2>0, PollSleepsAre DEF Sums
      <4>3. PollSleeps[reads + 1][Doubled(delay)] \in Nat
        BY <2>0, <3>2, PollSleepsAre
      <4> QED BY <4>1, <4>2, <4>3
    <3>4. Owed' = x \/ Owed' = 0
      <4>1. CASE expired
        <5>1. pc' \in Ended
          BY <1>7, <2>2, <4>1 DEF Pause, Poll, Over, Ended
        <5> QED BY <5>1 DEF Owed, OwedAt, Ended
      <4>2. CASE ~expired
        <5>1. pc' = "fetch" /\ reads' = reads + 1
          BY <1>7, <2>2, <4>2 DEF Pause, Poll, Begin
        <5> QED BY <3>1, <3>2, <5>1 DEF Owed, OwedAt
      <4> QED BY <4>1, <4>2
    <3> HIDE DEF x
    <3>5. slept' + Owed' <= slept + Owed
      <4>1. CASE Owed' = x
        BY <1>0, <1>a, <3>1, <3>3, <4>1, Sleeping
      <4>2. CASE Owed' = 0
        <5>1. \A y \in Nat : delay <= delay + y
          BY <1>a
        <5>2. delay <= Owed
          BY <3>3, <5>1
        <5> QED BY <1>0, <1>a, <3>1, <4>2, <5>2, Sleeping
      <4> QED BY <3>4, <4>1, <4>2
    <3> QED BY <1>0, <2>0, <3>5, SleptSoFar
  <2> QED BY <2>1, <2>2
<1>8. CASE CooldownOver
  <2> DEFINE a == attempt
             u == AttemptCost + Cooldown
  <2>1. /\ pc = "cooldown" /\ pc' = "head" /\ attempt' = a + 1
        /\ slept' = slept \/ slept' = slept + Cooldown
    BY <1>8 DEF CooldownOver, Slept
  <2>2. Owed = 0 /\ Owed' = AttemptCost
    BY <2>1 DEF Owed, OwedAt, AttemptCost
  <2>3. a \in Nat /\ u \in Nat /\ Cooldown \in Nat
    BY <1>0, ReportAssumption DEF RTypeOK
  <2>4. (a + 1) * u = a * u + u
    <3> HIDE DEF a, u
    <3> QED BY <2>3
  <2>5. slept <= a * u + AttemptCost
    <3>1. slept + Owed <= a * u + AttemptCost
      BY <1>0 DEF SleptOK
    <3> QED BY <1>a, <2>2, <3>1
  <2>6. a * u \in Nat /\ u = AttemptCost + Cooldown
    <3>1. a * u \in Nat
      <4> HIDE DEF a, u
      <4> QED BY <2>3
    <3> QED BY <3>1
  <2>7. SleptOK' <=> slept' + AttemptCost <= (a + 1) * u + AttemptCost
    BY <2>1, <2>2 DEF SleptOK, AttemptCost
  <2> DEFINE v == a * u
  <2> HIDE DEF a, u, v
  <2>8. (a + 1) * u = v + AttemptCost + Cooldown /\ v \in Nat /\ slept <= v + AttemptCost
    BY <1>0, <2>3, <2>4, <2>5, <2>6 DEF v
  <2>9. slept' + AttemptCost <= (v + AttemptCost + Cooldown) + AttemptCost
    <3>1. \A s, s2, w, b, c \in Nat :
            s <= w + b /\ (s2 = s \/ s2 = s + c) => s2 + b <= (w + b + c) + b
      OBVIOUS
    <3> QED BY <1>0, <1>a, <2>1, <2>3, <2>8, <3>1
  <2> QED BY <2>7, <2>8, <2>9
<1> QED BY <1>2, <1>3, <1>4, <1>5, <1>6, <1>7, <1>8, <1>9 DEF RunStep
-----------------------------------------------------------------------------
(* The run and its task.                                                   *)

\* A run never sleeps more than computeWorstCaseReportDurationMs says.
LEMMA WithinWorstCase == TypeOK /\ RInv => WorstCase \in Nat /\ slept <= WorstCase
<1> SUFFICES ASSUME TypeOK, RInv PROVE WorstCase \in Nat /\ slept <= WorstCase
  OBVIOUS
<1>1. /\ attempt \in Nat /\ QueryRetries \in Nat \ {0} /\ attempt + 1 <= QueryRetries
      /\ slept \in Nat /\ Owed \in Nat
  BY OwedType, ReportAssumption DEF TypeOK, RTypeOK, RInv, LoopsOK
<1>2. AttemptCost \in Nat /\ Cooldown \in Nat
  BY CostType, ReportAssumption
<1>3. slept + Owed <= attempt * (AttemptCost + Cooldown) + AttemptCost
  BY DEF RInv, SleptOK
<1>4. WorstCase = QueryRetries * AttemptCost + (QueryRetries - 1) * Cooldown
  BY DEF WorstCase, AttemptCost
<1>5. ASSUME NEW q \in Nat, NEW n \in Nat, NEW a \in Nat, NEW c \in Nat, n + 1 <= q
      PROVE  /\ q * a + (q - 1) * c \in Nat
             /\ n * (a + c) + a <= q * a + (q - 1) * c
  <2> DEFINE k == q - (n + 1)
  <2>1. k \in Nat /\ q = (n + 1) + k /\ q - 1 = n + k
    BY <1>5
  <2> HIDE DEF k
  <2>2. q * a = n * a + a + k * a /\ (q - 1) * c = n * c + k * c
    BY <2>1
  <2>3. n * (a + c) = n * a + n * c
    OBVIOUS
  <2>4. n * a \in Nat /\ k * a \in Nat /\ n * c \in Nat /\ k * c \in Nat
    BY <2>1
  <2> QED BY <2>2, <2>3, <2>4
<1>6. /\ WorstCase \in Nat
      /\ attempt * (AttemptCost + Cooldown) + AttemptCost <= WorstCase
  BY <1>1, <1>2, <1>4, <1>5
<1>7. \A s, o, m, w \in Nat : s + o <= m /\ m <= w => s <= w
  OBVIOUS
<1>8. attempt * (AttemptCost + Cooldown) + AttemptCost \in Nat
  <2>1. \A n, a, c \in Nat : n * (a + c) + a \in Nat
    OBVIOUS
  <2> QED BY <1>1, <1>2, <2>1
<1> QED BY <1>1, <1>3, <1>6, <1>7, <1>8

\* A run that has ended takes no step, and time does not run backwards.
LEMMA RunMoves ==
    ASSUME RTypeOK, RunStep \/ Expire \/ Generate
    PROVE  slept <= slept' /\ (pc = "done" => pc' = "done")
<1> USE ReportAssumption DEF RTypeOK, progress, history
<1>1. CASE Head \/ CreateAnswered \/ CreateLost \/ CreateRefused
  <2>1. slept' = slept /\ pc # "done"
    BY <1>1 DEF Head, CreateAnswered, CreateLost, CreateRefused
  <2> QED BY <2>1
<1>2. CASE StatusAnswered \/ ReadFailed \/ RunAnswered \/ RunLost \/ RunRefused
  BY <1>2 DEF StatusAnswered, ReadFailed, RunAnswered, RunLost, RunRefused
<1>3. CASE FirstSleep \/ Pause \/ CooldownOver
  BY <1>3 DEF FirstSleep, Pause, CooldownOver, Slept
<1>4. CASE FetchUnfinished \/ FetchFailed \/ FetchDone \/ Download \/ Delete
  BY <1>4 DEF FetchUnfinished, FetchFailed, FetchDone, Download, Delete
<1>5. CASE Expire \/ Generate
  BY <1>5 DEF Expire, Generate
<1> QED BY <1>1, <1>2, <1>3, <1>4, <1>5 DEF RunStep

\* A step of the run keeps the run's invariant.
LEMMA RunKeeps ==
    ASSUME RTypeOK, RInv, RunStep \/ Expire \/ Generate
    PROVE  RTypeOK' /\ RInv'
<1>1. RTypeOK' /\ LoopsOK'
  BY LoopsStep
<1>2. IdsOK' /\ AskedOK' /\ LeftOK'
  BY IdsStep
<1>3. LateOK'
  BY LateStep
<1>4. SleptOK'
  BY <1>1, SleptStep
<1> QED BY <1>1, <1>2, <1>3, <1>4 DEF RInv

\* A step of the task leaves the run's invariant alone.
LEMMA RunStays ==
    ASSUME RTypeOK, RInv, UNCHANGED reportVars
    PROVE  RTypeOK' /\ RInv'
<1>1. /\ pc' = pc /\ attempt' = attempt /\ reads' = reads /\ delay' = delay
      /\ queryKnown' = queryKnown /\ reportKnown' = reportKnown
      /\ deleteTried' = deleteTried /\ query' = query /\ report' = report
      /\ creates' = creates /\ overlaps' = overlaps /\ lastSaid' = lastSaid /\ capped' = capped
      /\ expired' = expired /\ slept' = slept /\ late' = late
      /\ lateSlept' = lateSlept /\ outcome' = outcome
  BY DEF reportVars, progress, ids, platform, clock, history
<1>2. RTypeOK'
  BY <1>1 DEF RTypeOK
<1>3. LoopsOK' /\ IdsOK' /\ AskedOK' /\ LeftOK' /\ LateOK'
  BY <1>1 DEF RInv, LoopsOK, IdsOK, AskedOK, LeftOK, LateOK
<1>4. SleptOK'
  <2>1. Owed' = Owed
    BY <1>1 DEF Owed, OwedAt
  <2> QED BY <1>1, <2>1 DEF RInv, SleptOK
<1> QED BY <1>2, <1>3, <1>4 DEF RInv

\* The invariant holds at the start.
LEMMA Start == TaskInit => IInv
<1> SUFFICES ASSUME TaskInit PROVE IInv
  OBVIOUS
<1> USE ReportAssumption, TaskAssumption DEF TaskInit, Init
<1>1. TypeOK
  <2>1. capped \in BOOLEAN /\ expired \in BOOLEAN /\ (expired => capped)
    OBVIOUS
  <2>2. /\ pc = "head" /\ attempt \in 0 .. QueryRetries /\ reads \in 0 .. PollRetries
        /\ delay \in Nat /\ creates \in Nat /\ slept \in Nat /\ late \in Nat /\ lateSlept \in Nat
    OBVIOUS
  <2>3. queryKnown \in BOOLEAN /\ reportKnown \in BOOLEAN
    OBVIOUS
  <2>4. deleteTried \in BOOLEAN /\ closed \in BOOLEAN
    OBVIOUS
  <2>5. outcome = "none" /\ query = "none" /\ report = "none" /\ lastSaid = "none"
        /\ overlaps = {}
    OBVIOUS
  <2>6. RTypeOK
    BY <2>1, <2>2, <2>3, <2>4, <2>5 DEF RTypeOK, Reports
  <2>7. since \in 0 .. now /\ lag \in 0 .. MaxLag
    BY DEF now
  <2>8. worker \in {"none", "running"} /\ task \in {"none", "working"}
    OBVIOUS
  <2> QED BY <2>4, <2>6, <2>7, <2>8 DEF TypeOK
<1>2. LoopsOK /\ IdsOK /\ AskedOK /\ LeftOK /\ LateOK
  BY DEF LoopsOK, IdsOK, AskedOK, LeftOK, LateOK, Longest, Ended, Polling
<1>3. SleptOK
  <2>1. slept = 0 /\ attempt = 0 /\ Owed = AttemptCost
    BY DEF Owed, OwedAt, Before
  <2>2. AttemptCost \in Nat /\ Cooldown \in Nat
    BY CostType
  <2>3. \A a, c \in Nat : 0 + a <= 0 * (a + c) + a
    OBVIOUS
  <2> QED BY <2>1, <2>2, <2>3 DEF SleptOK
<1>4. TaskOK
  BY DEF TaskOK
<1> QED BY <1>1, <1>2, <1>3, <1>4 DEF IInv, RInv

\* Every step keeps it.
LEMMA Step == IInv /\ [Next]_vars => IInv'
<1> SUFFICES ASSUME IInv, [Next]_vars PROVE IInv'
  OBVIOUS
<1>0. TypeOK /\ RTypeOK /\ RInv /\ TaskOK
  BY DEF IInv, TypeOK
<1>a. slept \in Nat /\ lag \in Nat /\ since \in Nat /\ since <= slept + lag
  BY <1>0, TaskAssumption DEF TypeOK, RTypeOK, now
<1>1. CASE (RunStep \/ Expire \/ Generate) /\ UNCHANGED taskVars
  <2>1. RTypeOK' /\ RInv'
    BY <1>0, <1>1, RunKeeps
  <2>2. slept <= slept' /\ (pc = "done" => pc' = "done")
    BY <1>0, <1>1, RunMoves
  <2>3. /\ worker' = worker /\ task' = task /\ since' = since
        /\ closed' = closed /\ lag' = lag
    BY <1>1 DEF taskVars
  <2>4. since' \in 0 .. now'
    <3>1. slept' \in Nat
      BY <2>1 DEF RTypeOK
    <3>2. \A c, s, l, s2 \in Nat : c <= s + l /\ s <= s2 => c \in 0 .. (s2 + l)
      OBVIOUS
    <3>3. since \in 0 .. (slept' + lag)
      BY <1>a, <2>2, <3>1, <3>2
    <3> QED BY <2>3, <3>3 DEF now
  <2>5. TypeOK'
    BY <1>0, <2>1, <2>3, <2>4 DEF TypeOK
  <2>6. TaskOK'
    BY <1>0, <2>2, <2>3 DEF TaskOK
  <2> QED BY <2>1, <2>5, <2>6 DEF IInv
<1>2. ASSUME UNCHANGED reportVars,
             worker' \in {"none", "running", "storing", "failing", "done"},
             task' \in {"none", "working", "completed", "failed", "gone"},
             since' = since \/ since' = now, closed' \in BOOLEAN,
             lag' = lag \/ (lag' = lag + 1 /\ lag < MaxLag),
             TaskOK'
      PROVE  IInv'
  <2>1. RTypeOK' /\ RInv'
    BY <1>0, <1>2, RunStays
  <2>2. slept' = slept
    BY <1>2 DEF reportVars, history
  <2>3. since' \in 0 .. now' /\ lag' \in 0 .. MaxLag
    <3>1. lag' \in 0 .. MaxLag
      BY <1>0, <1>2, TaskAssumption DEF TypeOK
    <3>2. since' \in Nat /\ since' <= slept + lag'
      BY <1>a, <1>2 DEF now
    <3>3. lag' \in Nat
      BY <3>1, TaskAssumption
    <3>4. \A c, s, l \in Nat : c <= s + l => c \in 0 .. (s + l)
      OBVIOUS
    <3>5. since' \in 0 .. (slept + lag')
      BY <1>a, <3>2, <3>3, <3>4
    <3> QED BY <2>2, <3>1, <3>5 DEF now
  <2> QED BY <1>2, <2>1, <2>3 DEF IInv, TypeOK
<1>b. UNCHANGED reportVars => pc' = pc /\ slept' = slept
  BY DEF reportVars, progress, history
<1>3. CASE Executed
  <2>1. TaskOK'
    BY <1>0, <1>3, <1>b DEF Executed, TaskOK
  <2>5. /\ UNCHANGED reportVars /\ lag' = lag /\ (since' = since \/ since' = now)
    BY <1>3 DEF Executed
  <2>6. /\ worker' \in {"none", "running", "storing", "failing", "done"}
        /\ task' \in {"none", "working", "completed", "failed", "gone"} /\ closed' \in BOOLEAN
    BY <1>0, <1>3 DEF Executed, TypeOK
  <2> QED BY <1>2, <2>1, <2>5, <2>6
<1>4. CASE StoreCompleted
  <2>1. TaskOK'
    BY <1>0, <1>4, <1>b DEF StoreCompleted, Stored, TaskOK
  <2>5. /\ UNCHANGED reportVars /\ lag' = lag /\ (since' = since \/ since' = now)
    BY <1>4 DEF StoreCompleted, Stored
  <2>6. /\ worker' \in {"none", "running", "storing", "failing", "done"}
        /\ task' \in {"none", "working", "completed", "failed", "gone"} /\ closed' \in BOOLEAN
    BY <1>0, <1>4 DEF StoreCompleted, Stored, TypeOK
  <2> QED BY <1>2, <2>1, <2>5, <2>6
<1>5. CASE StoreFailed
  <2>1. TaskOK'
    BY <1>0, <1>5, <1>b DEF StoreFailed, Stored, TaskOK
  <2>5. /\ UNCHANGED reportVars /\ lag' = lag /\ (since' = since \/ since' = now)
    BY <1>5 DEF StoreFailed, Stored
  <2>6. /\ worker' \in {"none", "running", "storing", "failing", "done"}
        /\ task' \in {"none", "working", "completed", "failed", "gone"} /\ closed' \in BOOLEAN
    BY <1>0, <1>5 DEF StoreFailed, Stored, TypeOK
  <2> QED BY <1>2, <2>1, <2>5, <2>6
<1>6. CASE TaskExpires
  <2>1. WorstCase \in Nat /\ slept <= WorstCase /\ Headroom \in Nat
    BY <1>0, WithinWorstCase, TaskAssumption
  <2>2. task = "working" => lag >= Headroom
    <3> SUFFICES ASSUME task = "working" PROVE lag >= Headroom
      OBVIOUS
    <3>1. since = 0
      BY <1>0 DEF TaskOK
    <3>2. slept + lag >= WorstCase + Headroom
      BY <1>6, <2>1, <3>1 DEF TaskExpires, now, Ttl
    <3> QED BY <1>a, <2>1, <3>2
  <2>3. worker \in {"running", "storing", "failing"} /\ ~closed /\ lag < Headroom => FALSE
    BY <1>0, <1>a, <2>1, <2>2 DEF TaskOK
  <2>4. TaskOK'
    BY <1>0, <1>6, <1>b, <2>3 DEF TaskExpires, TaskOK
  <2>5. /\ UNCHANGED reportVars /\ lag' = lag /\ (since' = since \/ since' = now)
    BY <1>6 DEF TaskExpires
  <2>6. /\ worker' \in {"none", "running", "storing", "failing", "done"}
        /\ task' \in {"none", "working", "completed", "failed", "gone"} /\ closed' \in BOOLEAN
    BY <1>0, <1>6 DEF TaskExpires, TypeOK
  <2> QED BY <1>2, <2>4, <2>5, <2>6
<1>7. CASE CloseSession
  <2>1. TaskOK'
    BY <1>0, <1>7, <1>b DEF CloseSession, TaskOK
  <2>5. /\ UNCHANGED reportVars /\ lag' = lag /\ (since' = since \/ since' = now)
    BY <1>7 DEF CloseSession
  <2>6. /\ worker' \in {"none", "running", "storing", "failing", "done"}
        /\ task' \in {"none", "working", "completed", "failed", "gone"} /\ closed' \in BOOLEAN
    BY <1>0, <1>7 DEF CloseSession, TypeOK
  <2> QED BY <1>2, <2>1, <2>5, <2>6
<1>8. CASE Lag
  <2>0. lag' < Headroom => lag < Headroom
    BY <1>8, <1>a, TaskAssumption DEF Lag
  <2>1. TaskOK'
    BY <1>0, <1>8, <1>b, <2>0 DEF Lag, TaskOK
  <2> QED BY <1>0, <1>2, <1>8, <2>1 DEF Lag, TypeOK
<1>9. CASE UNCHANGED vars
  <2>1. UNCHANGED reportVars /\ UNCHANGED taskVars
    BY <1>9 DEF vars
  <2>2. TaskOK'
    BY <1>0, <1>b, <2>1 DEF taskVars, TaskOK
  <2>3. /\ worker' = worker /\ task' = task /\ since' = since
        /\ closed' = closed /\ lag' = lag
    BY <2>1 DEF taskVars
  <2> QED BY <1>0, <1>2, <2>1, <2>2, <2>3 DEF TypeOK
<1> QED BY <1>1, <1>3, <1>4, <1>5, <1>6, <1>7, <1>8, <1>9 DEF Next, WorkerStep, Settled
-----------------------------------------------------------------------------
(* The theorems.                                                           *)

\* The invariant of a run and its task.
THEOREM Invariance == Spec => []IInv
<1>1. TaskInit => IInv
  BY Start
<1>2. IInv /\ [Next]_vars => IInv'
  BY Step
<1> QED BY <1>1, <1>2, PTL DEF Spec

\* Every variable of a run and its task keeps its type.
THEOREM TypeCorrect == Spec => []TypeOK
<1>1. IInv => TypeOK
  BY DEF IInv
<1> QED BY <1>1, Invariance, PTL

\* A call creates at most one query, and runs it beside a report that has not failed only
\* when the platform had just answered STATE_UNSPECIFIED for that report, whatever answers
\* are lost and however many attempts it makes (runQueryAttempts, continueQuery).
THEOREM NeverAskedTwice == Spec => []NoDuplicateReport
<1>1. IInv => NoDuplicateReport
  BY DEF IInv, RInv, AskedOK, NoDuplicateReport
<1> QED BY <1>1, Invariance, PTL

\* A query the call knows of is left behind only after its deletion was tried, and only a
\* finished report is downloaded (the finally of runReportAndFetch).
THEOREM LeftoversAreTried == Spec => []NoSilentLeftover
<1>1. IInv => NoSilentLeftover
  BY DEF IInv, RInv, LeftOK, NoSilentLeftover
<1> QED BY <1>1, Invariance, PTL

\* After its cap a call begins one more request at most and sleeps one poll delay at most.
THEOREM OneStepAfterCap == Spec => []OvershootIsBounded
<1>1. IInv => OvershootIsBounded
  BY DEF IInv, RInv, LateOK, Longest, OvershootIsBounded
<1> QED BY <1>1, Invariance, PTL

\* The sleeps of a run stay within the bound its task's TTL is made of
\* (computeWorstCaseReportDurationMs against the loops that really sleep).
THEOREM TtlCoversTheSleeps == Spec => [](slept <= WorstCase)
<1>1. IInv => slept <= WorstCase
  BY WithinWorstCase DEF IInv
<1> QED BY <1>1, Invariance, PTL

\* A task is "working" exactly as long as its worker is at work, while its session is open
\* and the lag below the headroom (registerAsyncTaskTool, computeAsyncQueryTaskTtlMs).
THEOREM TaskLivesWithWorker == Spec => []TaskFollowsWorker
<1>1. IInv => TaskFollowsWorker
  BY DEF IInv, TaskOK, TaskFollowsWorker
<1> QED BY <1>1, Invariance, PTL

===========================================================================
