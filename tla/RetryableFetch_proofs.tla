----------------------- MODULE RetryableFetch_proofs -----------------------
(***************************************************************************)
(* Safety of executeWithRetry for every retry budget, backoff and set of   *)
(* waits a platform may name, whatever its error-class hook says.          *)
(***************************************************************************)
EXTENDS RetryableFetch, TLAPS

\* The answers that do not tell whether the platform processed the request.
Ambiguous == {"ok", "5xx", "network", "badBody", "noToken"}

\* Every round sends the request once, and a sleep is followed by a round.
RoundsCounted ==
    /\ processed <= attempt + 1
    /\ pc \in {"ready", "sent"} => processed <= attempt
    /\ SleepsToRetry

\* A create is on its way again only if it was never processed, and only an
\* ambiguous answer comes after it was.
CleanUntilAmbiguous ==
    Unsafe =>
        /\ processed <= 1
        /\ pc \in {"ready", "sent", "sleeping"} => processed = 0
        /\ answer \notin Ambiguous => processed = 0

\* Outside 2xx bodies, what is slept is what the platform named.
WaitKept ==
    ~req.enveloped =>
        /\ ~hasty
        /\ answer \notin Envelopes
        /\ pc \in {"ready", "sent", "reading"} => notBefore <= now
        /\ pc = "answered" => IF wait > 0 THEN notBefore = now + wait ELSE notBefore <= now
        /\ pc = "sleeping" => notBefore <= resumeAt

\* The caller hears nothing before the end, and a success is not an error.
ResultTold ==
    /\ pc # "done" => result = "none"
    /\ result = "error" => answer # "ok"

IInv == TypeOK /\ ResultTold /\ RoundsCounted /\ CleanUntilAmbiguous /\ WaitKept
-----------------------------------------------------------------------------
LEMMA BackoffIsNat ==
    ASSUME TypeOK, NEW header \in Waits \cup {0}
    PROVE  Backoff(header) \in Nat
<1>1. Initial * 2^attempt \in Nat
  <2>1. attempt \in 0 .. MaxRetries
    BY DEF TypeOK
  <2>2. 2^attempt \in Nat
    BY <2>1, RetryAssumption
  <2> QED BY <2>2, RetryAssumption
<1> QED BY <1>1, RetryAssumption DEF Backoff, Least

LEMMA InitIInv == Init => IInv
<1> SUFFICES ASSUME Init PROVE IInv
  OBVIOUS
<1>1. TypeOK
  <2>1. hasty \in BOOLEAN
    BY DEF Init
  <2>2. "none" \in Answers
    BY DEF Answers
  <2> QED BY <2>1, <2>2, RetryAssumption DEF Init, TypeOK
<1>5. ResultTold
  BY DEF Init, ResultTold
<1>2. RoundsCounted
  BY DEF Init, RoundsCounted, SleepsToRetry
<1>3. CleanUntilAmbiguous
  BY DEF Init, CleanUntilAmbiguous
<1>4. WaitKept
  BY DEF Init, WaitKept, Envelopes
<1> QED BY <1>1, <1>2, <1>3, <1>4, <1>5 DEF IInv

\* A request that is out comes back, or does not.
LEMMA AnsweredKeeps ==
    ASSUME IInv, pc = "sent", NEW a \in Answers \ {"none", "badBody", "noToken"},
           NEW w \in Waits \cup {0}, Answered(a, w),
           a \in Envelopes => req.enveloped, a = "network" => w = 0,
           \/ processed' = processed
           \/ processed' = processed + 1 /\ a \in Ambiguous
    PROVE  IInv'
<1> USE RetryAssumption
<1>1. TypeOK'
  BY DEF IInv, TypeOK, Answered, RoundsCounted
<1>2. RoundsCounted'
  BY DEF IInv, TypeOK, Answered, RoundsCounted, SleepsToRetry
<1>3. CleanUntilAmbiguous'
  BY DEF IInv, TypeOK, Answered, CleanUntilAmbiguous, Unsafe
<1>4. WaitKept'
  BY DEF IInv, TypeOK, Answered, WaitKept
<1>5. ResultTold'
  BY DEF IInv, Answered, ResultTold
<1> QED BY <1>1, <1>2, <1>3, <1>4, <1>5 DEF IInv

\* Going to sleep after a refusal, for a status exactly as long as it named.
LEMMA SleepKeeps ==
    ASSUME IInv, pc = "answered", attempt < MaxRetries, NEW delay \in Nat, Sleep(delay),
           Unsafe => answer \notin Ambiguous,
           ~req.enveloped => IF wait > 0 THEN delay = wait ELSE TRUE
    PROVE  IInv'
<1> USE RetryAssumption
<1>1. TypeOK'
  BY DEF IInv, TypeOK, Sleep
<1>2. RoundsCounted'
  BY DEF IInv, TypeOK, Sleep, RoundsCounted, SleepsToRetry
<1>3. CleanUntilAmbiguous'
  BY DEF IInv, TypeOK, Sleep, CleanUntilAmbiguous, Unsafe
<1>4. WaitKept'
  BY DEF IInv, TypeOK, Sleep, WaitKept
<1>5. ResultTold'
  BY DEF IInv, Sleep, ResultTold
<1> QED BY <1>1, <1>2, <1>3, <1>4, <1>5 DEF IInv

\* The call ends with the answer it has, or before it could be sent.
LEMMA EndKeeps ==
    ASSUME IInv, pc' = "done", result' \in {"value", "error"},
           UNCHANGED <<req, attempt, now, resumeAt, wait, processed, notBefore, hasty>>,
           answer' \in {answer, "noToken"}, result' = "error" => answer' # "ok"
    PROVE  IInv'
<1>1. TypeOK'
  BY DEF IInv, TypeOK, Answers
<1>2. RoundsCounted'
  BY DEF IInv, TypeOK, RoundsCounted, SleepsToRetry
<1>3. CleanUntilAmbiguous'
  BY DEF IInv, TypeOK, CleanUntilAmbiguous, Unsafe, Ambiguous
<1>4. WaitKept'
  BY DEF IInv, WaitKept, Envelopes
<1>5. ResultTold'
  BY DEF IInv, ResultTold
<1> QED BY <1>1, <1>2, <1>3, <1>4, <1>5 DEF IInv

LEMMA StepIInv == IInv /\ [Next]_vars => IInv'
<1> SUFFICES ASSUME IInv, [Next]_vars PROVE IInv'
  OBVIOUS
<1> USE RetryAssumption
<1>0. CASE UNCHANGED vars
  BY <1>0 DEF vars, IInv, TypeOK, RoundsCounted, SleepsToRetry, CleanUntilAmbiguous,
              WaitKept, Unsafe, ResultTold
<1>1. CASE Send
  <2>0. hasty' \in BOOLEAN
    BY <1>1 DEF Send
  <2>1. TypeOK'
    BY <1>1, <2>0 DEF Send, IInv, TypeOK
  <2>5. ResultTold'
    BY <1>1 DEF Send, IInv, ResultTold
  <2>2. RoundsCounted'
    BY <1>1 DEF Send, IInv, TypeOK, RoundsCounted, SleepsToRetry
  <2>3. CleanUntilAmbiguous'
    BY <1>1 DEF Send, IInv, CleanUntilAmbiguous, Unsafe
  <2>4. WaitKept'
    BY <1>1 DEF Send, IInv, TypeOK, WaitKept
  <2> QED BY <2>1, <2>2, <2>3, <2>4, <2>5 DEF IInv
<1>2. CASE TokenFails
  BY <1>2, EndKeeps DEF TokenFails
<1>3. CASE Process
  <2>1. PICK a \in {"ok", "5xx", "network"} : Answered(a, 0)
    BY <1>3 DEF Process
  <2> QED BY <1>3, <2>1, AnsweredKeeps DEF Process, Answers, Statuses, Ambiguous, Envelopes
<1>4. CASE Refuse
  <2>1. CASE \E a \in Statuses \cup {"network"} : Answered(a, 0)
    <3>1. PICK a \in Statuses \cup {"network"} : Answered(a, 0)
      BY <2>1
    <3> QED BY <1>4, <3>1, AnsweredKeeps DEF Refuse, Answers, Statuses, Envelopes
  <2>2. CASE req.enveloped /\ \E a \in Envelopes : Answered(a, 0)
    <3>1. PICK a \in Envelopes : Answered(a, 0)
      BY <2>2
    <3> QED BY <1>4, <2>2, <3>1, AnsweredKeeps DEF Refuse, Answers, Statuses, Envelopes
  <2>3. CASE \E a \in Throttles \cup {"5xx"}, w \in Waits :
                (a = "envelopeThrottle" => req.enveloped) /\ Answered(a, w)
    <3>1. PICK a \in Throttles \cup {"5xx"}, w \in Waits :
                (a = "envelopeThrottle" => req.enveloped) /\ Answered(a, w)
      BY <2>3
    <3> QED BY <1>4, <3>1, AnsweredKeeps DEF Refuse, Answers, Statuses, Envelopes, Throttles
  <2> QED BY <1>4, <2>1, <2>2, <2>3 DEF Refuse
<1>5. CASE ReadBody
  <2>1. TypeOK'
    BY <1>5 DEF ReadBody, IInv, TypeOK, BrokenOff, Answers, Statuses, Envelopes
  <2>2. RoundsCounted'
    BY <1>5 DEF ReadBody, IInv, TypeOK, RoundsCounted, SleepsToRetry
  <2>3. CleanUntilAmbiguous'
    BY <1>5 DEF ReadBody, IInv, TypeOK, CleanUntilAmbiguous, Unsafe, Ambiguous, BrokenOff, Statuses
  <2>4. WaitKept'
    BY <1>5 DEF ReadBody, IInv, TypeOK, WaitKept, BrokenOff, Statuses, Envelopes
  <2>5. ResultTold'
    BY <1>5 DEF ReadBody, IInv, ResultTold
  <2> QED BY <2>1, <2>2, <2>3, <2>4, <2>5 DEF IInv
<1>6. CASE ReturnValue
  BY <1>6, EndKeeps DEF ReturnValue
<1>7. CASE Rethrow
  BY <1>7, EndKeeps DEF Rethrow
<1>8. CASE StatusRetry
  <2>1. PICK delay \in IF wait > 0 THEN {wait} ELSE {Backoff(0), 0} : Sleep(delay)
    BY <1>8 DEF StatusRetry
  <2>2. delay \in Nat
    BY <2>1, BackoffIsNat DEF IInv, TypeOK
  <2>3. Unsafe => answer \notin Ambiguous
    BY <1>8 DEF StatusRetry, RetryableStatus, SafeToResend, Unsafe, Ambiguous
  <2> QED BY <1>8, <2>1, <2>2, <2>3, SleepKeeps DEF StatusRetry
<1>9. CASE StatusThrow
  BY <1>9, EndKeeps DEF StatusThrow, GiveUp, Statuses, Envelopes
<1>10. CASE EnvelopeRetry
  <2>1. PICK delay \in IF wait > 0 THEN {Backoff(wait)} ELSE {Backoff(0), 0} : Sleep(delay)
    BY <1>10 DEF EnvelopeRetry
  <2>2. delay \in Nat
    BY <2>1, BackoffIsNat DEF IInv, TypeOK
  <2>3. answer \notin Ambiguous /\ req.enveloped
    BY <1>10 DEF EnvelopeRetry, IInv, TypeOK, WaitKept, Requests, Envelopes, Ambiguous
  <2> QED BY <1>10, <2>1, <2>2, <2>3, SleepKeeps DEF EnvelopeRetry
<1>11. CASE EnvelopeThrow
  BY <1>11, EndKeeps DEF EnvelopeThrow, GiveUp, Statuses, Envelopes
<1>12. CASE Awake
  <2>1. TypeOK' /\ RoundsCounted'
    BY <1>12 DEF Awake, IInv, TypeOK, RoundsCounted, SleepsToRetry
  <2>2. CleanUntilAmbiguous'
    BY <1>12 DEF Awake, IInv, CleanUntilAmbiguous, Unsafe
  <2>3. WaitKept'
    BY <1>12 DEF Awake, IInv, TypeOK, WaitKept
  <2>4. ResultTold'
    BY <1>12 DEF Awake, IInv, ResultTold, RoundsCounted, SleepsToRetry, TypeOK
  <2> QED BY <2>1, <2>2, <2>3, <2>4 DEF IInv
<1>13. CASE Tick
  <2>1. TypeOK' /\ RoundsCounted'
    BY <1>13 DEF Tick, IInv, TypeOK, RoundsCounted, SleepsToRetry
  <2>2. CleanUntilAmbiguous'
    BY <1>13 DEF Tick, IInv, CleanUntilAmbiguous, Unsafe
  <2>3. WaitKept'
    BY <1>13 DEF Tick, IInv, TypeOK, WaitKept
  <2>4. ResultTold'
    BY <1>13 DEF Tick, IInv, ResultTold
  <2> QED BY <2>1, <2>2, <2>3, <2>4 DEF IInv
<1> QED
  BY <1>0, <1>1, <1>2, <1>3, <1>4, <1>5, <1>6, <1>7, <1>8, <1>9, <1>10, <1>11, <1>12, <1>13
     DEF Next, Handle, Finished

THEOREM Invariance == Spec => []IInv
<1> QED BY InitIInv, StepIInv, PTL DEF Spec

\* Every reachable state of a call is well typed: the retry budget bounds the
\* rounds and what the platform may have processed.
THEOREM TypeCorrect == Spec => []TypeOK
<1>1. IInv => TypeOK
  BY DEF IInv
<1> QED BY <1>1, Invariance, PTL

\* A create is processed at most once, whatever the platform, its error-class
\* hook and the retry budget (isMethodSafeToResend).
THEOREM CreateOnce == Spec => []NoDuplicateWrite
<1>1. IInv => NoDuplicateWrite
  BY DEF IInv, CleanUntilAmbiguous, NoDuplicateWrite
<1> QED BY <1>1, Invariance, PTL

\* A create that is reported refused was not processed in any attempt.
THEOREM RefusalClean == Spec => []RefusalIsClean
<1>1. IInv => RefusalIsClean
  BY DEF IInv, CleanUntilAmbiguous, ResultTold, RefusalIsClean, Ambiguous
<1> QED BY <1>1, Invariance, PTL

\* Every wait a platform names with a status is slept in full.
THEOREM StatusWait == Spec => []StatusWaitHonoured
<1>1. IInv => StatusWaitHonoured
  BY DEF IInv, WaitKept, StatusWaitHonoured, WaitHonoured
<1> QED BY <1>1, Invariance, PTL

\* The loop sleeps only while it has an attempt left.
THEOREM NoIdleSleep == Spec => []SleepsToRetry
<1>1. IInv => SleepsToRetry
  BY DEF IInv, RoundsCounted
<1> QED BY <1>1, Invariance, PTL
=============================================================================
