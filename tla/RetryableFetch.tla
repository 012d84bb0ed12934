--------------------------- MODULE RetryableFetch ---------------------------
(***************************************************************************)
(* One platform request under executeWithRetry and fetchWithTimeout of     *)
(* packages/shared utils/http: what is sent again, when, and what the      *)
(* caller may conclude from the outcome.                                   *)
(*                                                                         *)
(* The platform is the environment.  It processes a request or refuses it, *)
(* and its answer may be lost on the way back (a gateway's 5xx, a network  *)
(* error, the client's own timeout).  Answers are classes of responses;    *)
(* a throttled one may name the wait it asks for.                          *)
(***************************************************************************)
EXTENDS Naturals

CONSTANTS
    MaxRetries,  \* maxRetries
    Initial,     \* initialBackoffMs
    MaxBackoff,  \* maxBackoffMs
    Waits,       \* the waits a throttled answer may name; 0 names none
    Lateness     \* how late the event loop may fire a timer

ASSUME RetryAssumption ==
    /\ MaxRetries \in Nat /\ Initial \in Nat /\ MaxBackoff \in Nat
    /\ Waits \subseteq Nat /\ Lateness \in Nat
    /\ \A n \in 0 .. MaxRetries : 2^n \in Nat  \* the provers do not know `^`

\* 429, 5xx, a 4xx whose body is the platform's throttle code, any other 4xx;
\* a 2xx body that is a throttle, another platform error or not JSON at all; a
\* network error or timeout; a token that cannot be fetched.
Statuses == {"429", "5xx", "4xxThrottle", "4xx"}
Envelopes == {"envelopeThrottle", "envelopeError"}
Answers == Statuses \cup Envelopes \cup {"none", "ok", "badBody", "network", "noToken"}

Throttles == {"429", "4xxThrottle", "envelopeThrottle"}

\* What the error-class hooks of the platform clients call transient: the
\* shared default, Amazon's (which leaves 429 to its caller) and Meta's.
Predicates == {{"429", "5xx"}, {"5xx"}, {"429", "5xx", "4xxThrottle"}}

\* What a platform client asks executeWithRetry for: the method, the opt-in
\* retryNonIdempotent, the error-class hook, and whether errors may come inside
\* 2xx bodies (validateResponseBody).
Requests ==
    [method : {"GET", "POST"}, optIn : BOOLEAN, transient : Predicates, enveloped : BOOLEAN]

VARIABLES
    req,        \* the request
    pc,         \* where executeWithRetry is
    attempt,    \* attempt
    now,        \* Date.now()
    resumeAt,   \* the instant sleep() ends
    answer,     \* the latest answer
    wait,       \* the wait it named
    result,     \* what the caller gets
    processed,  \* history: how often the platform processed the request
    notBefore,  \* history: the end of the latest wait the client was told
    hasty       \* history: the request was sent again before that

vars == <<req, pc, attempt, now, resumeAt, answer, wait, result,
          processed, notBefore, hasty>>

TypeOK ==
    /\ req \in Requests
    /\ pc \in {"ready", "sent", "reading", "answered", "sleeping", "done"}
    /\ attempt \in 0 .. MaxRetries
    /\ now \in Nat /\ resumeAt \in Nat
    /\ answer \in Answers
    /\ wait \in Waits \cup {0}
    /\ result \in {"none", "value", "error"}
    /\ processed \in 0 .. MaxRetries + 1
    /\ notBefore \in Nat
    /\ hasty \in BOOLEAN
-----------------------------------------------------------------------------
Least(a, b) == IF a <= b THEN a ELSE b

\* calculateBackoff: exponential, or the header's wait, capped either way.
Backoff(header) ==
    IF header > 0 THEN Least(header, MaxBackoff)
    ELSE Least(Initial * 2^attempt, MaxBackoff)

\* Mutant: a hook that calls an error transient also calls it safe to re-send.
BugSafeToResend == TRUE

\* isMethodSafeToResend: a 429 was not processed; anything else is ambiguous.
SafeToResend == answer = "429" \/ req.method # "POST"

RetryableStatus == answer \in req.transient /\ (req.optIn \/ SafeToResend)

Init ==
    /\ req \in Requests
    /\ pc = "ready" /\ attempt = 0 /\ now = 0 /\ resumeAt = 0
    /\ answer = "none" /\ wait = 0 /\ result = "none"
    /\ processed = 0 /\ notBefore = 0 /\ hasty = FALSE

\* The headers are built (getHeaders) and the request is sent.
Send ==
    /\ pc = "ready"
    /\ pc' = "sent"
    /\ hasty' = (hasty \/ now < notBefore)
    /\ UNCHANGED <<req, attempt, now, resumeAt, answer, wait, result, processed, notBefore>>

\* getHeaders throws: nothing catches it here.
TokenFails ==
    /\ pc = "ready"
    /\ pc' = "done" /\ result' = "error" /\ answer' = "noToken"
    /\ UNCHANGED <<req, attempt, now, resumeAt, wait, processed, notBefore, hasty>>

\* Headers come back and end the timeout; a lost answer is a network error.
Answered(a, w) ==
    /\ pc' = IF a = "network" THEN "answered" ELSE "reading"
    /\ answer' = a /\ wait' = w
    /\ UNCHANGED <<req, attempt, now, resumeAt, result, notBefore, hasty>>

\* The platform processes the request; its answer may be lost.
Process ==
    /\ pc = "sent"
    /\ processed' = processed + 1
    /\ \E a \in {"ok", "5xx", "network"} : Answered(a, 0)

\* The platform refuses the request, or never gets it.
Refuse ==
    /\ pc = "sent"
    /\ \/ \E a \in Statuses \cup {"network"} : Answered(a, 0)
       \/ req.enveloped /\ \E a \in Envelopes : Answered(a, 0)
       \/ \E a \in Throttles \cup {"5xx"}, w \in Waits :
            (a = "envelopeThrottle" => req.enveloped) /\ Answered(a, w)
    /\ UNCHANGED processed

\* What is left of an answer whose body breaks off: json() throws, and an
\* error's text is empty, so that its throttle code is not seen.
BrokenOff(a) ==
    IF a = "4xxThrottle" THEN "4xx" ELSE IF a \in Statuses THEN a ELSE "badBody"

\* The body is read to its end, or breaks off and takes along the wait it may
\* have named.  From here on the client knows what the platform asked for.
ReadBody ==
    /\ pc = "reading"
    /\ pc' = "answered"
    /\ \/ UNCHANGED <<answer, wait>>
       \/ answer' = BrokenOff(answer) /\ wait' \in {wait, 0}
    /\ notBefore' = IF wait' > 0 THEN now + wait' ELSE notBefore
    /\ UNCHANGED <<req, attempt, now, resumeAt, result, processed, hasty>>

\* A 2xx without an envelope error: its value is returned.
ReturnValue ==
    /\ pc = "answered" /\ answer = "ok"
    /\ pc' = "done" /\ result' = "value"
    /\ UNCHANGED <<req, attempt, now, resumeAt, answer, wait, processed, notBefore, hasty>>

\* A network error, a timeout and a body that is not JSON escape from the loop.
Rethrow ==
    /\ pc = "answered" /\ answer \in {"network", "badBody"}
    /\ pc' = "done" /\ result' = "error"
    /\ UNCHANGED <<req, attempt, now, resumeAt, answer, wait, processed, notBefore, hasty>>

Sleep(delay) ==
    /\ pc' = "sleeping" /\ resumeAt' = now + delay
    /\ UNCHANGED <<req, attempt, now, answer, wait, result, processed, notBefore, hasty>>

GiveUp ==
    /\ pc' = "done" /\ result' = "error"
    /\ UNCHANGED <<req, attempt, now, resumeAt, answer, wait, processed, notBefore, hasty>>

\* Mutant: the platform's wait is cut to the longest backoff.
BugStatusRetry ==
    /\ pc = "answered" /\ answer \in Statuses
    /\ RetryableStatus /\ attempt < MaxRetries
    /\ Sleep(Backoff(wait))

\* A transient status is sent again after the wait the platform named, or
\* after the backoff when it named none (a named wait of 0 is slept as 0).
StatusRetry ==
    /\ pc = "answered" /\ answer \in Statuses
    /\ RetryableStatus /\ attempt < MaxRetries /\ wait <= MaxBackoff
    /\ \E delay \in IF wait > 0 THEN {wait} ELSE {Backoff(0), 0} : Sleep(delay)

\* Any other status throws: it is final, the budget is used up, or the
\* platform asks for more than this call may sleep.
StatusThrow ==
    /\ pc = "answered" /\ answer \in Statuses
    /\ ~RetryableStatus \/ attempt >= MaxRetries \/ wait > MaxBackoff
    /\ GiveUp

\* Mutant: a body that cannot be read is retried like one that is refused.
BugEnvelopeAny ==
    /\ pc = "answered" /\ answer \in {"envelopeThrottle", "badBody"}
    /\ attempt < MaxRetries
    /\ Sleep(Backoff(wait))

\* An envelope error the validator marked retryable, whatever the method: only
\* throttle codes are marked.
EnvelopeRetry ==
    /\ pc = "answered" /\ answer = "envelopeThrottle"
    /\ attempt < MaxRetries
    /\ \E delay \in IF wait > 0 THEN {Backoff(wait)} ELSE {Backoff(0), 0} : Sleep(delay)

EnvelopeThrow ==
    /\ pc = "answered" /\ answer \in Envelopes
    /\ answer = "envelopeThrottle" => attempt >= MaxRetries
    /\ GiveUp

\* Mutant: the last retry never leaves its sleep.
BugAwake ==
    /\ pc = "sleeping" /\ now >= resumeAt
    /\ \/ attempt + 1 < MaxRetries /\ attempt' = attempt + 1 /\ pc' = "ready"
       \/ attempt + 1 >= MaxRetries /\ UNCHANGED <<pc, attempt>>
    /\ UNCHANGED <<req, now, resumeAt, answer, wait, result, processed, notBefore, hasty>>

\* sleep() resolves: the next round of the loop, or its end.
Awake ==
    /\ pc = "sleeping" /\ now >= resumeAt
    /\ \/ /\ attempt < MaxRetries
          /\ attempt' = attempt + 1 /\ pc' = "ready" /\ UNCHANGED result
       \/ /\ attempt >= MaxRetries
          /\ pc' = "done" /\ result' = "error" /\ UNCHANGED attempt
    /\ UNCHANGED <<req, now, resumeAt, answer, wait, processed, notBefore, hasty>>

\* Time passes in sleep(); what passes while a request is out, or its body is
\* read, changes nothing here.
Tick ==
    /\ pc = "sleeping" /\ now < resumeAt + Lateness
    /\ now' = now + 1
    /\ UNCHANGED <<req, pc, attempt, resumeAt, answer, wait, result, processed, notBefore, hasty>>

Finished == pc = "done" /\ UNCHANGED vars

Handle ==
    \/ Send \/ TokenFails
    \/ ReturnValue \/ Rethrow
    \/ StatusRetry \/ StatusThrow \/ EnvelopeRetry \/ EnvelopeThrow
    \/ Awake

Next == Handle \/ Process \/ Refuse \/ ReadBody \/ Tick \/ Finished

Spec == Init /\ [][Next]_vars

\* The event loop runs, time passes, a request that is out is answered or
\* aborted by fetchWithTimeout, and a body ends or the HTTP library gives up on
\* it (the timer of fetchWithTimeout ends with the headers).
FairSpec ==
    /\ Spec
    /\ WF_vars(Handle) /\ WF_vars(Process \/ Refuse) /\ WF_vars(ReadBody) /\ WF_vars(Tick)
-----------------------------------------------------------------------------
Unsafe == req.method = "POST" /\ ~req.optIn

\* A create is processed at most once, whatever the platform's error-class
\* hook says (comments on IDEMPOTENT_RETRY_METHODS and isRetryable).
NoDuplicateWrite == Unsafe => processed <= 1

\* A caller of a create that is told of a refusal may rely on it: nothing was
\* processed in any attempt, so issuing it again is safe.
RefusalIsClean ==
    Unsafe /\ result = "error" /\ answer \notin {"5xx", "network", "badBody", "noToken"}
        => processed = 0

\* "A wait longer than this call's maxBackoffMs ends retrying instead of being
\* silently shortened": the platform is never asked again before the instant it
\* told the client.
WaitHonoured == ~hasty

\* The same of a platform that reports its errors as statuses.
StatusWaitHonoured == ~req.enveloped => WaitHonoured

\* Sleeping is always followed by another attempt: the loop never spends its
\* last wait for nothing and never falls out of its end.
SleepsToRetry == pc = "sleeping" => attempt < MaxRetries

\* The call ends, however the platform behaves.
CallEnds == <>(pc = "done")
=============================================================================
