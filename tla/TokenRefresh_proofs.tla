-------------------------- MODULE TokenRefresh_proofs --------------------------
(***************************************************************************)
(* Theorems about TokenRefresh for any adapters and calls, every lifetime, *)
(* buffer and timeout that TokenAssumption allows, and every provider.     *)
(***************************************************************************)
EXTENDS TokenRefresh, TLAPS

\* A call that runs a refresh awaits its own promise, which its adapter shares;
\* one that joined awaits another call's, and that call has not been reused.
PromisesOK ==
    \A c \in Calls :
        /\ pc[c] \in {"sent", "reading", "settled"} =>
               promise[c] = c /\ pending[adapter[c]] = c
        /\ pc[c] = "joined" =>
               /\ promise[c] \in Calls
               /\ pc[promise[c]] \in {"sent", "reading", "settled", "done"}
               /\ promise[c] # c

\* A call that has sent nothing holds no grant; what a refresh received is passed on at the
\* instant it arrived, so that its token has lost no more of its life than it was late.
AnswersOK ==
    \A c \in Calls :
        /\ pc[c] \in {"idle", "joined"} => issued[c] = None
        /\ pc[c] # "done" => ~got[c]
        /\ /\ \/ pc[c] = "settled"
              \/ pc[c] = "done" /\ \E d \in Calls : pc[d] = "joined" /\ promise[d] = c
           /\ issued[c] # None
           => now + Lifetime <= issued[c].token + late[c]

\* What is cached outlives its entry by the buffer, up to how late it was received.
CacheOK ==
    \A a \in Adapters : cached[a] # None =>
        expiresAt[a] + Buffer <= cached[a] + cachedLate[a]

\* The refresh token of an answer on its way is accepted, and so is the adapter's unless
\* the provider rotates.
GrantOK ==
    /\ \A c \in Calls : InFlight(c) /\ issued[c] # None /\ ~missed[adapter[c]] =>
           issued[c].refresh \in accepted
    /\ policy # "rotate" =>
           /\ 0 \in accepted
           /\ \A a \in Adapters : current[a] \in accepted
           /\ \A c \in Calls : InFlight(c) /\ issued[c] # None => issued[c].refresh \in accepted

\* What makes the properties inductive, and the properties themselves.
IInv ==
    /\ TypeOK
    /\ PromisesOK
    /\ NoStalePromise
    /\ AnswersOK
    /\ CacheOK
    /\ HandedTokenLives
    /\ GrantOK
    /\ GrantIsKept

-----------------------------------------------------------------------------

\* A call that is served from the cache: what it returns outlives the entry by the buffer.
LEMMA Cached ==
  ASSUME IInv, NEW c \in Calls, NEW a \in Adapters, CallCached(c, a)
  PROVE  IInv'
<1>1. TypeOK'
  BY DEF IInv, TypeOK, CallCached, Return, Instants, provider, cache
<1>2. PromisesOK'
  BY DEF IInv, PromisesOK, CallCached, Return, cache
<1>3. NoStalePromise'
  BY DEF IInv, NoStalePromise, CallCached, Return, cache
<1>4. AnswersOK'
  BY DEF IInv, AnswersOK, TypeOK, CallCached, Return, cache
<1>5. CacheOK'
  BY DEF IInv, CacheOK, CallCached, cache
<1>6. HandedTokenLives'
  <2>1. cached[a] \in Int /\ expiresAt[a] \in Int /\ now \in Int /\ now < expiresAt[a]
        /\ expiresAt[a] + Buffer <= cached[a] + cachedLate[a] /\ cached[a] # None
        /\ cachedLate[a] \in Int
    BY TokenAssumption DEF IInv, TypeOK, CacheOK, CallCached, Fresh, Instants
  <2>2. life'[c] = cached[a] - now /\ late'[c] = cachedLate[a]
    BY <2>1 DEF IInv, TypeOK, CallCached, Return
  <2>3. \A d \in Calls \ {c} : got'[d] = got[d] /\ life'[d] = life[d] /\ late'[d] = late[d]
    BY DEF IInv, TypeOK, CallCached, Return
  <2>4. Buffer <= life'[c] + late'[c]
    BY <2>1, <2>2, TokenAssumption
  <2>5. ASSUME NEW d \in Calls, got'[d]
        PROVE  (IF Buffer < Lifetime THEN Buffer ELSE Lifetime) <= life'[d] + late'[d]
    <3>1. CASE d = c
      BY <2>1, <2>2, <2>4, <3>1, TokenAssumption
    <3>2. CASE d # c
      BY <2>3, <2>5, <3>2 DEF IInv, HandedTokenLives
    <3> QED BY <3>1, <3>2
  <2> QED BY <2>5 DEF HandedTokenLives
<1>7. GrantOK'
  BY DEF IInv, GrantOK, InFlight, CallCached, Return, provider, cache
<1>8. GrantIsKept'
  BY DEF IInv, GrantIsKept, InFlight, CallCached, Return, provider, cache
<1> QED
  BY <1>1, <1>2, <1>3, <1>4, <1>5, <1>6, <1>7, <1>8 DEF IInv

\* A call that joins the refresh under way.
LEMMA Joins ==
  ASSUME IInv, NEW c \in Calls, NEW a \in Adapters, CallJoins(c, a)
  PROVE  IInv'
<1>1. TypeOK'
  BY DEF IInv, TypeOK, CallJoins, provider, cache
<1>2. PromisesOK'
  BY DEF IInv, PromisesOK, NoStalePromise, TypeOK, CallJoins, cache
<1>3. NoStalePromise'
  BY DEF IInv, NoStalePromise, CallJoins, cache
<1>4. AnswersOK'
  BY DEF IInv, AnswersOK, NoStalePromise, InFlight, TypeOK, CallJoins, Answers
<1>5. CacheOK'
  BY DEF IInv, CacheOK, CallJoins, cache
<1>6. HandedTokenLives'
  BY DEF IInv, HandedTokenLives, CallJoins
<1>7. GrantOK'
  BY DEF IInv, GrantOK, InFlight, CallJoins, provider, cache
<1>8. GrantIsKept'
  BY DEF IInv, GrantIsKept, InFlight, CallJoins, provider, cache
<1> QED
  BY <1>1, <1>2, <1>3, <1>4, <1>5, <1>6, <1>7, <1>8 DEF IInv

\* A call that starts a refresh: nobody else's is under way.
LEMMA Refreshes ==
  ASSUME IInv, NEW c \in Calls, NEW a \in Adapters, CallRefreshes(c, a)
  PROVE  IInv'
<1>1. TypeOK'
  <2>1. now + Timeout \in 0 .. MaxTime + Timeout
    BY TokenAssumption DEF IInv, TypeOK
  <2> QED BY <2>1 DEF IInv, TypeOK, CallRefreshes, MayRefresh, provider
<1>2. PromisesOK'
  BY TokenAssumption DEF IInv, PromisesOK, TypeOK, CallRefreshes, MayRefresh
<1>3. NoStalePromise'
  BY DEF IInv, NoStalePromise, TypeOK, CallRefreshes, MayRefresh
<1>4. AnswersOK'
  BY TokenAssumption DEF IInv, AnswersOK, InFlight, TypeOK, CallRefreshes, MayRefresh, Answers
<1>5. CacheOK'
  BY DEF IInv, CacheOK, CallRefreshes, MayRefresh
<1>6. HandedTokenLives'
  BY DEF IInv, HandedTokenLives, CallRefreshes, MayRefresh
<1>7. GrantOK'
  BY DEF IInv, GrantOK, AnswersOK, InFlight, TypeOK, CallRefreshes, MayRefresh, provider
<1>8. GrantIsKept'
  BY DEF IInv, GrantIsKept, InFlight, CallRefreshes, MayRefresh, provider
<1> QED
  BY <1>1, <1>2, <1>3, <1>4, <1>5, <1>6, <1>7, <1>8 DEF IInv

\* The provider's answer: with a rotation, every other adapter misses it.
LEMMA Granted ==
  ASSUME IInv, NEW c \in Calls, Grant(c)
  PROVE  IInv'
<1>1. TypeOK'
  <2>1. now \in Int /\ 0 <= now /\ now <= MaxTime /\ presented[c] \in Tokens
    BY TokenAssumption DEF IInv, TypeOK
  <2>2. newest' \in Tokens /\ accepted' \subseteq Tokens /\ missed' \in [Adapters -> BOOLEAN]
    <3>1. newest \in Tokens /\ accepted \subseteq Tokens /\ missed \in [Adapters -> BOOLEAN]
      BY DEF IInv, TypeOK
    <3>2. newest < MaxRotations => newest + 1 \in Tokens
      BY <3>1, TokenAssumption DEF Tokens
    <3>3. newest' \in Tokens
      BY <3>1, <3>2 DEF Grant
    <3>4. accepted' \subseteq Tokens
      BY <3>1, <3>3 DEF Grant
    <3>5. missed' \in [Adapters -> BOOLEAN]
      BY <3>1 DEF Grant
    <3> QED BY <3>3, <3>4, <3>5
  <2>3. now + Lifetime \in Instants
    BY <2>1, TokenAssumption DEF Instants
  <2>4. issued' \in [Calls -> Answers \cup {None}]
    BY <2>1, <2>2, <2>3 DEF IInv, TypeOK, Grant, Answers
  <2> QED BY <2>2, <2>4 DEF IInv, TypeOK, Grant, provider
<1>2. PromisesOK'
  BY DEF IInv, PromisesOK, Grant
<1>3. NoStalePromise'
  BY DEF IInv, NoStalePromise, Grant
<1>4. AnswersOK'
  BY DEF IInv, AnswersOK, TypeOK, Grant
<1>5. CacheOK'
  BY DEF IInv, CacheOK, Grant
<1>6. HandedTokenLives'
  BY DEF IInv, HandedTokenLives, Grant
<1>7. GrantOK'
  <2>1. issued'[c].refresh \in accepted' /\ pc' = pc
        /\ \A d \in Calls \ {c} : issued'[d] = issued[d]
    BY DEF IInv, TypeOK, Grant
  <2>2. \A d \in Calls \ {c} : InFlight(d) => adapter[d] # adapter[c]
    BY DEF IInv, PromisesOK, InFlight, Grant
  <2>3. policy # "rotate" => accepted \subseteq accepted' /\ missed' = missed
    BY DEF IInv, TypeOK, Grant
  <2>4. policy = "rotate" => \A b \in Adapters \ {adapter[c]} : missed'[b]
    BY DEF IInv, TypeOK, Grant
  <2>5. current' = current /\ adapter' = adapter /\ policy' = policy
    BY DEF Grant
  <2>6. \A d \in Calls : adapter[d] \in Adapters
    BY DEF IInv, TypeOK
  <2> QED BY <2>1, <2>2, <2>3, <2>4, <2>5, <2>6 DEF IInv, GrantOK, InFlight
<1>8. GrantIsKept'
  <2>1. issued'[c].refresh \in accepted' /\ pc'[c] = "sent" /\ adapter' = adapter
        /\ issued'[c] # None
    <3>1. \A t, k \in Int : [token |-> t, refresh |-> k] # None
      BY TokenAssumption
    <3>2. now + Lifetime \in Int /\ presented[c] \in Int /\ newest' \in Int
      BY <1>1, TokenAssumption DEF IInv, TypeOK, Tokens
    <3>3. issued'[c] = [token |-> now + Lifetime,
                        refresh |-> IF policy = "keep" THEN presented[c] ELSE newest']
      BY DEF IInv, TypeOK, Grant
    <3>4. issued'[c] # None
      BY <3>1, <3>2, <3>3
    <3> QED BY <3>4 DEF IInv, TypeOK, Grant
  <2>2. CASE policy = "rotate"
    <3>1. \A b \in Adapters \ {adapter[c]} : missed'[b]
      BY <2>2 DEF IInv, TypeOK, Grant
    <3> QED BY <2>1, <3>1 DEF GrantIsKept, InFlight
  <2>3. CASE policy # "rotate"
    <3>1. \A b \in Adapters : current'[b] \in accepted'
      BY <2>3 DEF IInv, TypeOK, GrantOK, Grant
    <3> QED BY <3>1 DEF GrantIsKept
  <2> QED BY <2>2, <2>3
<1> QED
  BY <1>1, <1>2, <1>3, <1>4, <1>5, <1>6, <1>7, <1>8 DEF IInv

\* Headers end the timeout, and nothing else changes.
LEMMA HeadersCame ==
  ASSUME IInv, NEW c \in Calls, Headers(c)
  PROVE  IInv'
<1>1. TypeOK'
  BY DEF IInv, TypeOK, Headers, provider, cache
<1>2. PromisesOK'
  BY DEF IInv, PromisesOK, Headers, cache
<1>3. NoStalePromise'
  BY DEF IInv, NoStalePromise, Headers, cache
<1>4. AnswersOK'
  BY DEF IInv, AnswersOK, Headers
<1>5. CacheOK'
  BY DEF IInv, CacheOK, Headers, cache
<1>6. HandedTokenLives'
  BY DEF IInv, HandedTokenLives, Headers
<1>7. GrantOK'
  BY DEF IInv, GrantOK, InFlight, Headers, provider, cache
<1>8. GrantIsKept'
  BY DEF IInv, GrantIsKept, InFlight, TypeOK, Headers, provider, cache
<1> QED
  BY <1>1, <1>2, <1>3, <1>4, <1>5, <1>6, <1>7, <1>8 DEF IInv

\* The body arrives: how late it is is how much sooner its token dies than the cache assumes.
LEMMA Received ==
  ASSUME IInv, NEW c \in Calls, Receive(c)
  PROVE  IInv'
<1>1. TypeOK'
  <2>1. now \in Int /\ 0 <= now /\ now <= MaxTime /\ adapter[c] \in Adapters
    BY TokenAssumption DEF IInv, TypeOK
  <2>2. issued[c] \in Answers
    BY DEF IInv, TypeOK, Receive
  <2>3. issued[c].token \in Instants /\ issued[c].refresh \in Tokens
    BY <2>2 DEF Answers
  <2>4. now + Lifetime - Buffer \in -Buffer .. MaxTime + Lifetime
    BY <2>1, TokenAssumption
  <2>5. /\ cached' \in [Adapters -> Instants \cup {None}]
        /\ expiresAt' \in [Adapters -> -Buffer .. MaxTime + Lifetime]
        /\ current' \in [Adapters -> Tokens]
    BY <2>3, <2>4 DEF IInv, TypeOK, Receive, Expiry, Rotated
  <2>6. After(issued[c].token) \in Int
    BY <2>1, <2>3, TokenAssumption DEF After, Instants
  <2>7. late' \in [Calls -> Int] /\ cachedLate' \in [Adapters -> Int]
    BY <2>6 DEF IInv, TypeOK, Receive
  <2> QED BY <2>5, <2>7 DEF IInv, TypeOK, Receive, provider
<1>2. PromisesOK'
  BY DEF IInv, PromisesOK, Receive
<1>3. NoStalePromise'
  BY DEF IInv, NoStalePromise, Receive
<1>a. /\ now \in Int /\ issued[c].token \in Int /\ late'[c] = now - (issued[c].token - Lifetime)
      /\ cachedLate' = [cachedLate EXCEPT ![adapter[c]] = late'[c]]
      /\ \A d \in Calls \ {c} : late'[d] = late[d]
  BY TokenAssumption DEF IInv, TypeOK, Receive, After, Answers, Instants
<1>4. AnswersOK'
  <2>1. now + Lifetime <= issued[c].token + late'[c]
    BY <1>a, TokenAssumption
  <2>2. /\ issued' = issued /\ now' = now /\ promise' = promise /\ got' = got
        /\ pc'[c] = "settled" /\ pc[c] = "reading"
        /\ \A d \in Calls \ {c} : pc'[d] = pc[d]
    BY DEF IInv, TypeOK, Receive
  <2> QED BY <1>a, <2>1, <2>2 DEF IInv, AnswersOK
<1>5. CacheOK'
  <2>1. now + Lifetime - Buffer + Buffer <= issued[c].token + late'[c]
    BY <1>a, TokenAssumption
  <2> QED BY <1>a, <2>1 DEF IInv, CacheOK, TypeOK, Receive, Expiry
<1>6. HandedTokenLives'
  <2>1. ~got[c]
    BY DEF IInv, AnswersOK, Receive
  <2> QED BY <1>a, <2>1 DEF IInv, HandedTokenLives, Receive
<1>7. GrantOK'
  BY DEF IInv, GrantOK, InFlight, TypeOK, Receive, Rotated, provider
<1>8. GrantIsKept'
  BY DEF IInv, GrantIsKept, GrantOK, InFlight, TypeOK, Receive, Rotated, provider
<1> QED
  BY <1>1, <1>2, <1>3, <1>4, <1>5, <1>6, <1>7, <1>8 DEF IInv

\* A failure: with a rotation that was granted, the adapter misses it.
LEMMA Failed ==
  ASSUME IInv, NEW c \in Calls, Fail(c)
  PROVE  IInv'
<1>1. TypeOK'
  BY DEF IInv, TypeOK, Fail, provider
<1>2. PromisesOK'
  BY DEF IInv, PromisesOK, Fail
<1>3. NoStalePromise'
  BY DEF IInv, NoStalePromise, Fail
<1>4. AnswersOK'
  BY DEF IInv, AnswersOK, InFlight, TypeOK, Fail, Answers
<1>5. CacheOK'
  BY DEF IInv, CacheOK, Fail
<1>6. HandedTokenLives'
  BY DEF IInv, HandedTokenLives, Fail
<1>7. GrantOK'
  BY DEF IInv, GrantOK, InFlight, TypeOK, Fail, provider
<1>8. GrantIsKept'
  <2>1. /\ adapter' = adapter /\ current' = current /\ accepted' = accepted
        /\ \A d \in Calls \ {c} : pc'[d] = pc[d] /\ issued'[d] = issued[d]
        /\ \A b \in Adapters : missed[b] => missed'[b]
        /\ \A b \in Adapters : b # adapter[c] => missed'[b] = missed[b]
    BY DEF IInv, TypeOK, Fail, provider
  <2>2. CASE issued[c] # None /\ policy = "rotate"
    <3>1. missed'[adapter[c]]
      BY <2>2 DEF IInv, TypeOK, Fail
    <3> QED BY <2>1, <3>1 DEF IInv, GrantIsKept, InFlight
  <2>3. CASE issued[c] = None
    BY <2>1, <2>3 DEF IInv, GrantIsKept, InFlight
  <2>4. CASE policy # "rotate"
    BY <2>1, <2>4 DEF IInv, GrantIsKept, GrantOK
  <2> QED BY <2>2, <2>3, <2>4
<1> QED
  BY <1>1, <1>2, <1>3, <1>4, <1>5, <1>6, <1>7, <1>8 DEF IInv

\* A continuation, at the instant the answer arrived.
LEMMA Resumed ==
  ASSUME IInv, NEW c \in Calls, Resume(c)
  PROVE  IInv'
<1>1. TypeOK'
  <2>1. now \in Int /\ promise[c] \in Calls
    BY TokenAssumption DEF IInv, TypeOK, PromisesOK, Resume
  <2>2. Outcome(promise[c]) # None => Outcome(promise[c]) \in Int
    BY <2>1, TokenAssumption DEF IInv, TypeOK, Outcome, Answers, Instants
  <2>3. life' \in [Calls -> Int] /\ got' \in [Calls -> BOOLEAN]
    BY <2>1, <2>2 DEF IInv, TypeOK, Resume, Return
  <2>4. pending' \in [Adapters -> Calls \cup {None}]
    BY DEF IInv, TypeOK, Resume, Settle
  <2>5. /\ pc' \in [Calls -> {"idle", "sent", "reading", "settled", "joined", "done"}]
        /\ late' \in [Calls -> Int]
    BY <2>1 DEF IInv, TypeOK, Resume, Return
  <2> QED BY <2>3, <2>4, <2>5 DEF IInv, TypeOK, Resume, provider
<1>2. PromisesOK'
  BY DEF IInv, PromisesOK, TypeOK, Resume, Return, Settle
<1>3. NoStalePromise'
  BY DEF IInv, NoStalePromise, PromisesOK, TypeOK, Resume, Return, Settle
<1>4. AnswersOK'
  <2>1. /\ issued' = issued /\ now' = now /\ promise' = promise /\ pc'[c] = "done"
        /\ \A d \in Calls \ {c} : pc'[d] = pc[d] /\ got'[d] = got[d] /\ late'[d] = late[d]
        /\ (pc[c] = "settled" /\ promise[c] = c /\ late'[c] = late[c])
           \/ (pc[c] = "joined" /\ issued[c] = None)
    BY DEF IInv, TypeOK, PromisesOK, AnswersOK, Resume, Return
  <2> QED BY <2>1 DEF IInv, AnswersOK, PromisesOK
<1>5. CacheOK'
  BY DEF IInv, CacheOK, Resume
<1>6. HandedTokenLives'
  <2> DEFINE p == promise[c]
  <2>1. now \in Int /\ p \in Calls
        /\ (pc[p] = "settled" \/ (pc[c] = "joined" /\ pc[p] = "done"))
    BY TokenAssumption DEF IInv, TypeOK, PromisesOK, Resume, Settled
  <2>2. \A d \in Calls \ {c} : got'[d] = got[d] /\ life'[d] = life[d] /\ late'[d] = late[d]
    BY DEF IInv, TypeOK, Resume, Return
  <2>3. got'[c] => issued[p] # None /\ life'[c] = issued[p].token - now /\ late'[c] = late[p]
    BY DEF IInv, TypeOK, Resume, Return, Outcome
  <2>4. issued[p] # None => issued[p].token \in Int /\ now + Lifetime <= issued[p].token + late[p]
    <3>1. issued[p] # None => issued[p].token \in Int
      BY <2>1, TokenAssumption DEF IInv, TypeOK, Answers, Instants
    <3> QED BY <2>1, <3>1 DEF IInv, AnswersOK
  <2>a. late[p] \in Int
    BY <2>1 DEF IInv, TypeOK
  <2>5. got'[c] => Lifetime <= life'[c] + late'[c] /\ life'[c] \in Int /\ late'[c] \in Int
    BY <2>1, <2>3, <2>4, <2>a, TokenAssumption
  <2>6. ASSUME NEW d \in Calls, got'[d]
        PROVE  (IF Buffer < Lifetime THEN Buffer ELSE Lifetime) <= life'[d] + late'[d]
    <3>1. CASE d = c
      BY <2>5, <2>6, <3>1, TokenAssumption
    <3>2. CASE d # c
      BY <2>2, <2>6, <3>2 DEF IInv, HandedTokenLives
    <3> QED BY <3>1, <3>2
  <2> QED BY <2>6 DEF HandedTokenLives
<1>7. GrantOK'
  BY DEF IInv, GrantOK, InFlight, Resume, Return, provider
<1>8. GrantIsKept'
  BY DEF IInv, GrantIsKept, InFlight, Resume, Return, provider
<1> QED
  BY <1>1, <1>2, <1>3, <1>4, <1>5, <1>6, <1>7, <1>8 DEF IInv

\* A call that is over and that nobody awaits.
LEMMA Left ==
  ASSUME IInv, NEW c \in Calls, Leave(c)
  PROVE  IInv'
<1>1. TypeOK'
  BY TokenAssumption DEF IInv, TypeOK, Leave, AnyAdapter, Tokens, provider, cache
<1>2. PromisesOK'
  BY DEF IInv, PromisesOK, Leave, cache
<1>3. NoStalePromise'
  BY DEF IInv, NoStalePromise, Leave, cache
<1>4. AnswersOK'
  BY DEF IInv, AnswersOK, TypeOK, Leave, cache
<1>5. CacheOK'
  BY DEF IInv, CacheOK, Leave, cache
<1>6. HandedTokenLives'
  BY DEF IInv, HandedTokenLives, TypeOK, Leave
<1>7. GrantOK'
  BY DEF IInv, GrantOK, InFlight, Leave, provider, cache
<1>8. GrantIsKept'
  BY DEF IInv, GrantIsKept, InFlight, Leave, provider, cache
<1> QED
  BY <1>1, <1>2, <1>3, <1>4, <1>5, <1>6, <1>7, <1>8 DEF IInv

\* A session that starts again from the credentials.
LEMMA Recreated ==
  ASSUME IInv, NEW a \in Adapters, Recreate(a)
  PROVE  IInv'
<1>1. TypeOK'
  BY TokenAssumption DEF IInv, TypeOK, Recreate, Tokens, provider, calls
<1>2. PromisesOK'
  BY DEF IInv, PromisesOK, Recreate, calls
<1>3. NoStalePromise'
  BY DEF IInv, NoStalePromise, Recreate, calls
<1>4. AnswersOK'
  BY DEF IInv, AnswersOK, InFlight, Recreate, Answers, calls
<1>5. CacheOK'
  BY DEF IInv, CacheOK, TypeOK, Recreate
<1>6. HandedTokenLives'
  BY DEF IInv, HandedTokenLives, Recreate, calls
<1>7. GrantOK'
  BY DEF IInv, GrantOK, InFlight, Recreate, provider, calls
<1>8. GrantIsKept'
  BY ZenonT(30) DEF IInv, GrantIsKept, InFlight, TypeOK, Recreate, provider, calls
<1> QED
  BY <1>1, <1>2, <1>3, <1>4, <1>5, <1>6, <1>7, <1>8 DEF IInv

\* The clock moves only when no continuation is due.
LEMMA Ticked ==
  ASSUME IInv, Tick
  PROVE  IInv'
<1>1. TypeOK'
  BY TokenAssumption DEF IInv, TypeOK, Tick, provider, cache, calls
<1>2. PromisesOK'
  BY DEF IInv, PromisesOK, Tick, cache, calls
<1>3. NoStalePromise'
  BY DEF IInv, NoStalePromise, Tick, cache, calls
<1>4. AnswersOK'
  BY TokenAssumption
     DEF IInv, AnswersOK, PromisesOK, InFlight, TypeOK, Tick, Due, Settled, Answers, calls
<1>5. CacheOK'
  BY DEF IInv, CacheOK, Tick, cache
<1>6. HandedTokenLives'
  BY DEF IInv, HandedTokenLives, Tick, calls
<1>7. GrantOK'
  BY DEF IInv, GrantOK, InFlight, Tick, provider, cache, calls
<1>8. GrantIsKept'
  BY DEF IInv, GrantIsKept, InFlight, Tick, provider, cache, calls
<1> QED
  BY <1>1, <1>2, <1>3, <1>4, <1>5, <1>6, <1>7, <1>8 DEF IInv

-----------------------------------------------------------------------------

\* Nothing is cached or under way at first.
LEMMA InitIInv == Init => IInv
<1> SUFFICES ASSUME Init PROVE IInv
  OBVIOUS
<1>1. /\ 0 \in Instants /\ 0 \in Tokens /\ 0 \in -Buffer .. MaxTime + Lifetime
      /\ AnyAdapter \in Adapters
  BY TokenAssumption DEF Instants, Tokens, AnyAdapter
<1>2. TypeOK
  BY <1>1, TokenAssumption DEF Init, TypeOK
<1>3. PromisesOK /\ NoStalePromise /\ AnswersOK /\ CacheOK /\ HandedTokenLives
  BY <1>1 DEF Init, PromisesOK, NoStalePromise, AnswersOK, CacheOK, HandedTokenLives, InFlight
<1>4. GrantOK /\ GrantIsKept
  BY <1>1 DEF Init, GrantOK, GrantIsKept
<1> QED
  BY <1>2, <1>3, <1>4 DEF IInv

\* Calls, provider, sessions and clock keep the invariant, whichever of them moves.
LEMMA StepIInv == IInv /\ [Next]_vars => IInv'
<1> SUFFICES ASSUME IInv, [Next]_vars PROVE IInv'
  OBVIOUS
<1>1. ASSUME NEW c \in Calls, NEW a \in Adapters,
             CallCached(c, a) \/ CallJoins(c, a) \/ CallRefreshes(c, a)
      PROVE  IInv'
  BY <1>1, Cached, Joins, Refreshes
<1>2. ASSUME NEW c \in Calls, Grant(c) \/ CallStep(c) \/ Leave(c)
      PROVE  IInv'
  BY <1>2, Granted, HeadersCame, Received, Failed, Resumed, Left DEF CallStep
<1>3. ASSUME NEW a \in Adapters, Recreate(a)
      PROVE  IInv'
  BY <1>3, Recreated
<1>4. ASSUME Tick
      PROVE  IInv'
  BY <1>4, Ticked
<1>5. ASSUME UNCHANGED vars
      PROVE  IInv'
  BY <1>5 DEF vars, provider, cache, calls, IInv, TypeOK, PromisesOK, NoStalePromise, AnswersOK,
              CacheOK, HandedTokenLives, GrantOK, GrantIsKept, InFlight
<1> QED
  BY <1>1, <1>2, <1>3, <1>4, <1>5 DEF Next

\* The invariant holds in every reachable state.
LEMMA Invariance == Spec => []IInv
<1> QED
  BY InitIInv, StepIInv, PTL DEF Spec

-----------------------------------------------------------------------------

\* The adapters, the provider and the calls are well typed in every reachable state.
THEOREM TypeCorrect == Spec => []TypeOK
<1>1. IInv => TypeOK
  BY DEF IInv
<1> QED
  BY <1>1, Invariance, PTL

\* An adapter has one refresh under way at a time: its calls share pendingAuth.
THEOREM RefreshesOnce == Spec => []OneRefresh
<1>1. IInv => OneRefresh
  BY DEF IInv, PromisesOK, OneRefresh, InFlight
<1> QED
  BY <1>1, Invariance, PTL

\* The promise an adapter shares is that of a refresh that has not returned.
THEOREM PromisesAreLive == Spec => []NoStalePromise
<1>1. IInv => NoStalePromise
  BY DEF IInv
<1> QED
  BY <1>1, Invariance, PTL

\* An adapter that was told of every rotation presents a refresh token that is accepted.
THEOREM GrantStays == Spec => []GrantIsKept
<1>1. IInv => GrantIsKept
  BY DEF IInv
<1> QED
  BY <1>1, Invariance, PTL

\* Every token getAccessToken returns lives for the buffer, less the time between its grant
\* and its receipt, however long that was.
THEOREM TokensLive == Spec => []HandedTokenLives
<1>1. IInv => HandedTokenLives
  BY DEF IInv
<1> QED
  BY <1>1, Invariance, PTL

================================================================================
