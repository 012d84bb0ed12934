----------------------------- MODULE BulkBatch -----------------------------
(***************************************************************************)
(* A bulk tool over the rate limiter (packages/shared utils/mcp):          *)
(* assertBulkCapacity projects the whole batch on the live limiter before  *)
(* the first write, and executeBulkConcurrent then runs the items in       *)
(* groups of `concurrency`, each item making its consume calls in order    *)
(* and recording its own failure.  Item i is the limiter's caller i;       *)
(* the remaining callers are other requests on the same bucket.            *)
(***************************************************************************)
EXTENDS RateLimiter, FiniteSets

CONSTANTS
    ItemCount,    \* items in the batch
    Cost,         \* costPerItem: tokens of each consume one item makes
    Concurrency,  \* the executor's group size
    Bucket,       \* the limiter key every item draws from
    SlowUntil     \* bound: until then an item's API call may take its time
                  \* and others call, and by then the batch is assessed

Items == 1 .. ItemCount
Others == Callers \ Items

ASSUME BatchAssumption ==
    /\ ItemCount \in Nat
    /\ Items \subseteq Callers
    /\ Cost \in Seq(1 .. Limit)
    /\ Concurrency \in Nat \ {0}
    /\ Bucket \in LimitedKeys
    /\ SlowUntil \in Nat

VARIABLES
    phase,     \* "start", "refused" or "running"
    budgeted,  \* the projection the batch was accepted on: admission instants
    step,      \* [Items -> 0..]: consume calls the item has completed
    failed,    \* items recorded as { success: false }
    admitted,  \* history: instants reserved for the batch, in call order
    crowded    \* history: another caller reserved since the projection

bvars == <<phase, budgeted, step, failed, admitted, crowded>>
allvars == <<vars, bvars>>

----------------------------------------------------------------------------
Requests == ItemCount * Len(Cost)

\* The costs of the batch, item after item (`costs.push(...costPerItem)`).
CostOf(j) == Cost[((j - 1) % Len(Cost)) + 1]

\* The bucket's queue after the first j requests of the batch.
ProjectedQueue ==
    LET q[j \in 0 .. Requests] ==
            IF j = 0 THEN Current(Bucket)
            ELSE q[j - 1] \o Repeat(EarliestAdmission(q[j - 1], now, CostOf(j)), CostOf(j))
    IN  q

\* Mutant: the queue is not carried from one projected request to the next.
BugProjection ==
    [j \in 1 .. Requests |-> EarliestAdmission(Current(Bucket), now, CostOf(j))]

\* Mutant: a request is projected behind its own reservation.
BugProjectionSelf ==
    [j \in 1 .. Requests |-> EarliestAdmission(ProjectedQueue[j], now, CostOf(j))]

\* projectAdmissions: the instant each request would be admitted at.
Projection ==
    [j \in 1 .. Requests |-> EarliestAdmission(ProjectedQueue[j - 1], now, CostOf(j))]

\* projectBulkCapacity: the leading items whose last request is in budget.
ItemsThatFit(projection) ==
    LET fits(m) == \A i \in 1 .. m : projection[i * Len(Cost)] - now <= MaxWait
    IN  CHOOSE m \in 0 .. ItemCount : fits(m) /\ \A h \in 0 .. ItemCount : fits(h) => h <= m

Settled(i) == i \in failed \/ step[i] = Len(Cost)

\* Items of the group being run; a group starts when the previous one settled.
Group(i) == (i - 1) \div Concurrency
Running(i) ==
    /\ phase = "running" /\ ~Settled(i) /\ ~IsQueued(i)
    /\ \A h \in Items : Group(h) < Group(i) => Settled(h)

\* batch.map calls operation(item) in order: an item's first consume comes
\* after the first consume of the items before it.
Begun(i) == step[i] > 0 \/ IsQueued(i) \/ i \in failed
MayCall(i) == Running(i) /\ \A h \in Items : h < i => Begun(h)
----------------------------------------------------------------------------
BInit ==
    /\ Init
    /\ phase = "start"
    /\ budgeted = <<>>
    /\ step = [i \in Items |-> 0]
    /\ failed = {}
    /\ admitted = <<>>
    /\ crowded = FALSE

\* assertBulkCapacity refuses the batch: nothing was sent.
Refuse ==
    /\ phase = "start" /\ Bucket \in limits /\ now <= SlowUntil
    /\ ItemsThatFit(Projection) < ItemCount
    /\ phase' = "refused"
    /\ UNCHANGED <<vars, budgeted, step, failed, admitted, crowded>>

\* assertBulkCapacity lets the batch through.
Accept ==
    /\ phase = "start" /\ Bucket \in limits /\ now <= SlowUntil
    /\ ItemsThatFit(Projection) >= ItemCount
    /\ phase' = "running"
    /\ budgeted' = Projection
    /\ UNCHANGED <<vars, step, failed, admitted, crowded>>

\* The next consume of item i, and what the executor records of it: nothing
\* while it is queued, progress when admitted, a failure when it throws.
ItemCall(i) ==
    /\ MayCall(i)
    /\ LET n == Cost[step[i] + 1]
       IN  \/ /\ ConsumeUnlimited(i, Bucket, n)
              /\ step' = [step EXCEPT ![i] = @ + 1]
              /\ UNCHANGED <<failed, admitted>>
           \/ /\ ConsumeNow(i, Bucket, n)
              /\ step' = [step EXCEPT ![i] = @ + 1]
              /\ admitted' = Append(admitted, now)
              /\ UNCHANGED failed
           \/ /\ ConsumeQueued(i, Bucket, n)
              /\ admitted' = Append(admitted, AdmitAt(Bucket, n))
              /\ UNCHANGED <<step, failed>>
           \/ /\ ConsumeRejected(i, Bucket, n)
              /\ failed' = failed \cup {i}
              /\ UNCHANGED <<step, admitted>>
    /\ UNCHANGED <<phase, budgeted, crowded>>

\* A queued item is admitted.
ItemWake(i) ==
    /\ Wake(i)
    /\ step' = [step EXCEPT ![i] = @ + 1]
    /\ UNCHANGED <<phase, budgeted, failed, admitted, crowded>>

OtherCall(c, n) ==
    /\ phase # "refused" /\ now <= SlowUntil
    /\ Consume(c, Bucket, n)
    /\ crowded' = (crowded \/ phase = "running")
    /\ UNCHANGED <<phase, budgeted, step, failed, admitted>>

OtherWake(c) == Wake(c) /\ UNCHANGED bvars

\* Mutant: the executor's group is given up by the shutdown, its items are
\* left neither failed nor done.
BugShutdown ==
    /\ limits # {}
    /\ Destroy
    /\ phase' = "refused"
    /\ UNCHANGED <<budgeted, step, failed, admitted, crowded>>

\* Shutdown while the batch runs: the queued items' consume rejects.
Shutdown ==
    /\ limits # {}
    /\ Destroy
    /\ failed' = failed \cup (pending \cap Items)
    /\ UNCHANGED <<phase, budgeted, step, admitted, crowded>>

\* Time passes; after SlowUntil the API answers at once, so that the batch
\* ends within MaxTime.
BTick ==
    /\ Tick
    /\ now >= SlowUntil => \A i \in Items : ~MayCall(i)
    /\ UNCHANGED bvars

BStop == Stop /\ (\A i \in Items : ~MayCall(i)) /\ UNCHANGED bvars

BNext ==
    \/ Refuse
    \/ Accept
    \/ \E i \in Items : ItemCall(i) \/ ItemWake(i)
    \/ \E c \in Others, n \in 1 .. Limit : OtherCall(c, n)
    \/ \E c \in Others : OtherWake(c)
    \/ Shutdown
    \/ BTick
    \/ BStop

BSpec == BInit /\ [][BNext]_allvars

\* The event loop runs: timers fire, time passes, an API call ends (every
\* request is sent with a timeout) and its item goes on.
BFairSpec ==
    /\ BSpec
    /\ WF_allvars(BTick)
    /\ \A i \in Items : WF_allvars(ItemCall(i)) /\ WF_allvars(ItemWake(i))
    /\ \A c \in Others : WF_allvars(OtherWake(c))
----------------------------------------------------------------------------
\* projectAdmissions "is a lower bound under concurrency": whatever arrives in
\* between, the j-th request of an accepted batch is never admitted before the
\* instant projected for it.
ProjectionIsLowerBound ==
    \A j \in 1 .. Len(admitted) : admitted[j] >= budgeted[j]

\* The reason the check exists (bulk-capacity.ts header): a batch that was
\* accepted, with nobody else on the bucket, is never rate limited half-way;
\* only a shutdown can fail an item.
AcceptedBatchIsNotCut ==
    ~crowded /\ limits # {} => failed = {}

\* The executor settles every item of an accepted batch, shutdown or not.
EveryItemSettles == phase = "running" ~> \A i \in Items : Settled(i)
============================================================================
