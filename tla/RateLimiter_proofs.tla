------------------------- MODULE RateLimiter_proofs -------------------------
(***************************************************************************)
(* Safety of the rate limiter for every limit, window, wait budget, set of *)
(* keys and number of callers.  The induction is carried by QueueOK, which *)
(* relates the pruned array of a key (r) to its whole history (g).         *)
(*                                                                         *)
(* The last part is about BulkBatch, which extends the limiter with a bulk *)
(* tool: for every batch, group size and interleaving with other callers.  *)
(* What comes before it is about RateLimiter alone and cites only          *)
(* LimiterAssumption.                                                      *)
(***************************************************************************)
EXTENDS BulkBatch, FiniteSetTheorems, SequenceTheorems, WellFoundedInduction, TLAPS

\* r is the unexpired end of the history g, and a queue that reaches into the
\* future starts exactly one window after the entry Limit places before it.
QueueOK(r, g, t) ==
    /\ Ascending(g)
    /\ Spaced(g, Window)
    /\ Len(r) <= Len(g)
    /\ \A i \in 1 .. Len(r) : r[i] = g[i + (Len(g) - Len(r))]
    /\ \A i \in 1 .. (Len(g) - Len(r)) : t - g[i] >= Window
    /\ Len(g) > 0 /\ g[Len(g)] > t =>
        Len(g) > Limit /\ g[Len(g)] = g[Len(g) - Limit] + Window

AllQueuesOK == \A k \in Keys : QueueOK(requests[k], ledger[k], now)

IInv == TypeOK /\ AllQueuesOK /\ ReservationKept /\ TimersMatchSleepers
-----------------------------------------------------------------------------
\* A nonempty set of naturals has a least element.
LEMMA LeastNat ==
    ASSUME NEW T \in SUBSET Nat, T # {}
    PROVE  \E m \in T : \A y \in T : m <= y
<1>1. PICK m \in T : \A y \in T : ~(<<y, m>> \in OpToRel(<, Nat))
  BY WFMin, NatLessThanWellFounded
<1>2. \A y \in T : ~(y < m)
  BY <1>1 DEF OpToRel
<1> QED
  BY <1>2

\* Filtering an ascending array by age drops a prefix of it.
LEMMA ExpiredIsPrefix ==
    ASSUME NEW s \in Seq(Nat), NEW t \in Nat, NEW age \in Nat, Ascending(s)
    PROVE  /\ Expired(s, t, age) \in 0 .. Len(s)
           /\ \A i \in 1 .. Len(s) : (i > Expired(s, t, age)) <=> (t - s[i] < age)
<1> DEFINE Fresh == {i \in 1 .. Len(s) : t - s[i] < age}
<1>1. \E n \in 0 .. Len(s) : \A i \in 1 .. Len(s) : (i > n) <=> (t - s[i] < age)
  <2>1. CASE Fresh = {}
    <3>1. \A i \in 1 .. Len(s) : ~(i > Len(s)) /\ ~(t - s[i] < age)
      BY <2>1
    <3>2. Len(s) \in 0 .. Len(s)
      OBVIOUS
    <3> QED BY <3>1, <3>2
  <2>2. CASE Fresh # {}
    <3>1. Fresh \in SUBSET Nat
      OBVIOUS
    <3>2. PICK m \in Fresh : \A y \in Fresh : m <= y
      BY <2>2, <3>1, LeastNat
    <3>3. \A i \in 1 .. Len(s) : s[i] \in Nat
      OBVIOUS
    <3>4. \A i \in 1 .. Len(s) : (i > m - 1) <=> (t - s[i] < age)
      BY SMTT(30), <3>2, <3>3 DEF Ascending
    <3>5. m - 1 \in 0 .. Len(s)
      BY <3>2
    <3> QED BY <3>4, <3>5
  <2> QED BY <2>1, <2>2
<1> QED
  BY <1>1 DEF Expired

\* The live part of an ascending array: its length, entries and freshness.
LEMMA LiveIsSuffix ==
    ASSUME NEW s \in Seq(Nat), NEW t \in Nat, NEW age \in Nat, Ascending(s)
    PROVE  /\ Live(s, t, age) \in Seq(Nat)
           /\ Len(Live(s, t, age)) = Len(s) - Expired(s, t, age)
           /\ \A i \in 1 .. Len(Live(s, t, age)) :
                /\ Live(s, t, age)[i] = s[i + Expired(s, t, age)]
                /\ t - Live(s, t, age)[i] < age
           /\ \A i \in 1 .. Expired(s, t, age) : t - s[i] >= age
<1> DEFINE e == Expired(s, t, age)
<1>1. /\ e \in 0 .. Len(s)
      /\ \A i \in 1 .. Len(s) : (i > e) <=> (t - s[i] < age)
  BY ExpiredIsPrefix
<1> HIDE DEF e
<1>2. /\ SubSeq(s, e + 1, Len(s)) \in Seq(Nat)
      /\ Len(SubSeq(s, e + 1, Len(s))) = Len(s) - e
      /\ \A i \in 1 .. (Len(s) - e) : SubSeq(s, e + 1, Len(s))[i] = s[i + e]
  BY <1>1
<1>3. \A i \in 1 .. (Len(s) - e) : t - s[i + e] < age
  BY <1>1
<1>4. \A i \in 1 .. e : t - s[i] >= age
  BY <1>1
<1> QED
  BY <1>2, <1>3, <1>4 DEF Live, e

\* Pruning a key's array, with the window or with the larger garbage-collection
\* age, loses nothing the invariant needs.
LEMMA PruneKeepsQueue ==
    ASSUME NEW r \in Seq(Nat), NEW g \in Seq(Nat), NEW t \in Nat,
           NEW age \in Nat, age >= Window, QueueOK(r, g, t)
    PROVE  /\ Ascending(r)
           /\ Live(r, t, age) \in Seq(Nat)
           /\ QueueOK(Live(r, t, age), g, t)
           /\ \A i \in 1 .. Len(Live(r, t, age)) : t - Live(r, t, age)[i] < age
<1> DEFINE e == Expired(r, t, age)
           v == Live(r, t, age)
           d == Len(g) - Len(r)
<1>0. /\ Window \in Nat /\ Len(r) \in Nat /\ Len(g) \in Nat
      /\ Len(r) <= Len(g) /\ d \in Nat
  BY LimiterAssumption DEF QueueOK
<1>1. Ascending(r)
  <2>1. SUFFICES ASSUME NEW i \in 1 .. Len(r), NEW j \in 1 .. Len(r), i <= j
                 PROVE  r[i] <= r[j]
    BY DEF Ascending
  <2>2. r[i] = g[i + d] /\ r[j] = g[j + d]
    BY DEF QueueOK
  <2> HIDE DEF d
  <2>5. i + d \in 1 .. Len(g) /\ j + d \in 1 .. Len(g) /\ i + d <= j + d
    BY <1>0, <2>1 DEF d
  <2>3. Ascending(g)
    BY DEF QueueOK
  <2>4. g[i + d] <= g[j + d]
    BY <2>5, <2>3 DEF Ascending
  <2> QED BY <2>2, <2>4
<1>2. /\ v \in Seq(Nat)
      /\ Len(v) = Len(r) - e
      /\ \A i \in 1 .. Len(v) : v[i] = r[i + e] /\ t - v[i] < age
      /\ \A i \in 1 .. e : t - r[i] >= age
  BY <1>1, LiveIsSuffix
<1>3. e \in 0 .. Len(r)
  BY <1>1, ExpiredIsPrefix
<1> HIDE DEF e, v
<1>4. \A i \in 1 .. Len(v) : v[i] = g[i + (Len(g) - Len(v))]
  <2> TAKE i \in 1 .. Len(v)
  <2>1. i + e \in 1 .. Len(r)
    BY <1>0, <1>2, <1>3
  <2>2. r[i + e] = g[(i + e) + (Len(g) - Len(r))]
    BY <2>1 DEF QueueOK
  <2>3. (i + e) + (Len(g) - Len(r)) = i + (Len(g) - Len(v))
    BY <1>0, <1>2, <1>3
  <2> QED BY <1>2, <2>2, <2>3
<1>5. \A i \in 1 .. (Len(g) - Len(v)) : t - g[i] >= Window
  <2> TAKE i \in 1 .. (Len(g) - Len(v))
  <2>1. CASE i <= d
    BY <2>1, <1>0 DEF QueueOK
  <2>2. CASE i > d
    <3>0. Len(v) = Len(r) - e /\ Len(v) \in Nat
      BY <1>2
    <3>1. i - d \in 1 .. e /\ i - d \in 1 .. Len(r)
      BY SMTT(30), <2>2, <3>0, <1>0, <1>3
    <3>2. r[i - d] = g[(i - d) + (Len(g) - Len(r))] /\ t - r[i - d] >= age
      BY <3>1, <1>2 DEF QueueOK
    <3>3. r[i - d] \in Nat
      BY SMTT(30), <3>1
    <3>4. (i - d) + (Len(g) - Len(r)) = i
      BY <1>0
    <3> QED BY SMTT(30), <3>2, <3>3, <3>4, <1>0
  <2> QED BY <2>1, <2>2, <1>0
<1>6. QueueOK(v, g, t)
  BY <1>0, <1>2, <1>3, <1>4, <1>5 DEF QueueOK
<1> QED
  BY <1>1, <1>2, <1>6 DEF v

\* The array with n copies of an instant appended.
LEMMA AppendRepeat ==
    ASSUME NEW s \in Seq(Nat), NEW n \in Nat, NEW a \in Nat
    PROVE  /\ s \o Repeat(a, n) \in Seq(Nat)
           /\ Len(s \o Repeat(a, n)) = Len(s) + n
           /\ \A i \in 1 .. Len(s) : (s \o Repeat(a, n))[i] = s[i]
           /\ \A i \in 1 .. (Len(s) + n) : i > Len(s) => (s \o Repeat(a, n))[i] = a
<1>1. /\ Repeat(a, n) \in Seq(Nat)
      /\ Len(Repeat(a, n)) = n
      /\ \A i \in 1 .. n : Repeat(a, n)[i] = a
  BY DEF Repeat
<1> DEFINE w == Repeat(a, n)
<1> HIDE DEF w
<1>2. w \in Seq(Nat) /\ Len(w) = n /\ \A i \in 1 .. n : w[i] = a
  BY <1>1 DEF w
<1>3. /\ s \o w \in Seq(Nat)
      /\ Len(s \o w) = Len(s) + n
      /\ \A i \in 1 .. Len(s) : (s \o w)[i] = s[i]
      /\ \A i \in 1 .. (Len(s) + n) : i > Len(s) => (s \o w)[i] = w[i - Len(s)]
  <2>1. /\ s \o w \in Seq(Nat)
        /\ Len(s \o w) = Len(s) + n
        /\ \A i \in 1 .. (Len(s) + n) :
              (s \o w)[i] = IF i <= Len(s) THEN s[i] ELSE w[i - Len(s)]
    BY <1>2, ConcatProperties
  <2>2. Len(s) \in Nat
    OBVIOUS
  <2> QED BY <2>1, <2>2
<1>4. \A i \in 1 .. (Len(s) + n) : i > Len(s) => w[i - Len(s)] = a
  BY <1>2
<1> QED BY <1>3, <1>4 DEF w

\* What earliestAdmission returns on a pruned window: never before now, never
\* before the last reservation, a window after the entry that must expire; and
\* later than now only because of that entry.
LEMMA AdmissionInstant ==
    ASSUME NEW r \in Seq(Nat), NEW g \in Seq(Nat), NEW t \in Nat,
           NEW n \in 1 .. Limit, QueueOK(r, g, t), Ascending(r),
           \A i \in 1 .. Len(r) : t - r[i] < Window
    PROVE  LET m  == MustExpire(r, n)
               at == EarliestAdmission(r, t, n)
           IN  /\ at \in Nat /\ at >= t
               /\ Len(g) > 0 => at >= g[Len(g)]
               /\ m > 0 => m \in 1 .. Len(r) /\ at >= r[m] + Window /\ at > t
               /\ at > t => m > 0 /\ at = r[m] + Window
<1> DEFINE m  == MustExpire(r, n)
           at == EarliestAdmission(r, t, n)
           rm == r[m]
           bh == Behind(r, t)
<1>0. /\ Window \in Nat \ {0} /\ Limit \in Nat /\ Len(r) \in Nat /\ Len(g) \in Nat
      /\ m = Len(r) - (Limit - n) /\ m \in Int /\ m <= Len(r)
      /\ Len(r) <= Len(g)
  BY LimiterAssumption DEF QueueOK, MustExpire
<1>1. /\ \A i \in 1 .. Len(r) : r[i] \in Nat
      /\ \A i \in 1 .. Len(g) : g[i] \in Nat
  OBVIOUS
<1>2. m > 0 => m \in 1 .. Len(r)
  BY <1>0
<1>3. /\ bh \in Nat /\ bh >= t /\ (bh = t \/ (Len(r) > 0 /\ bh = r[Len(r)]))
      /\ Len(r) > 0 => bh >= r[Len(r)]
  BY <1>0, <1>1 DEF Behind
<1>4. at = IF m > 0 /\ rm + Window > bh THEN rm + Window ELSE bh
  BY DEF EarliestAdmission
<1>a. m > 0 => rm \in Nat /\ t - rm < Window
  BY <1>1, <1>2
<1>b. Len(r) > 0 => r[Len(r)] = g[Len(g)]
  <2> SUFFICES ASSUME Len(r) > 0 PROVE r[Len(r)] = g[Len(g)]
    OBVIOUS
  <2>1. r[Len(r)] = g[Len(r) + (Len(g) - Len(r))]
    BY <1>0 DEF QueueOK
  <2>2. Len(r) + (Len(g) - Len(r)) = Len(g)
    BY <1>0
  <2> QED BY <2>1, <2>2
<1> HIDE DEF m, at, rm, bh
<1>5. at \in Nat /\ at >= t /\ at >= bh
  BY SMTT(30), <1>0, <1>a, <1>3, <1>4
<1>6. Len(g) > 0 => at >= g[Len(g)]
  <2> SUFFICES ASSUME Len(g) > 0 PROVE at >= g[Len(g)]
    OBVIOUS
  <2>1. g[Len(g)] \in Nat
    BY <1>0, <1>1
  <2>2. CASE Len(r) = 0
    <3>1. t - g[Len(g)] >= Window
      BY <2>2, <1>0 DEF QueueOK
    <3> QED BY <3>1, <2>1, <1>0, <1>5
  <2>3. CASE Len(r) > 0
    BY <2>1, <2>3, <1>b, <1>3, <1>5
  <2> QED BY <2>2, <2>3, <1>0
<1>7. m > 0 => at >= rm + Window /\ at > t
  <2> SUFFICES ASSUME m > 0 PROVE at >= rm + Window /\ at > t
    OBVIOUS
  <2>1. rm \in Nat /\ bh \in Nat /\ Window \in Nat /\ rm + Window > t
    BY <1>0, <1>a, <1>3
  <2>2. at = IF rm + Window > bh THEN rm + Window ELSE bh
    BY <1>4
  <2> QED BY <2>1, <2>2
<1>8. at > t => m > 0 /\ at = rm + Window
  <2> SUFFICES ASSUME at > t, ~(m > 0 /\ at = rm + Window) PROVE FALSE
    OBVIOUS
  <2>1. at = bh /\ Len(r) > 0 /\ at = r[Len(r)] /\ at = g[Len(g)]
    BY <1>3, <1>4, <1>b
  <2>2. Len(g) > Limit /\ g[Len(g)] = g[Len(g) - Limit] + Window
    BY <2>1, <1>0 DEF QueueOK
  <2> DEFINE h == g[Len(g) - Limit]
  <2>3. h \in Nat
    BY <2>2, <1>0, <1>1
  <2>4. ~(Len(g) - Limit <= Len(g) - Len(r))
    <3> SUFFICES ASSUME Len(g) - Limit <= Len(g) - Len(r) PROVE FALSE
      OBVIOUS
    <3>1. t - h >= Window
      BY <2>2, <1>0 DEF QueueOK
    <3>2. at = h + Window
      BY <2>1, <2>2
    <3> HIDE DEF h
    <3> QED BY <3>1, <3>2, <2>3, <1>0, <1>5
  <2>5. Len(r) - Limit \in 1 .. Len(r) /\ Len(r) - Limit <= m /\ m > 0
    <3>1. Len(r) > Limit
      BY <2>4, <1>0
    <3> QED BY SMTT(30), <3>1, <1>0
  <2>6. r[Len(r) - Limit] = h
    <3>1. r[Len(r) - Limit] = g[(Len(r) - Limit) + (Len(g) - Len(r))]
      BY <2>5 DEF QueueOK
    <3>2. (Len(r) - Limit) + (Len(g) - Len(r)) = Len(g) - Limit
      BY <1>0
    <3> QED BY <3>1, <3>2
  <2>7. h <= rm
    <3>1. r[Len(r) - Limit] <= r[m]
      BY <2>5, <1>2 DEF Ascending
    <3> QED BY <3>1, <2>6 DEF rm
  <2>8. at = h + Window
    BY <2>1, <2>2
  <2> HIDE DEF h
  <2>9. rm \in Nat /\ Window \in Nat /\ at >= rm + Window /\ at # rm + Window
    BY <2>5, <1>0, <1>a, <1>7
  <2> QED BY <2>3, <2>7, <2>8, <2>9
<1> QED
  BY <1>2, <1>5, <1>6, <1>7, <1>8 DEF m, at, rm

\* Reserving n tokens on a pruned window at the instant earliestAdmission
\* returns keeps the history ascending and spaced.
LEMMA PushKeepsQueue ==
    ASSUME NEW r \in Seq(Nat), NEW g \in Seq(Nat), NEW t \in Nat,
           NEW n \in 1 .. Limit, QueueOK(r, g, t), Ascending(r),
           \A i \in 1 .. Len(r) : t - r[i] < Window
    PROVE  LET at == EarliestAdmission(r, t, n)
           IN  /\ at \in Nat /\ at >= t
               /\ QueueOK(r \o Repeat(at, n), g \o Repeat(at, n), t)
<1> DEFINE m  == MustExpire(r, n)
           at == EarliestAdmission(r, t, n)
           r1 == r \o Repeat(at, n)
           g1 == g \o Repeat(at, n)
<1>0. /\ Window \in Nat \ {0} /\ Limit \in Nat /\ Len(r) \in Nat /\ Len(g) \in Nat
      /\ m = Len(r) - (Limit - n) /\ m \in Int /\ n \in Nat /\ n <= Limit /\ n > 0
      /\ Len(r) <= Len(g)
  BY LimiterAssumption DEF QueueOK, MustExpire
<1>1. /\ at \in Nat /\ at >= t
      /\ Len(g) > 0 => at >= g[Len(g)]
      /\ m > 0 => m \in 1 .. Len(r) /\ at >= r[m] + Window /\ at > t
      /\ at > t => m > 0 /\ at = r[m] + Window
  BY AdmissionInstant
<1> HIDE DEF m, at
<1>a. n \in Nat /\ at \in Nat /\ Len(r) \in Nat /\ Len(g) \in Nat
  BY <1>0, <1>1
<1>2. /\ Len(r1) = Len(r) + n
      /\ \A i \in 1 .. Len(r) : r1[i] = r[i]
      /\ \A i \in 1 .. (Len(r) + n) : i > Len(r) => r1[i] = at
  BY ZenonT(60), <1>a, AppendRepeat
<1>3. /\ g1 \in Seq(Nat)
      /\ Len(g1) = Len(g) + n
      /\ \A i \in 1 .. Len(g) : g1[i] = g[i]
      /\ \A i \in 1 .. (Len(g) + n) : i > Len(g) => g1[i] = at
  BY <1>a, AppendRepeat
<1>4. /\ \A i \in 1 .. Len(r) : r[i] \in Nat
      /\ \A i \in 1 .. Len(g) : g[i] \in Nat
  OBVIOUS
<1> HIDE DEF r1, g1
<1>l. Len(r1) = Len(r) + n /\ Len(g1) = Len(g) + n
  BY <1>2, <1>3
<1>5. Ascending(g1)
  <2> SUFFICES ASSUME NEW i \in 1 .. Len(g1), NEW j \in 1 .. Len(g1), i <= j
               PROVE  g1[i] <= g1[j]
    BY DEF Ascending
  <2>1. CASE j <= Len(g)
    <3>0. i \in 1 .. Len(g) /\ j \in 1 .. Len(g)
      BY <2>1, <1>0, <1>l
    <3>1. i \in 1 .. Len(g) /\ j \in 1 .. Len(g) /\ g1[i] = g[i] /\ g1[j] = g[j]
      BY <3>0, <1>3
    <3>2. Ascending(g)
      BY DEF QueueOK
    <3> QED BY <3>1, <3>2 DEF Ascending
  <2>2. CASE j > Len(g) /\ i <= Len(g)
    <3>0. /\ i \in 1 .. Len(g) /\ Len(g) \in 1 .. Len(g) /\ i <= Len(g)
          /\ j \in 1 .. (Len(g) + n)
      BY <2>2, <1>a, <1>l
    <3>1. i \in 1 .. Len(g) /\ Len(g) \in 1 .. Len(g) /\ g1[i] = g[i] /\ g1[j] = at
      BY <3>0, <2>2, <1>3
    <3>2. Ascending(g)
      BY DEF QueueOK
    <3>3. g[i] <= g[Len(g)] /\ g[i] \in Nat /\ g[Len(g)] \in Nat
      BY <3>1, <3>2, <1>4 DEF Ascending
    <3> QED BY SMTT(30), <3>1, <3>3, <1>1, <1>0
  <2>3. CASE j > Len(g) /\ i > Len(g)
    <3>1. g1[i] = at /\ g1[j] = at
      BY <2>3, <1>0, <1>3
    <3> QED BY <3>1, <1>1
  <2> QED BY SMTT(30), <2>1, <2>2, <2>3, <1>0, <1>3
<1>6. Spaced(g1, Window)
  <2> SUFFICES ASSUME NEW i \in 1 .. Len(g1), i + Limit <= Len(g1)
               PROVE  g1[i + Limit] - g1[i] >= Window
    BY DEF Spaced
  <2>1. CASE i + Limit <= Len(g)
    <3>0. i \in 1 .. Len(g) /\ i + Limit \in 1 .. Len(g)
      BY <2>1, <1>0, <1>l
    <3>1. /\ i \in 1 .. Len(g) /\ i + Limit \in 1 .. Len(g)
          /\ g1[i] = g[i] /\ g1[i + Limit] = g[i + Limit]
      BY <3>0, <1>3
    <3>2. Spaced(g, Window)
      BY DEF QueueOK
    <3> QED BY <3>1, <3>2, <2>1 DEF Spaced
  <2>2. CASE i + Limit > Len(g)
    <3>1. i \in 1 .. Len(g) /\ i + Limit \in 1 .. (Len(g) + n)
      BY <2>2, <1>0, <1>3
    <3>2. g1[i] = g[i] /\ g1[i + Limit] = at /\ g[i] \in Nat
      BY <3>1, <2>2, <1>3, <1>4
    <3>3. CASE i <= Len(g) - Len(r)
      <4>1. t - g[i] >= Window
        BY <3>1, <3>3, <1>0 DEF QueueOK
      <4>2. t - g[i] >= Window /\ g[i] \in Nat /\ Window \in Nat /\ at \in Nat /\ at >= t
        BY <4>1, <3>2, <1>0, <1>1
      <4>3. at - g[i] >= Window
        BY <4>2
      <4> QED BY <4>3, <3>2
    <3>4. CASE i > Len(g) - Len(r)
      <4> DEFINE j == i - (Len(g) - Len(r))
      <4>1. j \in 1 .. Len(r) /\ j <= m /\ m > 0 /\ j + (Len(g) - Len(r)) = i
        BY SMTT(30), <3>1, <3>4, <1>0, <1>l
      <4> HIDE DEF j
      <4>2. r[j] = g[j + (Len(g) - Len(r))]
        BY <4>1 DEF QueueOK
      <4>3. m \in 1 .. Len(r) /\ at >= r[m] + Window
        BY <4>1, <1>1
      <4>4. r[j] <= r[m] /\ r[j] \in Nat /\ r[m] \in Nat
        BY <4>1, <4>3, <1>4 DEF Ascending
      <4>5. r[j] = g[i]
        BY <4>1, <4>2
      <4>6. at >= r[m] + Window /\ at \in Nat /\ Window \in Nat
        BY <4>3, <1>0, <1>1
      <4>d. \A x, y, z, w \in Nat : x <= y /\ z >= y + w => z - x >= w
        OBVIOUS
      <4>7. at - r[j] >= Window
        BY <4>4, <4>6, <4>d
      <4> QED BY <4>5, <4>7, <3>2
    <3> QED BY <3>3, <3>4, <1>0
  <2> QED BY <2>1, <2>2, <1>0
<1>7. \A i \in 1 .. Len(r1) : r1[i] = g1[i + (Len(g1) - Len(r1))]
  <2> TAKE i \in 1 .. Len(r1)
  <2>0. Len(g1) - Len(r1) = Len(g) - Len(r)
    BY <1>0, <1>2, <1>3
  <2>1. CASE i <= Len(r)
    <3>1. /\ i \in 1 .. Len(r) /\ i + (Len(g) - Len(r)) \in 1 .. Len(g)
      BY <2>1, <1>0, <1>2
    <3>2. r[i] = g[i + (Len(g) - Len(r))]
      BY <3>1 DEF QueueOK
    <3> QED BY <3>1, <3>2, <2>0, <1>2, <1>3
  <2>2. CASE i > Len(r)
    <3>1. /\ i + (Len(g) - Len(r)) \in 1 .. (Len(g) + n)
          /\ i + (Len(g) - Len(r)) > Len(g)
          /\ i \in 1 .. (Len(r) + n)
      BY <2>2, <1>0, <1>2
    <3> QED BY <3>1, <2>0, <2>2, <1>2, <1>3
  <2> QED BY <2>1, <2>2, <1>0
<1>8. \A i \in 1 .. (Len(g1) - Len(r1)) : t - g1[i] >= Window
  <2> TAKE i \in 1 .. (Len(g1) - Len(r1))
  <2>1. i \in 1 .. (Len(g) - Len(r)) /\ i \in 1 .. Len(g)
    BY SMTT(30), <1>0, <1>2, <1>3
  <2>2. t - g[i] >= Window
    BY <2>1 DEF QueueOK
  <2> QED BY <2>1, <2>2, <1>3
<1>9. Len(g1) > 0 /\ g1[Len(g1)] > t =>
        Len(g1) > Limit /\ g1[Len(g1)] = g1[Len(g1) - Limit] + Window
  <2> SUFFICES ASSUME g1[Len(g1)] > t
               PROVE  Len(g1) > Limit /\ g1[Len(g1)] = g1[Len(g1) - Limit] + Window
    OBVIOUS
  <2>1. Len(g1) \in 1 .. (Len(g) + n) /\ Len(g1) > Len(g)
    BY <1>0, <1>3
  <2>2. g1[Len(g1)] = at
    BY <2>1, <1>3
  <2>3. m > 0 /\ m \in 1 .. Len(r) /\ at = r[m] + Window
    BY <2>2, <1>1
  <2>a. m + (Len(g) - Len(r)) = Len(g1) - Limit
    BY <1>0, <1>l
  <2>b. m \in Nat /\ m >= 1 /\ m <= Len(r)
    BY <2>3, <1>0
  <2>c. m + (Len(g) - Len(r)) \in 1 .. Len(g)
    BY <2>b, <1>0
  <2>d. Len(g1) \in Nat /\ Len(g1) - Limit \in 1 .. Len(g)
    BY <2>a, <2>c, <1>0, <1>l
  <2>4. /\ Len(g1) - Limit \in 1 .. Len(g) /\ Len(g1) > Limit
        /\ m + (Len(g) - Len(r)) = Len(g1) - Limit
    BY <2>a, <2>d, <1>0
  <2>5. r[m] = g[m + (Len(g) - Len(r))]
    BY <2>3 DEF QueueOK
  <2>6. g1[Len(g1) - Limit] = g[Len(g1) - Limit]
    BY <2>4, <1>3
  <2> QED BY <2>2, <2>3, <2>4, <2>5, <2>6
<1>10. Len(r1) <= Len(g1)
  BY <1>0, <1>2, <1>3
<1>11. QueueOK(r1, g1, t)
  BY <1>5, <1>6, <1>7, <1>8, <1>9, <1>10 DEF QueueOK
<1> QED
  BY <1>1, <1>11 DEF r1, g1, at

\* The passage of time keeps a queue consistent.
LEMMA TickKeepsQueue ==
    ASSUME NEW r \in Seq(Nat), NEW g \in Seq(Nat), NEW t \in Nat, QueueOK(r, g, t)
    PROVE  QueueOK(r, g, t + 1)
<1>0. Len(g) \in Nat /\ Len(r) \in Nat /\ Window \in Nat /\ \A i \in 1 .. Len(g) : g[i] \in Nat
  BY LimiterAssumption
<1>1. \A i \in 1 .. (Len(g) - Len(r)) : (t + 1) - g[i] >= Window
  <2> TAKE i \in 1 .. (Len(g) - Len(r))
  <2>1. t - g[i] >= Window /\ i \in 1 .. Len(g)
    BY <1>0 DEF QueueOK
  <2> QED BY <2>1, <1>0
<1>2. Len(g) > 0 /\ g[Len(g)] > t + 1 => g[Len(g)] > t
  BY <1>0
<1> QED
  BY <1>1, <1>2 DEF QueueOK

\* The release history stays a sequence of instants.
LEMMA ReleaseType ==
    ASSUME NEW s \in Seq(Nat), NEW n \in Nat, NEW t \in Nat
    PROVE  Release(s, n, t) \in Seq(Nat)
<1> DEFINE all == s \o Repeat(t, n)
<1>1. all \in Seq(Nat) /\ Limit \in Nat
  BY AppendRepeat, LimiterAssumption
<1> HIDE DEF all
<1>2. Len(all) > Limit + 1 => SubSeq(all, Len(all) - Limit, Len(all)) \in Seq(Nat)
  BY <1>1
<1> QED
  BY <1>1, <1>2 DEF Release, all
-----------------------------------------------------------------------------
\* The pruned window of a key, in any state the invariant allows.
LEMMA CurrentWindow ==
    ASSUME TypeOK, AllQueuesOK, NEW k \in Keys
    PROVE  /\ Current(k) \in Seq(Nat)
           /\ Ascending(Current(k))
           /\ QueueOK(Current(k), ledger[k], now)
           /\ \A i \in 1 .. Len(Current(k)) : now - Current(k)[i] < Window
<1>1. requests[k] \in Seq(Nat) /\ ledger[k] \in Seq(Nat) /\ now \in Nat
  BY DEF TypeOK
<1>2. QueueOK(requests[k], ledger[k], now)
  BY DEF AllQueuesOK
<1>3. Window \in Nat /\ Window >= Window
  BY LimiterAssumption
<1>4. /\ Current(k) \in Seq(Nat)
      /\ QueueOK(Current(k), ledger[k], now)
      /\ \A i \in 1 .. Len(Current(k)) : now - Current(k)[i] < Window
  BY <1>1, <1>2, <1>3, PruneKeepsQueue DEF Current
<1>5. Ascending(Current(k))
  BY <1>1, <1>3, <1>4, PruneKeepsQueue
<1> QED BY <1>4, <1>5

\* Reserving tokens for a call preserves every key's queue, and the ledger of
\* the key only grows at its end.
LEMMA ReserveStep ==
    ASSUME TypeOK, AllQueuesOK, NEW k \in Keys, NEW n \in 1 .. Limit,
           Reserve(k, n), now' = now
    PROVE  /\ AdmitAt(k, n) \in Nat /\ AdmitAt(k, n) >= now
           /\ requests' \in [Keys -> Seq(Nat)]
           /\ ledger' \in [Keys -> Seq(Nat)]
           /\ AllQueuesOK'
           /\ Len(ledger[k]) + n \in Nat
           /\ Len(ledger'[k]) = Len(ledger[k]) + n
           /\ ledger'[k][Len(ledger[k]) + n] = AdmitAt(k, n)
           /\ \A q \in Keys : \A i \in 1 .. Len(ledger[q]) :
                i \in 1 .. Len(ledger'[q]) /\ ledger'[q][i] = ledger[q][i]
<1> DEFINE at == AdmitAt(k, n)
           r1 == Current(k) \o Repeat(at, n)
           g1 == ledger[k] \o Repeat(at, n)
<1>1. /\ Current(k) \in Seq(Nat) /\ Ascending(Current(k))
      /\ QueueOK(Current(k), ledger[k], now)
      /\ \A i \in 1 .. Len(Current(k)) : now - Current(k)[i] < Window
  BY CurrentWindow
<1>2. ledger[k] \in Seq(Nat) /\ now \in Nat /\ n \in Nat /\ n > 0
  BY LimiterAssumption DEF TypeOK
<1>3. at \in Nat /\ at >= now /\ QueueOK(r1, g1, now)
  BY <1>1, <1>2, PushKeepsQueue DEF AdmitAt
<1> HIDE DEF at
<1>4. r1 \in Seq(Nat)
  BY <1>1, <1>2, <1>3, AppendRepeat
<1>5. /\ g1 \in Seq(Nat)
      /\ Len(g1) = Len(ledger[k]) + n
      /\ \A i \in 1 .. Len(ledger[k]) : g1[i] = ledger[k][i]
      /\ \A i \in 1 .. (Len(ledger[k]) + n) : i > Len(ledger[k]) => g1[i] = at
  BY <1>2, <1>3, AppendRepeat
<1>6. requests' = [requests EXCEPT ![k] = r1] /\ ledger' = [ledger EXCEPT ![k] = g1]
  BY DEF Reserve, at
<1> HIDE DEF r1, g1
<1>7. requests' \in [Keys -> Seq(Nat)] /\ ledger' \in [Keys -> Seq(Nat)]
  BY <1>4, <1>5, <1>6 DEF TypeOK
<1>8. AllQueuesOK'
  <2> SUFFICES ASSUME NEW q \in Keys PROVE QueueOK(requests'[q], ledger'[q], now)
    BY DEF AllQueuesOK
  <2>1. CASE q = k
    BY <2>1, <1>3, <1>6 DEF TypeOK
  <2>2. CASE q # k
    BY <2>2, <1>6 DEF TypeOK, AllQueuesOK
  <2> QED BY <2>1, <2>2
<1>9. ledger'[k] = g1 /\ \A q \in Keys : q # k => ledger'[q] = ledger[q]
  BY <1>6 DEF TypeOK
<1>10. /\ Len(ledger[k]) \in Nat /\ Len(ledger[k]) + n \in 1 .. (Len(ledger[k]) + n)
       /\ Len(ledger[k]) + n > Len(ledger[k])
  BY <1>2
<1>11. ledger'[k][Len(ledger[k]) + n] = at
  BY <1>5, <1>9, <1>10
<1>12. \A q \in Keys : \A i \in 1 .. Len(ledger[q]) :
         i \in 1 .. Len(ledger'[q]) /\ ledger'[q][i] = ledger[q][i]
  <2> TAKE q \in Keys
  <2> TAKE i \in 1 .. Len(ledger[q])
  <2>1. CASE q = k
    <3>1. i \in 1 .. (Len(ledger[k]) + n)
      BY <2>1, <1>2, <1>10
    <3> QED BY <2>1, <3>1, <1>5, <1>9
  <2>2. CASE q # k
    BY <2>2, <1>9
  <2> QED BY <2>1, <2>2
<1> QED
  BY <1>3, <1>5, <1>7, <1>8, <1>9, <1>10, <1>11, <1>12 DEF at

\* The invariant holds initially: every queue is empty.
LEMMA InitIInv == Init => IInv
<1> SUFFICES ASSUME Init PROVE IInv
  OBVIOUS
<1>1. <<>> \in Seq(Nat) /\ Len(<<>>) = 0
  OBVIOUS
<1>2. TypeOK
  BY <1>1 DEF Init, TypeOK, Idle
<1>3. QueueOK(<<>>, <<>>, now)
  BY <1>1 DEF QueueOK, Ascending, Spaced
<1>4. AllQueuesOK
  BY <1>3 DEF AllQueuesOK, Init
<1>5. ReservationKept /\ TimersMatchSleepers
  BY DEF Init, ReservationKept, TimersMatchSleepers, IsQueued, Idle
<1> QED
  BY <1>2, <1>4, <1>5 DEF IInv

\* A caller record is idle or queued, and the two are told apart by pc.
LEMMA CallShape ==
    ASSUME TypeOK, NEW c \in Callers
    PROVE  /\ IsQueued(c) => /\ call[c].key \in Keys /\ call[c].tokens \in 1 .. Limit
                             /\ call[c].admitAt \in Nat /\ call[c].ticket \in Nat
           /\ ~IsQueued(c) => call[c] = Idle
  BY DEF TypeOK, IsQueued, Idle

\* Steps that leave the sleepers alone and only extend ledgers keep tickets.
LEMMA TicketsKept ==
    ASSUME TypeOK, ReservationKept, TimersMatchSleepers, call' = call, pending' = pending,
           \A q \in Keys : \A i \in 1 .. Len(ledger[q]) :
                i \in 1 .. Len(ledger'[q]) /\ ledger'[q][i] = ledger[q][i]
    PROVE  ReservationKept' /\ TimersMatchSleepers'
<1>1. TimersMatchSleepers'
  BY DEF TimersMatchSleepers, IsQueued
<1>2. ReservationKept'
  <2> SUFFICES ASSUME NEW c \in Callers, IsQueued(c), call[c].ticket > 0
               PROVE  /\ call[c].ticket <= Len(ledger'[call[c].key])
                      /\ ledger'[call[c].key][call[c].ticket] = call[c].admitAt
    BY DEF ReservationKept, IsQueued
  <2>1. /\ call[c].key \in Keys /\ call[c].ticket \in Nat
        /\ call[c].ticket <= Len(ledger[call[c].key])
        /\ ledger[call[c].key][call[c].ticket] = call[c].admitAt
    BY CallShape DEF ReservationKept
  <2>2. ledger[call[c].key] \in Seq(Nat)
    BY <2>1 DEF TypeOK
  <2>3. call[c].ticket \in 1 .. Len(ledger[call[c].key])
    BY <2>1, <2>2
  <2>4. call[c].ticket \in 1 .. Len(ledger'[call[c].key])
    BY <2>1, <2>3
  <2> QED BY <2>1, <2>3, <2>4
<1> QED BY <1>1, <1>2

\* Every action keeps the invariant.
LEMMA StepIInv == IInv /\ [Next]_vars => IInv'
<1> SUFFICES ASSUME IInv, [Next]_vars PROVE IInv'
  OBVIOUS
<1>0. TypeOK /\ AllQueuesOK /\ ReservationKept /\ TimersMatchSleepers
  BY DEF IInv
<1>1. ASSUME NEW c \in Callers, NEW k \in Keys, NEW n \in 1 .. Limit, ConsumeUnlimited(c, k, n)
      PROVE  IInv'
  <2>1. now \in Nat /\ issued[k] \in Seq(Nat) /\ n \in Nat
    BY <1>0, LimiterAssumption DEF TypeOK
  <2>2. Release(issued[k], n, now) \in Seq(Nat)
    BY <2>1, ReleaseType
  <2>3. TypeOK'
    BY <1>0, <1>1, <2>2 DEF TypeOK, ConsumeUnlimited
  <2>4. AllQueuesOK' /\ ReservationKept' /\ TimersMatchSleepers'
    BY <1>0, <1>1 DEF ConsumeUnlimited, AllQueuesOK, ReservationKept, TimersMatchSleepers, IsQueued
  <2> QED BY <2>3, <2>4 DEF IInv
<1>2. ASSUME NEW c \in Callers, NEW k \in Keys, NEW n \in 1 .. Limit, ConsumeNow(c, k, n)
      PROVE  IInv'
  <2>1. now \in Nat /\ issued[k] \in Seq(Nat) /\ n \in Nat
    BY <1>0, LimiterAssumption DEF TypeOK
  <2>2. Release(issued[k], n, now) \in Seq(Nat)
    BY <2>1, ReleaseType
  <2>3. /\ Reserve(k, n) /\ call' = call /\ pending' = pending /\ now' = now
        /\ limits' = limits /\ wasReset' = wasReset
        /\ issued' = [issued EXCEPT ![k] = Release(@, n, now)]
    BY <1>2 DEF ConsumeNow
  <2>4. /\ requests' \in [Keys -> Seq(Nat)] /\ ledger' \in [Keys -> Seq(Nat)] /\ AllQueuesOK'
        /\ \A q \in Keys : \A i \in 1 .. Len(ledger[q]) :
             i \in 1 .. Len(ledger'[q]) /\ ledger'[q][i] = ledger[q][i]
    BY <1>0, <2>3, ReserveStep
  <2>5. ReservationKept' /\ TimersMatchSleepers'
    BY <1>0, <2>3, <2>4, TicketsKept
  <2>6. TypeOK'
    BY <1>0, <2>2, <2>3, <2>4 DEF TypeOK
  <2> QED BY <2>4, <2>5, <2>6 DEF IInv
<1>3. ASSUME NEW c \in Callers, NEW k \in Keys, NEW n \in 1 .. Limit, ConsumeQueued(c, k, n)
      PROVE  IInv'
  <2> DEFINE t == Len(ledger[k]) + n
             at == AdmitAt(k, n)
  <2>1. /\ Reserve(k, n) /\ now' = now /\ limits' = limits /\ wasReset' = wasReset
        /\ issued' = issued /\ pending' = pending \cup {c} /\ ~IsQueued(c)
        /\ call' = [call EXCEPT ![c] = Queued(k, n, at, t)]
    BY <1>3 DEF ConsumeQueued, CanCall
  <2>2. /\ at \in Nat /\ t \in Nat
        /\ requests' \in [Keys -> Seq(Nat)] /\ ledger' \in [Keys -> Seq(Nat)] /\ AllQueuesOK'
        /\ Len(ledger'[k]) = t /\ ledger'[k][t] = at
        /\ \A q \in Keys : \A i \in 1 .. Len(ledger[q]) :
             i \in 1 .. Len(ledger'[q]) /\ ledger'[q][i] = ledger[q][i]
    BY <1>0, <2>1, ReserveStep
  <2> HIDE DEF t, at
  <2>3. /\ call'[c] = Queued(k, n, at, t)
        /\ \A d \in Callers : d # c => call'[d] = call[d]
    BY <1>0, <2>1 DEF TypeOK
  <2>4. TypeOK'
    BY <1>0, <2>1, <2>2 DEF TypeOK, Queued
  <2>5. TimersMatchSleepers'
    <3>1. call'[c].pc = "queued"
      BY <2>3 DEF Queued
    <3> QED BY <1>0, <2>1, <2>3, <3>1 DEF TimersMatchSleepers, IsQueued
  <2>6. ReservationKept'
    <3> SUFFICES ASSUME NEW d \in Callers, IsQueued(d)', call'[d].ticket > 0
                 PROVE  /\ call'[d].ticket <= Len(ledger'[call'[d].key])
                        /\ ledger'[call'[d].key][call'[d].ticket] = call'[d].admitAt
      BY DEF ReservationKept
    <3>1. CASE d = c
      <4>1. call'[d].ticket = t /\ call'[d].key = k /\ call'[d].admitAt = at
        BY <3>1, <2>3 DEF Queued
      <4> QED BY <4>1, <2>2
    <3>2. CASE d # c
      <4>1. call'[d] = call[d] /\ IsQueued(d)
        BY <3>2, <2>3 DEF IsQueued
      <4>2. /\ call[d].key \in Keys /\ call[d].ticket \in Nat
            /\ call[d].ticket <= Len(ledger[call[d].key])
            /\ ledger[call[d].key][call[d].ticket] = call[d].admitAt
        BY <4>1, <1>0, CallShape DEF ReservationKept
      <4>3. ledger[call[d].key] \in Seq(Nat)
        BY <4>2, <1>0 DEF TypeOK
      <4>4. call[d].ticket \in 1 .. Len(ledger[call[d].key])
        BY <4>1, <4>2, <4>3
      <4>5. call[d].ticket \in 1 .. Len(ledger'[call[d].key])
        BY <4>2, <4>4, <2>2
      <4>6. ledger'[call[d].key][call[d].ticket] = ledger[call[d].key][call[d].ticket]
        BY <4>2, <4>4, <2>2
      <4>7. call[d].ticket <= Len(ledger'[call[d].key])
        BY <4>5
      <4> QED BY <4>1, <4>2, <4>6, <4>7
    <3> QED BY <3>1, <3>2
  <2> QED BY <2>2, <2>4, <2>5, <2>6 DEF IInv
<1>4. ASSUME NEW c \in Callers, NEW k \in Keys, NEW n \in 1 .. Limit, ConsumeRejected(c, k, n)
      PROVE  IInv'
  <2>1. /\ requests' = [requests EXCEPT ![k] = Current(k)]
        /\ UNCHANGED <<now, limits, pending, call, ledger, wasReset, issued>>
    BY <1>4 DEF ConsumeRejected
  <2>2. Current(k) \in Seq(Nat) /\ QueueOK(Current(k), ledger[k], now)
    BY <1>0, CurrentWindow
  <2>3. TypeOK'
    BY <1>0, <2>1, <2>2 DEF TypeOK
  <2>4. AllQueuesOK'
    BY <1>0, <2>1, <2>2 DEF AllQueuesOK, TypeOK
  <2>5. ReservationKept' /\ TimersMatchSleepers'
    BY <1>0, <2>1 DEF ReservationKept, TimersMatchSleepers, IsQueued
  <2> QED BY <2>3, <2>4, <2>5 DEF IInv
<1>5. ASSUME NEW c \in Callers, Wake(c)
      PROVE  IInv'
  <2>1. /\ pending' = pending \ {c} /\ call' = [call EXCEPT ![c] = Idle] /\ IsQueued(c)
        /\ issued' = [issued EXCEPT ![call[c].key] = Release(@, call[c].tokens, now)]
        /\ UNCHANGED <<now, limits, requests, ledger, wasReset>>
    BY <1>5 DEF Wake
  <2>2. call[c].key \in Keys /\ call[c].tokens \in Nat
    BY <1>0, <2>1, CallShape, LimiterAssumption
  <2>3. Release(issued[call[c].key], call[c].tokens, now) \in Seq(Nat)
    BY <1>0, <2>2, ReleaseType DEF TypeOK
  <2>4. TypeOK'
    BY <1>0, <2>1, <2>3 DEF TypeOK
  <2>5. /\ call'[c] = Idle /\ \A d \in Callers : d # c => call'[d] = call[d]
    BY <1>0, <2>1 DEF TypeOK
  <2>6. AllQueuesOK'
    BY <1>0, <2>1 DEF AllQueuesOK
  <2>7. TimersMatchSleepers'
    BY <1>0, <2>1, <2>5 DEF TimersMatchSleepers, IsQueued, Idle
  <2>8. ReservationKept'
    BY <1>0, <2>1, <2>5 DEF ReservationKept, IsQueued, Idle
  <2> QED BY <2>4, <2>6, <2>7, <2>8 DEF IInv
<1>6. ASSUME NEW ks \in SUBSET Keys, Reset(ks)
      PROVE  IInv'
  <2>1. UNCHANGED <<now, limits, pending, issued>> /\ wasReset' = wasReset \cup ks
    BY <1>6 DEF Reset
  <2>2. /\ \A k \in Keys : requests'[k] = IF k \in ks THEN <<>> ELSE requests[k]
        /\ \A k \in Keys : ledger'[k] = IF k \in ks THEN <<>> ELSE ledger[k]
        /\ requests' \in [Keys -> Seq(Nat)] /\ ledger' \in [Keys -> Seq(Nat)]
    BY <1>0, <1>6 DEF Reset, TypeOK
  <2>3. \A c \in Callers :
          call'[c] = IF IsQueued(c) /\ call[c].key \in ks
                     THEN [call[c] EXCEPT !.ticket = 0] ELSE call[c]
    BY <1>6 DEF Reset
  <2>4. TypeOK'
    <3>1. call' \in [Callers -> {Idle} \cup
            [pc : {"queued"}, key : Keys, tokens : 1 .. Limit, admitAt : Nat, ticket : Nat]]
      <4> DEFINE Shape == [pc : {"queued"}, key : Keys, tokens : 1 .. Limit,
                           admitAt : Nat, ticket : Nat]
      <4>1. ASSUME NEW c \in Callers PROVE call'[c] \in {Idle} \cup Shape
        <5>1. call[c] \in {Idle} \cup Shape
          BY <1>0 DEF TypeOK
        <5>2. CASE IsQueued(c) /\ call[c].key \in ks
          <6>1. call[c] \in Shape
            BY <5>1, <5>2 DEF IsQueued, Idle
          <6>2. [call[c] EXCEPT !.ticket = 0] \in Shape
            BY <6>1
          <6> QED BY <5>2, <6>2, <2>3
        <5>3. CASE ~(IsQueued(c) /\ call[c].key \in ks)
          BY <5>1, <5>3, <2>3
        <5> QED BY <5>2, <5>3
      <4>2. call' = [c \in Callers |->
            IF IsQueued(c) /\ call[c].key \in ks THEN [call[c] EXCEPT !.ticket = 0] ELSE call[c]]
        BY <1>6 DEF Reset
      <4> QED BY <4>1, <4>2
    <3> QED BY <1>0, <2>1, <2>2, <3>1 DEF TypeOK
  <2>5. AllQueuesOK'
    <3>1. QueueOK(<<>>, <<>>, now)
      BY DEF QueueOK, Ascending, Spaced
    <3> QED BY <1>0, <2>1, <2>2, <3>1 DEF AllQueuesOK
  <2>6. \A c \in Callers : IsQueued(c)' <=> IsQueued(c)
    BY <1>0, <2>3 DEF IsQueued, TypeOK, Idle
  <2>7. TimersMatchSleepers'
    BY <1>0, <2>1, <2>6 DEF TimersMatchSleepers
  <2>8. ReservationKept'
    <3> SUFFICES ASSUME NEW c \in Callers, IsQueued(c)', call'[c].ticket > 0
                 PROVE  /\ call'[c].ticket <= Len(ledger'[call'[c].key])
                        /\ ledger'[call'[c].key][call'[c].ticket] = call'[c].admitAt
      BY DEF ReservationKept
    <3>1. call'[c] = call[c] /\ IsQueued(c) /\ call[c].key \notin ks /\ call[c].key \in Keys
      <4>1. IsQueued(c) /\ call[c].key \in Keys
        BY <1>0, <2>6, CallShape
      <4>2. CASE call[c].key \in ks
        <5>1. call'[c] = [call[c] EXCEPT !.ticket = 0]
          BY <4>1, <4>2, <2>3
        <5>2. call[c] \in [pc : {"queued"}, key : Keys, tokens : 1 .. Limit,
                            admitAt : Nat, ticket : Nat]
          BY <1>0, <4>1 DEF TypeOK, IsQueued, Idle
        <5>3. call'[c].ticket = 0
          BY <5>1, <5>2
        <5> QED BY <5>3
      <4>3. CASE call[c].key \notin ks
        BY <4>1, <4>3, <2>3
      <4> QED BY <4>2, <4>3
    <3>2. ledger'[call[c].key] = ledger[call[c].key]
      BY <2>2, <3>1
    <3> QED BY <1>0, <3>1, <3>2 DEF ReservationKept
  <2> QED BY <2>4, <2>5, <2>7, <2>8 DEF IInv
<1>7. ASSUME Cleanup
      PROVE  IInv'
  <2>1. UNCHANGED <<now, limits, pending, call, ledger, wasReset, issued>>
    BY <1>7 DEF Cleanup
  <2>2. ASSUME NEW k \in Keys
        PROVE  requests'[k] \in Seq(Nat) /\ QueueOK(requests'[k], ledger[k], now)
    <3>1. requests[k] \in Seq(Nat) /\ ledger[k] \in Seq(Nat) /\ now \in Nat
      BY <1>0 DEF TypeOK
    <3>2. QueueOK(requests[k], ledger[k], now)
      BY <1>0 DEF AllQueuesOK
    <3>3. GcAge \in Nat /\ GcAge >= Window
      BY LimiterAssumption
    <3> QED BY <1>7, <3>1, <3>2, <3>3, PruneKeepsQueue DEF Cleanup
  <2>3. requests' \in [Keys -> Seq(Nat)]
    BY <1>7, <2>2 DEF Cleanup
  <2>4. TypeOK'
    BY <1>0, <2>1, <2>3 DEF TypeOK
  <2>5. AllQueuesOK'
    BY <2>1, <2>2 DEF AllQueuesOK
  <2>6. ReservationKept' /\ TimersMatchSleepers'
    BY <1>0, <2>1 DEF ReservationKept, TimersMatchSleepers, IsQueued
  <2> QED BY <2>4, <2>5, <2>6 DEF IInv
<1>8. ASSUME Destroy
      PROVE  IInv'
  <2>1. /\ limits' = {} /\ pending' = {}
        /\ requests' = [k \in Keys |-> <<>>] /\ ledger' = [k \in Keys |-> <<>>]
        /\ call' = [c \in Callers |-> IF c \in pending THEN Idle ELSE call[c]]
        /\ UNCHANGED <<now, wasReset, issued>>
    BY <1>8 DEF Destroy
  <2>2. \A c \in Callers : call'[c] = Idle
    BY <1>0, <2>1, CallShape DEF TimersMatchSleepers
  <2>3. TypeOK'
    BY <1>0, <2>1, <2>2 DEF TypeOK
  <2>4. QueueOK(<<>>, <<>>, now)
    BY DEF QueueOK, Ascending, Spaced
  <2>5. AllQueuesOK'
    BY <2>1, <2>4 DEF AllQueuesOK
  <2>6. ReservationKept' /\ TimersMatchSleepers'
    BY <2>1, <2>2 DEF ReservationKept, TimersMatchSleepers, IsQueued, Idle
  <2> QED BY <2>3, <2>5, <2>6 DEF IInv
<1>9. ASSUME Tick
      PROVE  IInv'
  <2>1. now' = now + 1 /\ UNCHANGED <<limits, requests, pending, call, ledger, wasReset, issued>>
    BY <1>9 DEF Tick
  <2>2. TypeOK'
    BY <1>0, <2>1 DEF TypeOK
  <2>3. AllQueuesOK'
    BY <1>0, <2>1, TickKeepsQueue DEF AllQueuesOK, TypeOK
  <2>4. ReservationKept' /\ TimersMatchSleepers'
    BY <1>0, <2>1 DEF ReservationKept, TimersMatchSleepers, IsQueued
  <2> QED BY <2>2, <2>3, <2>4 DEF IInv
<1>10. CASE UNCHANGED vars
  BY <1>0, <1>10
     DEF vars, IInv, TypeOK, AllQueuesOK, ReservationKept, TimersMatchSleepers, IsQueued
<1>11. Keys \in SUBSET Keys /\ \A k \in Keys : {k} \in SUBSET Keys
  OBVIOUS
<1> QED
  BY <1>1, <1>2, <1>3, <1>4, <1>5, <1>6, <1>7, <1>8, <1>9, <1>10, <1>11
     DEF Next, Consume, Stop
-----------------------------------------------------------------------------
\* The inductive invariant holds in every reachable state.
THEOREM Invariance == Spec => []IInv
BY InitIInv, StepIInv, PTL DEF Spec

\* Type correctness of the limiter, for every configuration.
THEOREM TypeCorrect == Spec => []TypeOK
<1>1. IInv => TypeOK
  BY DEF IInv
<1> QED BY <1>1, Invariance, PTL

\* Calls are admitted in the order they were made.
THEOREM FifoAdmission == Spec => []FifoReservations
<1>1. IInv => FifoReservations
  BY DEF IInv, AllQueuesOK, QueueOK, FifoReservations
<1> QED BY <1>1, Invariance, PTL

\* No interleaving of calls, wake-ups, prunings and collections ever reserves
\* more than Limit tokens within a window.
THEOREM WindowBound == Spec => []WindowNeverOvershot
<1>1. IInv => WindowNeverOvershot
  BY DEF IInv, AllQueuesOK, QueueOK, WindowNeverOvershot
<1> QED BY <1>1, Invariance, PTL

\* A queued caller's reservation stays what its ticket says.
THEOREM ReservationsStay == Spec => []ReservationKept
<1>1. IInv => ReservationKept
  BY DEF IInv
<1> QED BY <1>1, Invariance, PTL

\* There is a timer for exactly the callers asleep in consume.
THEOREM NoOrphanTimer == Spec => []TimersMatchSleepers
<1>1. IInv => TimersMatchSleepers
  BY DEF IInv
<1> QED BY <1>1, Invariance, PTL

\* getRemainingTokens announces exactly the costs consume admits at once.
THEOREM RemainingExact == Spec => []RemainingIsExact
<1>1. ASSUME IInv PROVE RemainingIsExact
  <2> SUFFICES ASSUME NEW k \in limits, NEW n \in 1 .. Limit
               PROVE  (n <= Remaining(k)) <=> (AdmitAt(k, n) = now)
    BY DEF RemainingIsExact
  <2> DEFINE m  == MustExpire(Current(k), n)
             at == AdmitAt(k, n)
             w  == Len(Current(k))
  <2>1. /\ TypeOK /\ AllQueuesOK /\ k \in Keys /\ now \in Nat /\ ledger[k] \in Seq(Nat)
    BY <1>1, LimiterAssumption DEF IInv, TypeOK
  <2>2. /\ Current(k) \in Seq(Nat) /\ Ascending(Current(k))
        /\ QueueOK(Current(k), ledger[k], now)
        /\ \A i \in 1 .. Len(Current(k)) : now - Current(k)[i] < Window
    BY <2>1, CurrentWindow
  <2>3. /\ at \in Nat /\ at >= now
        /\ m > 0 => at > now
        /\ at > now => m > 0
    BY <2>1, <2>2, AdmissionInstant DEF AdmitAt
  <2>4. w \in Nat /\ Limit \in Nat /\ m = w - (Limit - n) /\ n \in Nat
        /\ Remaining(k) = IF w >= Limit THEN 0 ELSE Limit - w
    BY <2>2, LimiterAssumption DEF MustExpire, Remaining
  <2> HIDE DEF m, at, w
  <2>5. (n <= Remaining(k)) <=> ~(m > 0)
    BY <2>4
  <2>6. ~(m > 0) <=> (at = now)
    BY <2>1, <2>3
  <2> QED BY <2>5, <2>6 DEF at
<1> QED BY <1>1, Invariance, PTL
-----------------------------------------------------------------------------
(* The rate limiter implements SlidingWindow: every step of it is a step   *)
(* of the promise, or leaves what was promised alone.                      *)

\* The promise counts as the limiter's module does.
LEMMA SameCount ==
    ASSUME NEW S
    PROVE  Promise!Cardinality(S) = Cardinality(S)
BY DEF Promise!Cardinality, Cardinality

\* Spacing the tokens of an ascending history is bounding every window: the
\* tokens of a window lie among the Limit that follow its first.
LEMMA SpacedIsWithinLimit ==
    ASSUME NEW g \in Seq(Nat), Ascending(g), Spaced(g, Window)
    PROVE  Promise!InOrder(g) /\ Promise!WithinLimit(g)
<1>0. /\ DOMAIN g = 1 .. Len(g) /\ Len(g) \in Nat
      /\ Window \in Nat \ {0} /\ Limit \in Nat \ {0}
      /\ \A i \in 1 .. Len(g) : g[i] \in Nat
  BY LimiterAssumption
<1>1. Promise!InOrder(g)
  BY <1>0 DEF Promise!InOrder, Ascending
<1>2. ASSUME NEW j \in DOMAIN g
      PROVE  Cardinality(Promise!InWindow(g, j)) <= Limit
  <2> DEFINE S == Promise!InWindow(g, j)
  <2>1. j \in S /\ S \in SUBSET (1 .. Len(g)) /\ S \in SUBSET Nat
    BY <1>0 DEF Promise!InWindow
  <2>2. PICK a \in S : \A y \in S : a <= y
    BY <2>1, LeastNat
  <2>3. a \in 1 .. Len(g) /\ a \in Nat /\ g[j] <= g[a]
    BY <2>1, <2>2 DEF Promise!InWindow
  <2>4. ASSUME NEW i \in S PROVE i <= a + Limit - 1
    <3>1. /\ i \in 1 .. Len(g) /\ i \in Nat /\ g[i] < g[j] + Window
      BY <2>1, <2>4 DEF Promise!InWindow
    <3> SUFFICES ASSUME i >= a + Limit PROVE FALSE
      BY <1>0, <2>3, <3>1
    <3>2. a + Limit \in 1 .. Len(g) /\ a + Limit <= Len(g)
      BY <1>0, <2>3, <3>1
    <3>3. g[a + Limit] - g[a] >= Window
      BY <2>3, <3>2 DEF Spaced
    <3>4. g[a + Limit] <= g[i]
      BY <3>1, <3>2 DEF Ascending
    <3>5. /\ g[j] \in Nat /\ g[a] \in Nat /\ g[i] \in Nat /\ g[a + Limit] \in Nat
          /\ Window \in Nat
      BY <1>0, <2>3, <3>1, <3>2
    <3>6. \A x, y, z, w, v \in Nat : ~(x <= y /\ z - y >= v /\ z <= w /\ w < x + v)
      OBVIOUS
    <3>7. g[j] <= g[a] /\ g[i] < g[j] + Window
      BY <2>3, <3>1
    <3> QED BY <3>3, <3>4, <3>5, <3>6, <3>7
  <2>5. S \in SUBSET (a .. (a + Limit - 1))
    BY <2>1, <2>2, <2>3, <2>4
  <2>6. /\ IsFiniteSet(a .. (a + Limit - 1))
        /\ Cardinality(a .. (a + Limit - 1)) = Limit
    <3> DEFINE b == a + Limit - 1
    <3>1. a \in Int /\ b \in Int /\ a <= b /\ b - a + 1 = Limit
      BY <1>0, <2>3
    <3> HIDE DEF b
    <3>2. IsFiniteSet(a .. b) /\ Cardinality(a .. b) = IF a > b THEN 0 ELSE b - a + 1
      BY <3>1, FS_Interval, Zenon
    <3>3. ~(a > b)
      BY <3>1
    <3>4. IsFiniteSet(a .. b) /\ Cardinality(a .. b) = Limit
      BY <3>1, <3>2, <3>3
    <3> QED BY <3>4 DEF b
  <2> QED BY ZenonT(60), <2>5, <2>6, FS_Subset
<1>3. Promise!WithinLimit(g)
  BY <1>2, SameCount DEF Promise!WithinLimit
<1> QED BY <1>1, <1>3

\* Whoever is granted tokens, the history they join is one the promise allows.
LEMMA GrantStep ==
    ASSUME IInv, IInv', NEW k \in Keys, NEW n \in 1 .. Limit, Reserve(k, n), now' = now
    PROVE  Promise!Grant(k, n, AdmitAt(k, n))
<1>1. TypeOK /\ TypeOK' /\ AllQueuesOK'
  BY DEF IInv
<1> DEFINE g == ledger[k] \o Repeat(AdmitAt(k, n), n)
<1>2. ledger' = [ledger EXCEPT ![k] = g] /\ ledger'[k] = g
  BY <1>1 DEF Reserve, TypeOK
<1>3. ledger'[k] \in Seq(Nat) /\ Ascending(ledger'[k]) /\ Spaced(ledger'[k], Window)
  BY <1>1 DEF TypeOK, AllQueuesOK, QueueOK
<1>4. Promise!InOrder(g) /\ Promise!WithinLimit(g)
  BY <1>2, <1>3, SpacedIsWithinLimit
<1> QED BY <1>2, <1>4 DEF Promise!Grant, Repeat

\* The limiter starts as the promise does.
LEMMA PromiseInit == Init => Promise!Init
BY DEF Init, Promise!Init, Waiting, IsQueued, Idle

\* Every step keeps the promise.
LEMMA PromiseStep ==
    IInv /\ IInv' /\ [Next]_vars => [Promise!Next]_(Promise!promise)
<1> SUFFICES ASSUME IInv, IInv', [Next]_vars PROVE [Promise!Next]_(Promise!promise)
  OBVIOUS
<1>0. TypeOK /\ AllQueuesOK /\ TimersMatchSleepers
  BY DEF IInv
<1>1. ASSUME UNCHANGED <<now, call, ledger>>
      PROVE  UNCHANGED Promise!promise
  BY <1>1 DEF Promise!promise, Waiting, IsQueued
<1>2. ASSUME NEW c \in Callers, NEW k \in Keys, NEW n \in 1 .. Limit, ConsumeNow(c, k, n)
      PROVE  Promise!Next
  <2>1. Reserve(k, n) /\ now' = now /\ call' = call /\ AdmitAt(k, n) = now
    BY <1>2 DEF ConsumeNow
  <2>2. Promise!Grant(k, n, now)
    BY <2>1, GrantStep
  <2>3. UNCHANGED Waiting
    BY <2>1 DEF Waiting, IsQueued
  <2> QED BY <2>2, <2>3 DEF Promise!Next, Promise!AdmitNow
<1>3. ASSUME NEW c \in Callers, NEW k \in Keys, NEW n \in 1 .. Limit, ConsumeQueued(c, k, n)
      PROVE  Promise!Next
  <2> DEFINE at == AdmitAt(k, n)
  <2>1. /\ Reserve(k, n) /\ now' = now /\ at > now /\ ~IsQueued(c)
        /\ call' = [call EXCEPT ![c] = Queued(k, n, at, Len(ledger[k]) + n)]
    BY <1>3 DEF ConsumeQueued, CanCall
  <2>2. Promise!Grant(k, n, at)
    BY <2>1, GrantStep
  <2> HIDE DEF at
  <2>3. /\ call'[c].pc = "queued" /\ call'[c].admitAt = at
        /\ \A d \in Callers : d # c => call'[d] = call[d]
    BY <1>0, <2>1 DEF TypeOK, Queued
  <2>4. Waiting' = Waiting \cup {<<c, at>>}
    BY <2>1, <2>3 DEF Waiting, IsQueued
  <2>5. \A p \in Waiting : p[1] # c
    BY <2>1 DEF Waiting
  <2>6. <<c, at>> \in Waiting' \ Waiting
    BY <2>4, <2>5
  <2>7. Promise!AdmitLater(c, k, n, at)
    BY <2>1, <2>2, <2>4, <2>5 DEF Promise!AdmitLater
  <2> QED BY <2>6, <2>7 DEF Promise!Next
<1>4. ASSUME NEW c \in Callers, Wake(c)
      PROVE  Promise!Next
  <2>1. /\ IsQueued(c) /\ now >= call[c].admitAt /\ UNCHANGED <<now, ledger>>
        /\ call' = [call EXCEPT ![c] = Idle]
    BY <1>4 DEF Wake
  <2>2. /\ call'[c].pc = "idle" /\ \A d \in Callers : d # c => call'[d] = call[d]
    BY <1>0, <2>1 DEF TypeOK, Idle
  <2>3. Waiting' = Waiting \ {<<c, call[c].admitAt>>}
    BY <2>1, <2>2 DEF Waiting, IsQueued
  <2>4. <<c, call[c].admitAt>> \in Waiting
    BY <2>1 DEF Waiting
  <2>5. call[c].admitAt \in Nat /\ now \in Nat
    BY <1>0, <2>1, CallShape DEF TypeOK
  <2>6. Promise!LetGo(c, call[c].admitAt)
    BY <2>1, <2>3, <2>4, <2>5 DEF Promise!LetGo
  <2> QED BY <2>4, <2>6 DEF Promise!Next
<1>5. ASSUME NEW ks \in SUBSET Keys, Reset(ks)
      PROVE  Promise!Next
  <2>1. /\ ledger' = [k \in Keys |-> IF k \in ks THEN <<>> ELSE ledger[k]]
        /\ now' = now
        /\ call' = [c \in Callers |->
            IF IsQueued(c) /\ call[c].key \in ks THEN [call[c] EXCEPT !.ticket = 0] ELSE call[c]]
    BY <1>5 DEF Reset
  <2>2. ASSUME NEW c \in Callers
        PROVE  (IsQueued(c)' <=> IsQueued(c)) /\ (IsQueued(c) => call'[c].admitAt = call[c].admitAt)
    BY <1>0, <2>1 DEF TypeOK, IsQueued, Idle
  <2>3. Waiting' = Waiting
    BY <2>2 DEF Waiting
  <2> QED BY <2>1, <2>3 DEF Promise!Next, Promise!Forget
<1>6. ASSUME Destroy
      PROVE  Promise!Next
  <2>1. /\ now' = now /\ ledger' = [k \in Keys |-> <<>>]
        /\ call' = [c \in Callers |-> IF c \in pending THEN Idle ELSE call[c]]
    BY <1>6 DEF Destroy
  <2>2. \A c \in Callers : call'[c] = Idle
    BY <1>0, <2>1, CallShape DEF TimersMatchSleepers
  <2>3. Waiting' = {}
    BY <2>2 DEF Waiting, IsQueued, Idle
  <2> QED BY <2>1, <2>3 DEF Promise!Next, Promise!Close
<1>7. ASSUME Tick
      PROVE  Promise!Next
  BY <1>7 DEF Tick, Promise!Next, Promise!Advance, Waiting, IsQueued
<1>8. ASSUME Cleanup \/ Stop \/ UNCHANGED vars
             \/ \E c \in Callers, k \in Keys, n \in 1 .. Limit :
                    ConsumeUnlimited(c, k, n) \/ ConsumeRejected(c, k, n)
      PROVE  UNCHANGED <<now, call, ledger>>
  BY <1>8 DEF Cleanup, Stop, vars, ConsumeUnlimited, ConsumeRejected
<1>9. Keys \in SUBSET Keys /\ \A k \in Keys : {k} \in SUBSET Keys
  OBVIOUS
<1> QED
  BY <1>1, <1>2, <1>3, <1>4, <1>5, <1>6, <1>7, <1>8, <1>9 DEF Next, Consume

\* The limiter implements the promise of a sliding window, for every limit,
\* window, lateness and interleaving of its callers.
THEOREM Implements == Spec => KeepsPromise
BY PromiseInit, PromiseStep, Invariance, PTL DEF Spec, KeepsPromise, Promise!Spec
-----------------------------------------------------------------------------
(* The platform's view: what is released against what was reserved.        *)

\* The tokens a sleeping caller has reserved in the history of its key.
Held(c) == (call[c].ticket - call[c].tokens + 1) .. call[c].ticket

Sleeps(c, k) == IsQueued(c) /\ call[c].key = k

\* f names, for each release in s, its own reservation in g: the release was
\* neither early nor more than MaxLateness late.
Matches(f, s, g) ==
    /\ f \in [1 .. Len(s) -> 1 .. Len(g)]
    /\ \A i, j \in 1 .. Len(s) : f[i] = f[j] => i = j
    /\ \A i \in 1 .. Len(s) : g[f[i]] <= s[i] /\ s[i] <= g[f[i]] + MaxLateness

\* Sleepers hold reservations of their own, at the instant they sleep until.
SleepersHold(k) ==
    /\ \A c \in Callers : Sleeps(c, k) =>
        /\ call[c].tokens <= call[c].ticket
        /\ call[c].ticket <= Len(ledger[k])
        /\ \A x \in Held(c) : ledger[k][x] = call[c].admitAt
    /\ \A c, d \in Callers : Sleeps(c, k) /\ Sleeps(d, k) /\ c # d =>
        \A x \in Held(c) : x \notin Held(d)

\* The last releases are ordered, past, and of reservations nobody holds now.
ReleasesMatch(k) ==
    /\ Ascending(issued[k])
    /\ \A i \in 1 .. Len(issued[k]) : issued[k][i] <= now
    /\ \E f : /\ Matches(f, issued[k], ledger[k])
              /\ \A c \in Callers : Sleeps(c, k) =>
                    \A i \in 1 .. Len(issued[k]) : f[i] \notin Held(c)

\* No timer is overdue by more than MaxLateness.
OnTime == \A c \in Callers : IsQueued(c) => now <= call[c].admitAt + MaxLateness

PlatformInv ==
    /\ OnTime
    /\ \A k \in limits \ wasReset : SleepersHold(k) /\ ReleasesMatch(k)

\* Which release each entry of the kept ones is: the tail of the old ones and
\* then the n new.
LEMMA ReleaseShape ==
    ASSUME NEW s \in Seq(Nat), NEW n \in Nat, NEW t \in Nat
    PROVE  LET r == Release(s, n, t)
               o == Len(s) + n - Len(r)
           IN  /\ r \in Seq(Nat) /\ o \in Nat
               /\ \A i \in 1 .. Len(r) :
                    /\ i + o \in 1 .. (Len(s) + n)
                    /\ r[i] = IF i + o <= Len(s) THEN s[i + o] ELSE t
<1> DEFINE all == s \o Repeat(t, n)
           r == Release(s, n, t)
           o == Len(s) + n - Len(r)
<1>1. /\ all \in Seq(Nat)
      /\ Len(all) = Len(s) + n
      /\ \A i \in 1 .. Len(s) : all[i] = s[i]
      /\ \A i \in 1 .. (Len(s) + n) : i > Len(s) => all[i] = t
  BY AppendRepeat
<1>2. r = IF Len(all) > Limit + 1 THEN SubSeq(all, Len(all) - Limit, Len(all)) ELSE all
  BY DEF Release
<1>3. Limit \in Nat \ {0} /\ Len(s) \in Nat
  BY LimiterAssumption
<1> HIDE DEF all
<1>4. /\ r \in Seq(Nat) /\ Len(r) \in Nat /\ o \in Nat
      /\ \A i \in 1 .. Len(r) : i + o \in 1 .. (Len(s) + n) /\ r[i] = all[i + o]
  <2>1. CASE Len(all) > Limit + 1
    <3> DEFINE a == Len(all) - Limit
               b == Len(all)
    <3>1. /\ a \in 1 .. b /\ b \in Nat /\ b - a + 1 = Limit + 1 /\ r = SubSeq(all, a, b)
          /\ b = Len(all) /\ b = Len(s) + n
      BY SMTT(30), <1>1, <1>2, <1>3, <2>1
    <3> HIDE DEF a, b, r
    <3>2. /\ SubSeq(all, a, b) \in Seq(Nat)
          /\ Len(SubSeq(all, a, b)) = b - a + 1
          /\ \A i \in 1 .. (b - a + 1) : SubSeq(all, a, b)[i] = all[a + i - 1]
      BY SMTT(30), <1>1, <3>1
    <3>3. r \in Seq(Nat) /\ Len(r) = Limit + 1 /\ o = a - 1
      BY <1>1, <1>3, <3>1, <3>2
    <3> HIDE DEF o
    <3>4. ASSUME NEW i \in 1 .. Len(r)
          PROVE  i + o \in 1 .. (Len(s) + n) /\ r[i] = all[i + o]
      <4>1. i + o = a + i - 1 /\ i \in 1 .. (b - a + 1)
        BY <1>3, <3>1, <3>3
      <4>2. i + o \in 1 .. (Len(s) + n)
        BY <1>3, <3>1, <3>3
      <4> QED BY <3>1, <3>2, <4>1, <4>2
    <3>5. Len(r) \in Nat /\ o \in Nat
      BY <1>3, <3>1, <3>3
    <3> QED BY <3>3, <3>4, <3>5
  <2>2. CASE ~(Len(all) > Limit + 1)
    <3>1. r = all /\ Len(r) = Len(s) + n
      BY <1>1, <1>2, <2>2
    <3> HIDE DEF r
    <3>2. o = 0
      BY <1>3, <3>1
    <3> HIDE DEF o
    <3>3. ASSUME NEW i \in 1 .. Len(r)
          PROVE  i + o \in 1 .. (Len(s) + n) /\ r[i] = all[i + o]
      <4>1. i + o = i /\ i \in 1 .. (Len(s) + n)
        BY <3>1, <3>2
      <4> QED BY <3>1, <4>1
    <3>4. r \in Seq(Nat) /\ Len(r) \in Nat /\ o \in Nat
      BY <1>1, <1>3, <3>1, <3>2
    <3> QED BY <3>3, <3>4
  <2> QED BY <2>1, <2>2
<1> HIDE DEF r, o
<1>5. ASSUME NEW i \in 1 .. Len(r)
      PROVE  /\ i + o \in 1 .. (Len(s) + n)
             /\ r[i] = IF i + o <= Len(s) THEN s[i + o] ELSE t
  <2>1. i + o \in 1 .. (Len(s) + n) /\ r[i] = all[i + o]
    BY <1>4
  <2> DEFINE x == i + o
  <2> HIDE DEF x
  <2>2. x \in 1 .. (Len(s) + n) /\ r[i] = all[x]
    BY <2>1 DEF x
  <2>3. r[i] = IF x <= Len(s) THEN s[x] ELSE t
    BY <1>1, <1>3, <2>2
  <2> QED BY <2>1, <2>3 DEF x
<1> QED BY <1>4, <1>5 DEF r, o

\* r extends the releases s, which f matched to g, by some at t which are of the
\* n reservations that follow the b-th.
Extends(r, s, g, f, t, b, n) ==
    /\ Ascending(r)
    /\ \A i \in 1 .. Len(r) : r[i] <= t
    /\ \E h : /\ Matches(h, r, g)
              /\ \A i \in 1 .. Len(r) :
                   \/ h[i] \in (b + 1) .. (b + n)
                   \/ \E j \in 1 .. Len(s) : h[i] = f[j]

\* Releasing n tokens at t, whose reservations follow the b-th of g, keeps the
\* releases matched.
LEMMA ReleaseMatches ==
    ASSUME NEW s \in Seq(Nat), NEW g \in Seq(Nat), NEW t \in Nat, NEW n \in Nat,
           NEW b \in Nat, b + n <= Len(g), NEW f, Matches(f, s, g), Ascending(s),
           \A i \in 1 .. Len(s) : s[i] <= t,
           \A i \in 1 .. Len(s) : f[i] \notin (b + 1) .. (b + n),
           \A x \in (b + 1) .. (b + n) : g[x] <= t /\ t <= g[x] + MaxLateness
    PROVE  Extends(Release(s, n, t), s, g, f, t, b, n)
<1> DEFINE r == Release(s, n, t)
           o == Len(s) + n - Len(r)
<1>1. /\ r \in Seq(Nat) /\ o \in Nat
      /\ \A i \in 1 .. Len(r) :
           /\ i + o \in 1 .. (Len(s) + n)
           /\ r[i] = IF i + o <= Len(s) THEN s[i + o] ELSE t
  BY ReleaseShape
<1>2. /\ Len(s) \in Nat /\ Len(g) \in Nat /\ Len(r) \in Nat /\ MaxLateness \in Nat
      /\ \A i \in 1 .. Len(s) : s[i] \in Nat
      /\ \A i \in 1 .. Len(g) : g[i] \in Nat
  BY SMTT(30), <1>1, LimiterAssumption
<1> HIDE DEF r, o
<1>3. ASSUME NEW i \in 1 .. Len(r)
      PROVE  r[i] <= t
  <2>1. CASE i + o <= Len(s)
    <3>1. i + o \in 1 .. Len(s) /\ r[i] = s[i + o]
      BY <1>1, <1>2, <2>1
    <3> QED BY <3>1
  <2>2. CASE ~(i + o <= Len(s))
    BY <1>1, <2>2
  <2> QED BY <2>1, <2>2
<1>4. ASSUME NEW i \in 1 .. Len(r), NEW j \in 1 .. Len(r), i <= j
      PROVE  r[i] <= r[j]
  <2>1. CASE j + o <= Len(s)
    <3>1. i + o \in 1 .. (Len(s) + n) /\ j + o \in 1 .. (Len(s) + n)
      BY <1>1
    <3>2. i + o \in 1 .. Len(s) /\ j + o \in 1 .. Len(s) /\ i + o <= j + o
      BY <1>1, <1>2, <1>4, <2>1, <3>1
    <3>3. r[i] = s[i + o] /\ r[j] = s[j + o]
      BY <1>1, <3>2
    <3> QED BY <3>2, <3>3 DEF Ascending
  <2>2. CASE ~(j + o <= Len(s))
    BY <1>1, <1>3, <2>2
  <2> QED BY <2>1, <2>2
<1> DEFINE h == [i \in 1 .. Len(r) |->
                   IF i + o <= Len(s) THEN f[i + o] ELSE b + (i + o - Len(s))]
<1>5. ASSUME NEW i \in 1 .. Len(r)
      PROVE  /\ h[i] \in 1 .. Len(g)
             /\ i + o <= Len(s) => /\ i + o \in 1 .. Len(s) /\ h[i] = f[i + o]
                                   /\ h[i] \notin (b + 1) .. (b + n)
             /\ ~(i + o <= Len(s)) => /\ h[i] = b + (i + o - Len(s))
                                      /\ h[i] \in (b + 1) .. (b + n)
             /\ g[h[i]] <= r[i] /\ r[i] <= g[h[i]] + MaxLateness
  <2>0. i \in Nat /\ i + o \in 1 .. (Len(s) + n)
    BY <1>1
  <2>1. CASE i + o <= Len(s)
    <3>1. i + o \in 1 .. Len(s) /\ h[i] = f[i + o] /\ r[i] = s[i + o]
      BY <1>1, <1>2, <2>0, <2>1
    <3>2. f[i + o] \in 1 .. Len(g) /\ f[i + o] \notin (b + 1) .. (b + n)
      BY <3>1 DEF Matches
    <3>3. g[f[i + o]] <= s[i + o] /\ s[i + o] <= g[f[i + o]] + MaxLateness
      BY <3>1 DEF Matches
    <3> HIDE DEF h
    <3> QED BY <2>1, <3>1, <3>2, <3>3
  <2>2. CASE ~(i + o <= Len(s))
    <3>1. h[i] = b + (i + o - Len(s)) /\ r[i] = t
      BY <1>1, <2>2
    <3>2. b + (i + o - Len(s)) \in (b + 1) .. (b + n)
      BY <1>1, <1>2, <2>0, <2>2
    <3> HIDE DEF h
    <3>3. h[i] \in (b + 1) .. (b + n) /\ h[i] \in 1 .. Len(g)
      BY SMTT(30), <1>2, <3>1, <3>2
    <3> QED BY <2>2, <3>1, <3>3
  <2> QED BY <2>1, <2>2
<1>6. h \in [1 .. Len(r) -> 1 .. Len(g)]
  BY <1>5
<1> HIDE DEF h
<1>7. ASSUME NEW i \in 1 .. Len(r), NEW j \in 1 .. Len(r), h[i] = h[j]
      PROVE  i = j
  <2>1. CASE i + o <= Len(s) /\ j + o <= Len(s)
    <3>1. /\ i + o \in 1 .. Len(s) /\ j + o \in 1 .. Len(s) /\ f[i + o] = f[j + o]
      BY <1>5, <1>7, <2>1
    <3>2. i + o = j + o
      BY <3>1 DEF Matches
    <3> QED BY <1>1, <3>2
  <2>2. CASE ~(i + o <= Len(s)) /\ ~(j + o <= Len(s))
    <3>1. b + (i + o - Len(s)) = b + (j + o - Len(s))
      BY <1>5, <1>7, <2>2
    <3> QED BY <1>1, <1>2, <3>1
  <2>3. CASE (i + o <= Len(s)) # (j + o <= Len(s))
    BY SMTT(30), <1>5, <1>7, <2>3
  <2> QED BY <2>1, <2>2, <2>3
<1>8. Matches(h, r, g)
  BY <1>5, <1>6, <1>7 DEF Matches
<1>9. \A i \in 1 .. Len(r) :
         \/ h[i] \in (b + 1) .. (b + n)
         \/ \E j \in 1 .. Len(s) : h[i] = f[j]
  BY <1>5
<1>10. Ascending(r)
  BY <1>4 DEF Ascending
<1> QED BY <1>3, <1>8, <1>9, <1>10 DEF r, Extends

\* What the sleepers of a key hold is untouched by a step that lets its history
\* grow and puts nobody to sleep on it.
LEMMA SleepersFrame ==
    ASSUME NEW k \in Keys, SleepersHold(k), TypeOK, TypeOK',
           \A c \in Callers : Sleeps(c, k)' => Sleeps(c, k) /\ call'[c] = call[c],
           \A i \in 1 .. Len(ledger[k]) :
                i \in 1 .. Len(ledger'[k]) /\ ledger'[k][i] = ledger[k][i]
    PROVE  SleepersHold(k)'
<1>0. /\ ledger[k] \in Seq(Nat) /\ Len(ledger[k]) \in Nat
      /\ ledger'[k] \in Seq(Nat) /\ Len(ledger'[k]) \in Nat
  BY DEF TypeOK
<1>1. ASSUME NEW c \in Callers, Sleeps(c, k)'
      PROVE  /\ call'[c].tokens <= call'[c].ticket
             /\ call'[c].ticket <= Len(ledger'[k])
             /\ \A x \in Held(c)' : ledger'[k][x] = call'[c].admitAt
  <2>1. Sleeps(c, k) /\ call'[c] = call[c] /\ Held(c)' = Held(c)
    BY <1>1 DEF Held
  <2>2. call[c].tokens \in 1 .. Limit /\ call[c].ticket \in Nat
    BY <2>1, CallShape DEF Sleeps
  <2>3. /\ call[c].tokens <= call[c].ticket
        /\ call[c].ticket <= Len(ledger[k])
        /\ \A x \in Held(c) : ledger[k][x] = call[c].admitAt
    BY <2>1 DEF SleepersHold
  <2>4. call[c].ticket \in 1 .. Len(ledger[k])
    BY <1>0, <2>2, <2>3, LimiterAssumption
  <2>5. call[c].ticket \in 1 .. Len(ledger'[k])
    BY <2>4
  <2>6. \A x \in Held(c) : x \in 1 .. Len(ledger[k])
    BY SMTT(30), <1>0, <2>2, <2>3, LimiterAssumption DEF Held
  <2> QED BY SMTT(30), <1>0, <2>1, <2>3, <2>5, <2>6
<1>2. ASSUME NEW c \in Callers, NEW d \in Callers, Sleeps(c, k)', Sleeps(d, k)', c # d
      PROVE  \A x \in Held(c)' : x \notin Held(d)'
  <2>1. Sleeps(c, k) /\ Sleeps(d, k) /\ Held(c)' = Held(c) /\ Held(d)' = Held(d)
    BY <1>2 DEF Held
  <2> QED BY <1>2, <2>1 DEF SleepersHold
<1> QED BY <1>1, <1>2 DEF SleepersHold

\* Nor are the releases of a key, when nothing is released on it.
LEMMA ReleasesFrame ==
    ASSUME NEW k \in Keys, ReleasesMatch(k), TypeOK, TypeOK', now' >= now,
           issued'[k] = issued[k],
           \A c \in Callers : Sleeps(c, k)' =>
                \/ Sleeps(c, k) /\ call'[c] = call[c]
                \/ \A x \in Held(c)' : x \notin 1 .. Len(ledger[k]),
           \A i \in 1 .. Len(ledger[k]) :
                i \in 1 .. Len(ledger'[k]) /\ ledger'[k][i] = ledger[k][i]
    PROVE  ReleasesMatch(k)'
<1> DEFINE s == issued[k]
<1>0. now \in Nat /\ now' \in Nat /\ s \in Seq(Nat) /\ \A i \in 1 .. Len(s) : s[i] \in Nat
  BY DEF TypeOK
<1>1. PICK f : /\ Matches(f, s, ledger[k])
               /\ \A c \in Callers : Sleeps(c, k) =>
                     \A i \in 1 .. Len(s) : f[i] \notin Held(c)
  BY DEF ReleasesMatch
<1>2. \A i \in 1 .. Len(s) : f[i] \in 1 .. Len(ledger[k])
  BY <1>1 DEF Matches
<1>3. f \in [1 .. Len(s) -> 1 .. Len(ledger'[k])]
  BY <1>1, <1>2 DEF Matches
<1>4. Matches(f, s, ledger'[k])
  BY <1>1, <1>2, <1>3 DEF Matches
<1>5. ASSUME NEW c \in Callers, Sleeps(c, k)', NEW i \in 1 .. Len(s)
      PROVE  f[i] \notin Held(c)'
  <2>1. CASE Sleeps(c, k) /\ call'[c] = call[c]
    BY <1>1, <2>1 DEF Held
  <2>2. CASE \A x \in Held(c)' : x \notin 1 .. Len(ledger[k])
    BY <1>2, <2>2
  <2> QED BY <1>5, <2>1, <2>2
<1>6. Ascending(s) /\ \A i \in 1 .. Len(s) : s[i] <= now'
  BY <1>0 DEF ReleasesMatch
<1> QED BY <1>4, <1>5, <1>6 DEF ReleasesMatch

\* A release on a key of tokens that nobody else holds.
LEMMA ReleaseStep ==
    ASSUME NEW k \in Keys, NEW n \in Nat, NEW b \in Nat, ReleasesMatch(k), TypeOK, TypeOK',
           now' = now, issued'[k] = Release(issued[k], n, now),
           b + n <= Len(ledger'[k]),
           \A x \in (b + 1) .. (b + n) :
                ledger'[k][x] <= now /\ now <= ledger'[k][x] + MaxLateness,
           \/ Len(ledger[k]) <= b
           \/ \E c \in Callers : Sleeps(c, k) /\ Held(c) = (b + 1) .. (b + n),
           \A c \in Callers : Sleeps(c, k)' =>
                /\ Sleeps(c, k) /\ call'[c] = call[c]
                /\ \A x \in (b + 1) .. (b + n) : x \notin Held(c),
           \A i \in 1 .. Len(ledger[k]) :
                i \in 1 .. Len(ledger'[k]) /\ ledger'[k][i] = ledger[k][i]
    PROVE  ReleasesMatch(k)'
<1> DEFINE s == issued[k]
           g == ledger'[k]
           r == Release(s, n, now)
<1>0. /\ now \in Nat /\ s \in Seq(Nat) /\ g \in Seq(Nat) /\ Len(s) \in Nat
      /\ Len(ledger[k]) \in Nat
  BY DEF TypeOK
<1>1. PICK f : /\ Matches(f, s, ledger[k])
               /\ \A c \in Callers : Sleeps(c, k) =>
                     \A i \in 1 .. Len(s) : f[i] \notin Held(c)
  BY DEF ReleasesMatch
<1>2. \A i \in 1 .. Len(s) : f[i] \in 1 .. Len(ledger[k])
  BY <1>1 DEF Matches
<1>3. f \in [1 .. Len(s) -> 1 .. Len(g)]
  BY <1>1, <1>2 DEF Matches
<1>4. Matches(f, s, g)
  BY <1>1, <1>2, <1>3 DEF Matches
<1>5. \A i \in 1 .. Len(s) : f[i] \notin (b + 1) .. (b + n)
  <2>1. CASE Len(ledger[k]) <= b
    BY <1>0, <1>2, <2>1
  <2>2. CASE \E c \in Callers : Sleeps(c, k) /\ Held(c) = (b + 1) .. (b + n)
    BY <1>1, <2>2
  <2> QED BY <2>1, <2>2
<1>6. Ascending(s) /\ \A i \in 1 .. Len(s) : s[i] <= now
  BY DEF ReleasesMatch
<1>a. /\ b + n <= Len(g)
      /\ \A x \in (b + 1) .. (b + n) : g[x] <= now /\ now <= g[x] + MaxLateness
  OBVIOUS
<1> HIDE DEF s, g
<1>7. Extends(r, s, g, f, now, b, n)
  BY <1>0, <1>4, <1>5, <1>6, <1>a, ReleaseMatches
<1>8. PICK h : /\ Matches(h, r, g)
               /\ \A i \in 1 .. Len(r) :
                    \/ h[i] \in (b + 1) .. (b + n)
                    \/ \E j \in 1 .. Len(s) : h[i] = f[j]
  BY <1>7 DEF Extends
<1>9. issued'[k] = r
  BY DEF s
<1> HIDE DEF r
<1>10. ASSUME NEW c \in Callers, Sleeps(c, k)', NEW i \in 1 .. Len(r)
       PROVE  h[i] \notin Held(c)'
  <2>1. /\ Sleeps(c, k) /\ Held(c)' = Held(c)
        /\ \A x \in (b + 1) .. (b + n) : x \notin Held(c)
    BY <1>10 DEF Held
  <2>2. \A j \in 1 .. Len(s) : f[j] \notin Held(c)
    BY <1>1, <2>1 DEF s
  <2> QED BY <1>8, <2>1, <2>2
<1> QED BY <1>7, <1>8, <1>9, <1>10 DEF ReleasesMatch, Extends, g

LEMMA PlatformInit == Init => PlatformInv
<1> SUFFICES ASSUME Init PROVE PlatformInv
  OBVIOUS
<1>1. \A c \in Callers : ~IsQueued(c)
  BY DEF Init, IsQueued, Idle
<1>2. ASSUME NEW k \in Keys PROVE SleepersHold(k) /\ ReleasesMatch(k)
  <2>1. issued[k] = <<>> /\ ledger[k] = <<>> /\ Len(<<>>) = 0
    BY DEF Init
  <2>2. Matches([i \in 1 .. 0 |-> 0], <<>>, <<>>)
    BY DEF Matches
  <2> QED BY <1>1, <2>1, <2>2 DEF SleepersHold, ReleasesMatch, Sleeps, Ascending
<1>3. limits \subseteq Keys
  BY LimiterAssumption DEF Init
<1> QED BY <1>1, <1>2, <1>3 DEF PlatformInv, OnTime

\* A step that neither reserves nor releases anything.
LEMMA PlatformFrame ==
    ASSUME IInv, IInv', PlatformInv, NEW k \in Keys, k \in limits \ wasReset,
           now' >= now, issued'[k] = issued[k], ledger'[k] = ledger[k],
           \A c \in Callers : Sleeps(c, k)' => Sleeps(c, k) /\ call'[c] = call[c]
    PROVE  SleepersHold(k)' /\ ReleasesMatch(k)'
<1>1. TypeOK /\ TypeOK' /\ SleepersHold(k) /\ ReleasesMatch(k)
  BY DEF IInv, PlatformInv
<1> QED BY <1>1, SleepersFrame, ReleasesFrame

LEMMA PlatformStep == IInv /\ IInv' /\ PlatformInv /\ [Next]_vars => PlatformInv'
<1> SUFFICES ASSUME IInv, IInv', PlatformInv, [Next]_vars PROVE PlatformInv'
  OBVIOUS
<1>0. /\ TypeOK /\ TypeOK' /\ AllQueuesOK /\ TimersMatchSleepers /\ OnTime
      /\ limits \subseteq Keys /\ now \in Nat
      /\ \A k \in limits \ wasReset : SleepersHold(k) /\ ReleasesMatch(k)
  BY LimiterAssumption DEF IInv, PlatformInv, TypeOK
<1>1. ASSUME NEW c \in Callers, NEW k \in Keys, NEW n \in 1 .. Limit, ConsumeUnlimited(c, k, n)
      PROVE  PlatformInv'
  <2>1. /\ k \notin limits /\ UNCHANGED <<now, limits, call, ledger, wasReset>>
        /\ \A q \in Keys : q # k => issued'[q] = issued[q]
    BY <1>0, <1>1 DEF ConsumeUnlimited, TypeOK
  <2>2. ASSUME NEW q \in limits \ wasReset PROVE SleepersHold(q)' /\ ReleasesMatch(q)'
    BY <1>0, <2>1, PlatformFrame DEF Sleeps, IsQueued
  <2> QED BY <1>0, <2>1, <2>2 DEF PlatformInv, OnTime, IsQueued
<1>2. ASSUME NEW c \in Callers, NEW k \in Keys, NEW n \in 1 .. Limit, ConsumeNow(c, k, n)
      PROVE  PlatformInv'
  <2>0. PICK b \in Nat : b = Len(ledger[k])
    BY <1>0 DEF TypeOK
  <2>1. /\ Reserve(k, n) /\ UNCHANGED <<now, limits, call, wasReset>> /\ AdmitAt(k, n) = now
        /\ issued'[k] = Release(issued[k], n, now)
        /\ \A q \in Keys : q # k => issued'[q] = issued[q] /\ ledger'[q] = ledger[q]
    BY <1>0, <1>2 DEF ConsumeNow, Reserve, TypeOK
  <2>2. /\ ledger'[k] = ledger[k] \o Repeat(now, n)
        /\ b \in Nat /\ n \in Nat /\ MaxLateness \in Nat
    BY <1>0, <2>1, LimiterAssumption DEF Reserve, TypeOK
  <2>3. /\ Len(ledger'[k]) = b + n
        /\ \A i \in 1 .. b : ledger'[k][i] = ledger[k][i]
        /\ \A i \in 1 .. (b + n) : i > b => ledger'[k][i] = now
    <3>1. ledger[k] \in Seq(Nat)
      BY <1>0 DEF TypeOK
    <3> DEFINE g1 == ledger[k] \o Repeat(now, n)
    <3>2. /\ Len(g1) = Len(ledger[k]) + n
          /\ \A i \in 1 .. Len(ledger[k]) : g1[i] = ledger[k][i]
          /\ \A i \in 1 .. (Len(ledger[k]) + n) : i > Len(ledger[k]) => g1[i] = now
      BY <1>0, <2>2, <3>1, AppendRepeat
    <3>3. ledger'[k] = g1
      BY <2>2
    <3> HIDE DEF g1
    <3> QED BY <2>0, <3>2, <3>3
  <2>4. ASSUME NEW q \in limits \ wasReset PROVE SleepersHold(q)' /\ ReleasesMatch(q)'
    <3>1. CASE q # k
      BY <1>0, <2>1, <3>1, PlatformFrame DEF Sleeps, IsQueued
    <3>2. CASE q = k
      <4>1. SleepersHold(k) /\ ReleasesMatch(k) /\ \A d \in Callers : Sleeps(d, k)' <=> Sleeps(d, k)
        BY <1>0, <2>1, <3>2 DEF Sleeps, IsQueued
      <4>2. \A i \in 1 .. Len(ledger[k]) :
              i \in 1 .. Len(ledger'[k]) /\ ledger'[k][i] = ledger[k][i]
        BY <2>0, <2>2, <2>3
      <4>3. SleepersHold(k)'
        BY <1>0, <2>1, <4>1, <4>2, SleepersFrame
      <4>4. \A x \in (b + 1) .. (b + n) :
              ledger'[k][x] <= now /\ now <= ledger'[k][x] + MaxLateness
        <5> SUFFICES ASSUME NEW x \in (b + 1) .. (b + n)
                     PROVE  ledger'[k][x] <= now /\ now <= ledger'[k][x] + MaxLateness
          OBVIOUS
        <5>1. x \in 1 .. (b + n) /\ x > b
          BY <2>2
        <5>2. ledger'[k][x] = now
          BY <2>3, <5>1
        <5> QED BY <1>0, <2>2, <5>2
      <4>5. ASSUME NEW d \in Callers, Sleeps(d, k)
            PROVE  \A x \in (b + 1) .. (b + n) : x \notin Held(d)
        <5>1. call[d].ticket \in Nat /\ call[d].ticket <= b
          BY <1>0, <2>0, <4>1, <4>5, CallShape DEF SleepersHold, Sleeps
        <5> QED BY <2>2, <5>1 DEF Held
      <4>6. b + n <= Len(ledger'[k]) /\ Len(ledger[k]) <= b
        BY <2>0, <2>2, <2>3
      <4>7. ReleasesMatch(k)'
        <5>1. \A d \in Callers : Sleeps(d, k)' =>
                /\ Sleeps(d, k) /\ call'[d] = call[d]
                /\ \A x \in (b + 1) .. (b + n) : x \notin Held(d)
          BY <2>1, <4>1, <4>5
        <5>2. now' = now
          BY <2>1
        <5> QED BY <1>0, <2>1, <2>2, <4>1, <4>2, <4>4, <4>6, <5>1, <5>2, ReleaseStep
      <4> QED BY <3>2, <4>3, <4>7
    <3> QED BY <3>1, <3>2
  <2> QED BY <1>0, <2>1, <2>4 DEF PlatformInv, OnTime, IsQueued
<1>3. ASSUME NEW c \in Callers, NEW k \in Keys, NEW n \in 1 .. Limit, ConsumeQueued(c, k, n)
      PROVE  PlatformInv'
  <2>0. PICK b \in Nat, at \in Nat : b = Len(ledger[k]) /\ at = AdmitAt(k, n)
    BY SMTT(30), <1>0, <1>3, ReserveStep DEF ConsumeQueued, TypeOK
  <2>1. /\ Reserve(k, n) /\ UNCHANGED <<now, limits, issued, wasReset>> /\ at > now
        /\ call' = [call EXCEPT ![c] = Queued(k, n, at, b + n)]
        /\ \A q \in Keys : q # k => ledger'[q] = ledger[q]
    BY <1>0, <1>3, <2>0 DEF ConsumeQueued, Reserve, TypeOK
  <2>2. /\ ledger'[k] = ledger[k] \o Repeat(at, n) /\ at \in Nat
        /\ b \in Nat /\ n \in Nat /\ n > 0 /\ MaxLateness \in Nat
    BY <1>0, <2>0, <2>1, LimiterAssumption DEF Reserve, TypeOK
  <2>3. /\ Len(ledger'[k]) = b + n
        /\ \A i \in 1 .. b : ledger'[k][i] = ledger[k][i]
        /\ \A i \in 1 .. (b + n) : i > b => ledger'[k][i] = at
    <3>1. ledger[k] \in Seq(Nat)
      BY <1>0 DEF TypeOK
    <3> DEFINE g1 == ledger[k] \o Repeat(at, n)
    <3>2. /\ Len(g1) = Len(ledger[k]) + n
          /\ \A i \in 1 .. Len(ledger[k]) : g1[i] = ledger[k][i]
          /\ \A i \in 1 .. (Len(ledger[k]) + n) : i > Len(ledger[k]) => g1[i] = at
      BY ZenonT(30), <2>2, <3>1, AppendRepeat
    <3>3. ledger'[k] = g1
      BY <2>2
    <3> HIDE DEF g1
    <3> QED BY <2>0, <3>2, <3>3
  <2>4. /\ call'[c].pc = "queued" /\ call'[c].key = k /\ call'[c].tokens = n
        /\ call'[c].ticket = b + n /\ call'[c].admitAt = at
        /\ \A d \in Callers : d # c => call'[d] = call[d]
    BY <1>0, <2>1 DEF TypeOK, Queued
  <2>5. Held(c)' = (b + 1) .. (b + n)
    BY <2>2, <2>4 DEF Held
  <2>6. OnTime'
    BY <1>0, <2>1, <2>2, <2>4 DEF OnTime, IsQueued
  <2>7. ASSUME NEW q \in limits \ wasReset PROVE SleepersHold(q)' /\ ReleasesMatch(q)'
    <3>0. \A d \in Callers : d # c => (Sleeps(d, q)' <=> Sleeps(d, q)) /\ Held(d)' = Held(d)
      BY <2>4 DEF Sleeps, IsQueued, Held
    <3>1. CASE q # k
      <4>1. \A d \in Callers : Sleeps(d, q)' => Sleeps(d, q) /\ call'[d] = call[d]
        BY <2>4, <3>0, <3>1 DEF Sleeps
      <4> QED BY <1>0, <2>1, <3>1, <4>1, PlatformFrame
    <3>2. CASE q = k
      <4>1. SleepersHold(k) /\ ReleasesMatch(k) /\ Sleeps(c, k)'
        BY <1>0, <2>4, <3>2 DEF Sleeps, IsQueued
      <4>2. \A i \in 1 .. b : i \in 1 .. Len(ledger'[k]) /\ ledger'[k][i] = ledger[k][i]
        BY <2>2, <2>3
      <4>3. \A x \in Held(c)' : x \notin 1 .. b
        BY <2>2, <2>5
      <4>4. \A d \in Callers : Sleeps(d, k)' =>
              \/ Sleeps(d, k) /\ call'[d] = call[d]
              \/ \A x \in Held(d)' : x \notin 1 .. b
        BY <2>4, <3>0, <3>2, <4>3
      <4>5. ReleasesMatch(k)'
        <5>1. now' >= now /\ issued'[k] = issued[k]
          BY <1>0, <2>1
        <5> QED BY <1>0, <2>0, <4>1, <4>2, <4>4, <5>1, ReleasesFrame
      <4>6. ASSUME NEW d \in Callers, d # c, Sleeps(d, k)'
            PROVE  /\ call'[d].tokens <= call'[d].ticket
                   /\ call'[d].ticket <= Len(ledger'[k])
                   /\ \A x \in Held(d)' : x \in 1 .. b /\ ledger'[k][x] = call'[d].admitAt
        <5>1. Sleeps(d, k) /\ call'[d] = call[d] /\ Held(d)' = Held(d)
          BY <2>4, <3>0, <3>2, <4>6
        <5>2. /\ call[d].tokens <= call[d].ticket /\ call[d].ticket <= b
              /\ call[d].tokens \in Nat /\ call[d].ticket \in Nat
              /\ \A x \in Held(d) : ledger[k][x] = call[d].admitAt
          BY <1>0, <2>0, <4>1, <5>1, CallShape, LimiterAssumption DEF SleepersHold, Sleeps
        <5>3. \A x \in Held(d) : x \in 1 .. b
          BY <2>2, <5>2 DEF Held
        <5>4. call[d].ticket <= Len(ledger'[k])
          BY <2>2, <2>3, <5>2
        <5> QED BY <4>2, <5>1, <5>2, <5>3, <5>4
      <4>7. /\ call'[c].tokens <= call'[c].ticket
            /\ call'[c].ticket <= Len(ledger'[k])
            /\ \A x \in Held(c)' : ledger'[k][x] = call'[c].admitAt
        <5>1. \A x \in Held(c)' : x \in 1 .. (b + n) /\ x > b
          BY <2>2, <2>5
        <5> QED BY SMTT(30), <2>2, <2>3, <2>4, <5>1
      <4>8. ASSUME NEW d \in Callers, NEW e \in Callers, Sleeps(d, k)', Sleeps(e, k)', d # e
            PROVE  \A x \in Held(d)' : x \notin Held(e)'
        <5>1. CASE d = c
          BY <4>3, <4>6, <4>8, <5>1
        <5>2. CASE e = c
          BY <4>3, <4>6, <4>8, <5>2
        <5>3. CASE d # c /\ e # c
          BY <3>0, <3>2, <4>1, <4>8, <5>3 DEF SleepersHold
        <5> QED BY <5>1, <5>2, <5>3
      <4>9. SleepersHold(k)'
        BY <4>6, <4>7, <4>8 DEF SleepersHold
      <4> QED BY <3>2, <4>5, <4>9
    <3> QED BY <3>1, <3>2
  <2> QED BY <2>1, <2>6, <2>7 DEF PlatformInv
<1>4. ASSUME NEW c \in Callers, Wake(c)
      PROVE  PlatformInv'
  <2>a. IsQueued(c)
    BY <1>4 DEF Wake
  <2>b. PICK k \in Keys, n \in Nat, b \in Int :
          k = call[c].key /\ n = call[c].tokens /\ b = call[c].ticket - call[c].tokens
    BY <1>0, <2>a, CallShape, LimiterAssumption
  <2>1. /\ now >= call[c].admitAt
        /\ UNCHANGED <<now, limits, ledger, wasReset>>
        /\ call'[c] = Idle /\ \A d \in Callers : d # c => call'[d] = call[d]
    BY <1>0, <1>4 DEF Wake, TypeOK
  <2>2. /\ call[c].ticket \in Nat /\ call[c].admitAt \in Nat
        /\ MaxLateness \in Nat /\ now <= call[c].admitAt + MaxLateness
    BY <1>0, <2>a, CallShape, LimiterAssumption DEF OnTime
  <2>3. /\ issued'[k] = Release(issued[k], n, now)
        /\ \A q \in Keys : q # k => issued'[q] = issued[q]
    BY <1>0, <1>4, <2>b DEF Wake, TypeOK
  <2>4. \A q \in Keys : \A d \in Callers :
          Sleeps(d, q)' => d # c /\ Sleeps(d, q) /\ call'[d] = call[d]
    BY <2>1 DEF Sleeps, IsQueued, Idle
  <2>5. ASSUME NEW q \in limits \ wasReset PROVE SleepersHold(q)' /\ ReleasesMatch(q)'
    <3>0. q \in Keys /\ \A i \in 1 .. Len(ledger[q]) :
            i \in 1 .. Len(ledger'[q]) /\ ledger'[q][i] = ledger[q][i]
      BY <1>0, <2>1
    <3>1. CASE q # k
      BY <1>0, <2>1, <2>3, <2>4, <3>0, <3>1, PlatformFrame
    <3>2. CASE q = k
      <4>1. SleepersHold(k) /\ ReleasesMatch(k) /\ Sleeps(c, k)
        BY <1>0, <2>a, <2>b, <3>2 DEF Sleeps
      <4>2. SleepersHold(k)'
        BY <1>0, <2>4, <3>0, <3>2, <4>1, SleepersFrame
      <4>3. /\ n <= call[c].ticket /\ call[c].ticket <= Len(ledger[k])
            /\ \A x \in Held(c) : ledger[k][x] = call[c].admitAt
        BY <2>b, <4>1 DEF SleepersHold
      <4>4. b \in Nat /\ b + n = call[c].ticket /\ Held(c) = (b + 1) .. (b + n)
        <5>1. /\ b \in Nat /\ b + n = call[c].ticket
              /\ call[c].ticket - call[c].tokens + 1 = b + 1
          BY <2>2, <2>b, <4>3
        <5> QED BY <5>1 DEF Held
      <4>5. \A x \in (b + 1) .. (b + n) :
              ledger'[k][x] <= now /\ now <= ledger'[k][x] + MaxLateness
        BY <1>0, <2>1, <2>2, <4>3, <4>4
      <4>6. \A d \in Callers : Sleeps(d, k)' =>
              /\ Sleeps(d, k) /\ call'[d] = call[d]
              /\ \A x \in (b + 1) .. (b + n) : x \notin Held(d)
        BY <2>4, <4>1, <4>4 DEF SleepersHold
      <4>7. b + n <= Len(ledger'[k]) /\ now' = now
        BY <2>1, <4>3, <4>4
      <4>8. \E d \in Callers : Sleeps(d, k) /\ Held(d) = (b + 1) .. (b + n)
        BY <4>1, <4>4
      <4>9. ReleasesMatch(k)'
        BY <1>0, <2>3, <3>0, <3>2, <4>1, <4>4, <4>5, <4>6, <4>7, <4>8, ReleaseStep
      <4> QED BY <3>2, <4>2, <4>9
    <3> QED BY <3>1, <3>2
  <2>6. OnTime'
    BY <1>0, <2>1 DEF OnTime, IsQueued, Idle
  <2> QED BY <2>1, <2>5, <2>6 DEF PlatformInv
<1>5. ASSUME NEW ks \in SUBSET Keys, Reset(ks)
      PROVE  PlatformInv'
  <2>1. /\ UNCHANGED <<now, limits, issued>> /\ wasReset' = wasReset \cup ks
        /\ \A k \in Keys : k \notin ks => ledger'[k] = ledger[k]
        /\ \A c \in Callers :
             call'[c] = IF IsQueued(c) /\ call[c].key \in ks
                        THEN [call[c] EXCEPT !.ticket = 0] ELSE call[c]
    BY <1>5 DEF Reset
  <2>2. ASSUME NEW c \in Callers
        PROVE  /\ IsQueued(c)' <=> IsQueued(c)
               /\ IsQueued(c) => /\ call'[c].key = call[c].key
                                 /\ call'[c].admitAt = call[c].admitAt
                                 /\ call[c].key \notin ks => call'[c] = call[c]
    <3>1. CASE IsQueued(c) /\ call[c].key \in ks
      <4>1. call[c] \in [pc : {"queued"}, key : Keys, tokens : 1 .. Limit,
                          admitAt : Nat, ticket : Nat]
        BY <1>0, <3>1 DEF TypeOK, IsQueued, Idle
      <4> QED BY <2>1, <3>1, <4>1 DEF IsQueued
    <3>2. CASE ~(IsQueued(c) /\ call[c].key \in ks)
      BY <2>1, <3>2 DEF IsQueued
    <3> QED BY <3>1, <3>2
  <2>3. OnTime'
    BY <1>0, <2>1, <2>2 DEF OnTime
  <2>4. ASSUME NEW k \in limits \ wasReset, k \notin ks PROVE SleepersHold(k)' /\ ReleasesMatch(k)'
    <3>1. \A c \in Callers : Sleeps(c, k)' => Sleeps(c, k) /\ call'[c] = call[c]
      BY <2>2, <2>4 DEF Sleeps
    <3> QED BY <1>0, <2>1, <2>4, <3>1, PlatformFrame
  <2> QED BY <2>1, <2>3, <2>4 DEF PlatformInv
<1>6. ASSUME Destroy
      PROVE  PlatformInv'
  <2>1. limits' = {} /\ call' = [c \in Callers |-> IF c \in pending THEN Idle ELSE call[c]]
    BY <1>6 DEF Destroy
  <2>2. \A c \in Callers : call'[c] = Idle
    BY <1>0, <2>1, CallShape DEF TimersMatchSleepers
  <2> QED BY <2>1, <2>2 DEF PlatformInv, OnTime, IsQueued, Idle
<1>7. ASSUME Tick
      PROVE  PlatformInv'
  <2>1. /\ now' = now + 1 /\ UNCHANGED <<limits, call, ledger, wasReset, issued>>
        /\ \A c \in pending : now < call[c].admitAt + MaxLateness
    BY <1>7 DEF Tick
  <2>2. OnTime'
    <3> SUFFICES ASSUME NEW c \in Callers, IsQueued(c)
                 PROVE  now + 1 <= call[c].admitAt + MaxLateness
      BY <2>1 DEF OnTime, IsQueued
    <3>1. c \in pending /\ call[c].admitAt \in Nat /\ MaxLateness \in Nat
      BY <1>0, CallShape, LimiterAssumption DEF TimersMatchSleepers
    <3> QED BY <1>0, <2>1, <3>1
  <2>3. now' >= now
    BY <1>0, <2>1
  <2>4. ASSUME NEW k \in limits \ wasReset PROVE SleepersHold(k)' /\ ReleasesMatch(k)'
    BY <1>0, <2>1, <2>3, PlatformFrame DEF Sleeps, IsQueued
  <2> QED BY <2>1, <2>2, <2>4 DEF PlatformInv
<1>8. ASSUME UNCHANGED <<now, limits, call, ledger, wasReset, issued>>
      PROVE  PlatformInv'
  <2>1. now' >= now
    BY <1>0, <1>8
  <2>2. ASSUME NEW k \in limits \ wasReset PROVE SleepersHold(k)' /\ ReleasesMatch(k)'
    BY <1>0, <1>8, <2>1, PlatformFrame DEF Sleeps, IsQueued
  <2> QED BY <1>0, <1>8, <2>2 DEF PlatformInv, OnTime, IsQueued
<1>9. ASSUME Cleanup \/ Stop \/ UNCHANGED vars
             \/ \E c \in Callers, k \in Keys, n \in 1 .. Limit : ConsumeRejected(c, k, n)
      PROVE  UNCHANGED <<now, limits, call, ledger, wasReset, issued>>
  BY <1>9 DEF Cleanup, Stop, vars, ConsumeRejected
<1>10. Keys \in SUBSET Keys /\ \A k \in Keys : {k} \in SUBSET Keys
  OBVIOUS
<1> QED
  BY <1>1, <1>2, <1>3, <1>4, <1>5, <1>6, <1>7, <1>8, <1>9, <1>10 DEF Next, Consume

\* Limit + 1 releases within less than a window and a lateness would be of as
\* many reservations within one window.
LEMMA MatchedIsSpaced ==
    ASSUME NEW s \in Seq(Nat), NEW g \in Seq(Nat), NEW f, Matches(f, s, g),
           Ascending(s), Ascending(g), Spaced(g, Window)
    PROVE  Spaced(s, Window - MaxLateness)
<1> SUFFICES ASSUME NEW i \in 1 .. Len(s), i + Limit <= Len(s),
                    ~(s[i + Limit] - s[i] >= Window - MaxLateness)
             PROVE  FALSE
  BY DEF Spaced
<1>0. /\ Limit \in Nat \ {0} /\ Window \in Nat /\ MaxLateness \in Nat
      /\ Len(s) \in Nat /\ Len(g) \in Nat /\ i + Limit \in 1 .. Len(s)
      /\ \A x \in 1 .. Len(s) : s[x] \in Nat
      /\ \A x \in 1 .. Len(g) : g[x] \in Nat
  BY SMTT(30), LimiterAssumption
<1> DEFINE T == i .. (i + Limit)
           S == {f[x] : x \in T}
<1>1. /\ i \in T
      /\ \A x \in T : x \in 1 .. Len(s) /\ s[i] <= s[x] /\ s[x] <= s[i + Limit]
  <2>1. i \in T
    BY <1>0
  <2>2. ASSUME NEW x \in T
        PROVE  x \in 1 .. Len(s) /\ i <= x /\ x <= i + Limit
    BY <1>0
  <2> HIDE DEF T
  <2> QED BY <1>0, <2>1, <2>2 DEF Ascending
<1>2. /\ \A x \in T : f[x] \in 1 .. Len(g)
      /\ S \in SUBSET (1 .. Len(g)) /\ S \in SUBSET Nat /\ S # {}
  <2> HIDE DEF T
  <2>1. \A x \in T : f[x] \in 1 .. Len(g)
    BY <1>1 DEF Matches
  <2>2. S \in SUBSET (1 .. Len(g)) /\ S # {}
    BY <1>1, <2>1
  <2> HIDE DEF S
  <2>3. S \in SUBSET Nat
    BY <1>0, <2>2
  <2> QED BY <2>1, <2>2, <2>3
<1> HIDE DEF T
<1>3. PICK j \in S : \A y \in S : j <= y
  BY <1>2, LeastNat
<1>4. PICK z \in T : j = f[z]
  OBVIOUS
<1>5. j \in DOMAIN g /\ j \in 1 .. Len(g) /\ g[j] >= s[i] - MaxLateness
  <2>1. j \in 1 .. Len(g) /\ z \in 1 .. Len(s) /\ s[i] <= s[z]
    BY <1>1, <1>2, <1>4
  <2>2. s[z] <= g[j] + MaxLateness
    BY <1>4, <2>1 DEF Matches
  <2>3. s[i] \in Nat /\ s[z] \in Nat /\ g[j] \in Nat
    BY <1>0, <2>1
  <2>4. \A a, p, q, l \in Nat : a <= p /\ p <= q + l => q >= a - l
    OBVIOUS
  <2>5. g[j] >= s[i] - MaxLateness
    BY <1>0, <2>1, <2>2, <2>3, <2>4
  <2> QED BY <2>1, <2>5
<1>6. ASSUME NEW y \in S PROVE y \in Promise!InWindow(g, j)
  <2>1. PICK x \in T : y = f[x]
    OBVIOUS
  <2>2. x \in 1 .. Len(s) /\ y \in 1 .. Len(g) /\ j <= y
    BY <1>1, <1>2, <1>3, <2>1
  <2>3. g[j] <= g[y]
    BY <1>5, <2>2 DEF Ascending
  <2>4. g[y] <= s[x] /\ s[x] <= s[i + Limit]
    BY <1>1, <2>1, <2>2 DEF Matches
  <2>5. /\ g[y] \in Nat /\ s[x] \in Nat /\ s[i] \in Nat /\ s[i + Limit] \in Nat /\ g[j] \in Nat
    BY <1>0, <1>5, <2>2
  <2>6. g[y] < g[j] + Window
    <3>1. s[i + Limit] - s[i] < Window - MaxLateness
      BY <1>0
    <3>2. \A a, p, q, r, u, w, l \in Nat :
            a <= p /\ p <= q /\ q - r < w - l /\ u >= r - l => a < u + w
      OBVIOUS
    <3> QED BY <1>0, <1>5, <2>4, <2>5, <3>1, <3>2
  <2> QED BY <2>2, <2>3, <2>6 DEF Promise!InWindow
<1> DEFINE W == Promise!InWindow(g, j)
<1>7. IsFiniteSet(W) /\ Cardinality(W) <= Limit /\ Cardinality(W) \in Nat
  <2>1. W \in SUBSET (1 .. Len(g))
    BY DEF Promise!InWindow
  <2>2. IsFiniteSet(W) /\ Cardinality(W) \in Nat
    <3>1. IsFiniteSet(1 .. Len(g))
      BY <1>0, FS_Interval
    <3> QED BY <2>1, <3>1, FS_Subset, FS_CardinalityType
  <2>3. Promise!Cardinality(W) <= Limit
    BY <1>5, SpacedIsWithinLimit DEF Promise!WithinLimit
  <2> QED BY <2>2, <2>3, SameCount
<1> DEFINE h == [x \in T |-> f[x]]
<1>8. h \in Injection(T, W)
  <2>1. h \in [T -> W]
    BY <1>6
  <2>2. ASSUME NEW x \in T, NEW y \in T, h[x] = h[y] PROVE x = y
    BY <1>1, <2>2 DEF Matches
  <2> QED BY <2>1, <2>2 DEF Injection, IsInjective
<1>9. Cardinality(T) = Limit + 1
  <2> DEFINE b == i + Limit
  <2>1. i \in Nat /\ Limit \in Nat
    BY <1>0
  <2>4. i \in Int /\ b \in Int /\ ~(i > b) /\ b - i + 1 = Limit + 1
    BY <2>1
  <2> HIDE DEF b
  <2>2. Cardinality(i .. b) = IF i > b THEN 0 ELSE b - i + 1
    BY <2>4, FS_Interval, Zenon
  <2>3. Cardinality(i .. b) = Limit + 1
    BY <2>2, <2>4
  <2> QED BY <2>3 DEF b, T
<1> HIDE DEF W, h
<1>10. Cardinality(T) <= Cardinality(W)
  BY <1>7, <1>8, FS_Injection
<1> QED BY <1>0, <1>7, <1>9, <1>10

\* What the platform sees of a limited key: tokens are released within the window
\* up to the lateness of the timers, in every interleaving of callers, timers,
\* prunings and resets of other keys.
THEOREM PlatformSeesWindow == Spec => []PlatformWindow
<1>1. ASSUME IInv, PlatformInv PROVE PlatformWindow
  <2> SUFFICES ASSUME NEW k \in limits \ wasReset
               PROVE  Spaced(issued[k], Window - MaxLateness)
    BY DEF PlatformWindow
  <2>1. /\ k \in Keys /\ issued[k] \in Seq(Nat) /\ ledger[k] \in Seq(Nat)
        /\ Ascending(ledger[k]) /\ Spaced(ledger[k], Window) /\ ReleasesMatch(k)
    BY <1>1, LimiterAssumption DEF IInv, TypeOK, AllQueuesOK, QueueOK, PlatformInv
  <2>2. Ascending(issued[k]) /\ \E f : Matches(f, issued[k], ledger[k])
    BY <2>1 DEF ReleasesMatch
  <2> QED BY <2>1, <2>2, MatchedIsSpaced
<1>2. IInv /\ PlatformInv => PlatformWindow
  BY <1>1
<1> QED BY <1>2, Invariance, PlatformInit, PlatformStep, PTL DEF Spec
-----------------------------------------------------------------------------
(* A bulk batch on the limiter.                                            *)

\* Some entry of the actual history g stands for each entry of the projected
\* queue q, no earlier and at least as far from the entries around it.
StandsFor(f, q, g) ==
    /\ f \in [1 .. Len(q) -> 1 .. Len(g)]
    /\ \A x, y \in 1 .. Len(q) : x <= y => f[y] - f[x] >= y - x
    /\ \A x \in 1 .. Len(q) : q[x] <= g[f[x]]

Ahead(q, g) == \E f : StandsFor(f, q, g)

\* The history g ends in the projected queue q, delayed by no more than d; what
\* precedes it had left the window at t.
Aligned(q, g, t, d) ==
    /\ Len(q) <= Len(g)
    /\ \A x \in 1 .. Len(q) : g[x + (Len(g) - Len(q))] <= q[x] + d
    /\ \A x \in 1 .. (Len(g) - Len(q)) : g[x] + Window <= t

\* a is an instant the limiter may grant n tokens at behind the history g.
GrantedAt(a, g, t, n) ==
    LET x == Len(g) - (Limit - n)
    IN  /\ a \in Nat /\ a >= t
        /\ Len(g) > 0 => a >= g[Len(g)]
        /\ x > 0 => a >= g[x] + Window
        /\ a > t => x > 0 /\ a = g[x] + Window

\* What earliestAdmission returns on any queue.
LEMMA Earliest ==
    ASSUME NEW q \in Seq(Nat), NEW t \in Nat, NEW n \in 1 .. Limit
    PROVE  LET p == EarliestAdmission(q, t, n)
               x == Len(q) - (Limit - n)
           IN  /\ p \in Nat /\ p >= t
               /\ Len(q) > 0 => p >= q[Len(q)]
               /\ x > 0 => x \in 1 .. Len(q) /\ p >= q[x] + Window
               /\ \/ p = t
                  \/ Len(q) > 0 /\ p = q[Len(q)]
                  \/ x > 0 /\ p = q[x] + Window
<1> DEFINE x == Len(q) - (Limit - n)
           qx == q[x]
           bh == Behind(q, t)
<1>1. /\ Window \in Nat /\ Limit \in Nat /\ Len(q) \in Nat
      /\ x \in Int /\ x <= Len(q)
      /\ x > 0 => x \in 1 .. Len(q)
  BY LimiterAssumption
<1>2. \A i \in 1 .. Len(q) : q[i] \in Nat
  OBVIOUS
<1>3. /\ bh \in Nat /\ bh >= t
      /\ Len(q) > 0 => bh >= q[Len(q)]
      /\ bh = t \/ (Len(q) > 0 /\ bh = q[Len(q)])
  BY <1>1, <1>2 DEF Behind
<1>4. x > 0 => qx \in Nat
  BY <1>1, <1>2
<1>5. EarliestAdmission(q, t, n) = IF x > 0 /\ qx + Window > bh THEN qx + Window ELSE bh
  BY DEF EarliestAdmission, MustExpire
<1> HIDE DEF x, qx, bh
<1>6. /\ EarliestAdmission(q, t, n) \in Nat
      /\ EarliestAdmission(q, t, n) >= bh
      /\ x > 0 => EarliestAdmission(q, t, n) >= qx + Window
      /\ EarliestAdmission(q, t, n) = bh \/ (x > 0 /\ EarliestAdmission(q, t, n) = qx + Window)
  BY <1>1, <1>3, <1>4, <1>5
<1>7. /\ EarliestAdmission(q, t, n) >= t
      /\ Len(q) > 0 => EarliestAdmission(q, t, n) >= q[Len(q)]
  <2>1. Len(q) > 0 => q[Len(q)] \in Nat
    BY <1>1, <1>2
  <2> QED BY <2>1, <1>3, <1>6
<1> QED BY <1>1, <1>3, <1>6, <1>7 DEF x, qx

\* The instant consume computes on the pruned window, in terms of the whole
\* history of the key.
LEMMA GrantByHistory ==
    ASSUME TypeOK, AllQueuesOK, NEW k \in Keys, NEW n \in 1 .. Limit
    PROVE  GrantedAt(AdmitAt(k, n), ledger[k], now, n)
<1> DEFINE r == Current(k)
           g == ledger[k]
           a == AdmitAt(k, n)
           m == MustExpire(r, n)
           x == Len(g) - (Limit - n)
<1>1. /\ r \in Seq(Nat) /\ Ascending(r) /\ QueueOK(r, g, now)
      /\ \A i \in 1 .. Len(r) : now - r[i] < Window
  BY CurrentWindow
<1>2. g \in Seq(Nat) /\ now \in Nat
  BY DEF TypeOK
<1>3. /\ Window \in Nat /\ Limit \in Nat /\ Len(r) \in Nat /\ Len(g) \in Nat /\ Len(r) <= Len(g)
      /\ m = Len(r) - (Limit - n) /\ m \in Int /\ x \in Int /\ x <= Len(g)
      /\ x = m + (Len(g) - Len(r))
  <2>1. r \in Seq(Nat) /\ g \in Seq(Nat) /\ Len(r) <= Len(g) /\ m = Len(r) - (Limit - n)
    BY <1>1, <1>2 DEF QueueOK, MustExpire
  <2> HIDE DEF r, g, m
  <2> QED BY <2>1, LimiterAssumption
<1>4. /\ a \in Nat /\ a >= now
      /\ Len(g) > 0 => a >= g[Len(g)]
      /\ m > 0 => m \in 1 .. Len(r) /\ a >= r[m] + Window
      /\ a > now => m > 0 /\ a = r[m] + Window
  BY <1>1, <1>2, AdmissionInstant DEF AdmitAt
<1>5. m > 0 => r[m] = g[x]
  BY <1>1, <1>3, <1>4 DEF QueueOK
<1>6. x > 0 /\ ~(m > 0) => g[x] \in Nat /\ now - g[x] >= Window
  <2> SUFFICES ASSUME x > 0, ~(m > 0) PROVE g[x] \in Nat /\ now - g[x] >= Window
    OBVIOUS
  <2>1. x \in 1 .. (Len(g) - Len(r)) /\ x \in 1 .. Len(g)
    BY <1>3
  <2> QED BY <1>1, <1>2, <2>1 DEF QueueOK
<1> HIDE DEF r, g, a, m, x
<1>7. x > 0 => a >= g[x] + Window
  <2> SUFFICES ASSUME x > 0 PROVE a >= g[x] + Window
    OBVIOUS
  <2>1. CASE m > 0
    BY <1>4, <1>5, <2>1
  <2>2. CASE ~(m > 0)
    <3> DEFINE gx == g[x]
    <3>1. gx \in Nat /\ now - gx >= Window
      BY <1>6, <2>2
    <3> HIDE DEF gx
    <3>2. a >= gx + Window
      BY <1>2, <1>3, <1>4, <3>1
    <3> QED BY <3>2 DEF gx
  <2> QED BY <2>1, <2>2
<1>8. a > now => x > 0 /\ a = g[x] + Window
  BY <1>3, <1>4, <1>5
<1> QED BY <1>4, <1>7, <1>8 DEF GrantedAt, g, a, x

\* Whatever else is granted, the history stays ahead of the projection.
LEMMA AheadStays ==
    ASSUME NEW q \in Seq(Nat), NEW g \in Seq(Nat), NEW n \in Nat, NEW a \in Nat, Ahead(q, g)
    PROVE  Ahead(q, g \o Repeat(a, n))
<1> DEFINE h == g \o Repeat(a, n)
<1>1. PICK f : StandsFor(f, q, g)
  BY DEF Ahead
<1>2. /\ Len(h) = Len(g) + n /\ Len(g) \in Nat /\ Len(h) \in Nat
      /\ \A i \in 1 .. Len(g) : h[i] = g[i] /\ i \in 1 .. Len(h)
  <2>1. Len(h) = Len(g) + n /\ \A i \in 1 .. Len(g) : h[i] = g[i]
    BY AppendRepeat
  <2> HIDE DEF h
  <2> QED BY <2>1
<1> HIDE DEF h
<1>3. StandsFor(f, q, h)
  BY <1>1, <1>2 DEF StandsFor
<1> QED BY <1>3 DEF Ahead, h

\* The next request of the batch is granted no earlier than it is projected.
LEMMA AheadGrows ==
    ASSUME NEW q \in Seq(Nat), NEW g \in Seq(Nat), NEW t \in Nat, NEW u \in Nat, t <= u,
           NEW n \in 1 .. Limit, NEW a, GrantedAt(a, g, u, n), Ascending(g), Ahead(q, g)
    PROVE  LET p == EarliestAdmission(q, t, n)
           IN  p \in Nat /\ p <= a /\ Ahead(q \o Repeat(p, n), g \o Repeat(a, n))
<1> DEFINE p == EarliestAdmission(q, t, n)
           x == Len(q) - (Limit - n)
           y == Len(g) - (Limit - n)
           s == q \o Repeat(p, n)
           h == g \o Repeat(a, n)
<1>0. /\ Window \in Nat /\ Limit \in Nat /\ n \in Nat /\ n >= 1 /\ n <= Limit
      /\ Len(q) \in Nat /\ Len(g) \in Nat /\ x \in Int /\ y \in Int /\ a \in Nat
  BY LimiterAssumption DEF GrantedAt
<1>1. /\ p \in Nat /\ p >= t
      /\ x > 0 => x \in 1 .. Len(q)
      /\ \/ p = t
         \/ Len(q) > 0 /\ p = q[Len(q)]
         \/ x > 0 /\ p = q[x] + Window
  BY Earliest
<1>2. PICK f : StandsFor(f, q, g)
  BY DEF Ahead
<1>3. /\ a >= u
      /\ Len(g) > 0 => a >= g[Len(g)]
      /\ y > 0 => a >= g[y] + Window
  BY DEF GrantedAt
<1>4. /\ \A i \in 1 .. Len(q) : q[i] \in Nat /\ f[i] \in 1 .. Len(g) /\ q[i] <= g[f[i]]
      /\ \A i \in 1 .. Len(g) : g[i] \in Nat /\ g[i] <= a
      /\ \A i, j \in 1 .. Len(g) : i <= j => g[i] <= g[j]
      /\ \A i, j \in 1 .. Len(q) : i <= j => f[j] - f[i] >= j - i
  <2>1. \A i \in 1 .. Len(g) : g[i] \in Nat /\ Len(g) \in 1 .. Len(g) /\ g[i] <= g[Len(g)]
    BY <1>0 DEF Ascending
  <2>2. \A i \in 1 .. Len(g) : g[i] <= a
    <3> SUFFICES ASSUME NEW i \in 1 .. Len(g) PROVE g[i] <= a
      OBVIOUS
    <3>1. a >= g[Len(g)] /\ g[Len(g)] \in Nat
      BY <1>0, <1>3, <2>1
    <3> QED BY <1>0, <2>1, <3>1
  <2>3. \A i, j \in 1 .. Len(g) : i <= j => g[i] <= g[j]
    BY DEF Ascending
  <2>4. /\ \A i \in 1 .. Len(q) : q[i] \in Nat /\ f[i] \in 1 .. Len(g) /\ q[i] <= g[f[i]]
        /\ \A i, j \in 1 .. Len(q) : i <= j => f[j] - f[i] >= j - i
    <3>1. /\ f \in [1 .. Len(q) -> 1 .. Len(g)]
          /\ \A i, j \in 1 .. Len(q) : i <= j => f[j] - f[i] >= j - i
          /\ \A i \in 1 .. Len(q) : q[i] <= g[f[i]]
      BY <1>2 DEF StandsFor
    <3>2. \A i \in 1 .. Len(q) : q[i] \in Nat
      OBVIOUS
    <3> QED BY <3>1, <3>2
  <2> QED BY <2>1, <2>2, <2>3, <2>4
<1>5. p <= a
  <2>1. CASE p = t
    BY <1>0, <1>1, <1>3, <2>1
  <2>2. CASE Len(q) > 0 /\ p = q[Len(q)]
    <3>1. Len(q) \in 1 .. Len(q)
      BY <1>0, <2>2
    <3>2. q[Len(q)] <= g[f[Len(q)]] /\ g[f[Len(q)]] <= a /\ g[f[Len(q)]] \in Nat
      BY <1>4, <3>1
    <3> QED BY <1>0, <1>1, <2>2, <3>2
  <2>3. CASE x > 0 /\ p = q[x] + Window
    <3>1. x \in 1 .. Len(q) /\ Len(q) \in 1 .. Len(q) /\ x <= Len(q)
      BY <1>0, <1>1, <2>3
    <3>2. /\ f[x] \in 1 .. Len(g) /\ f[Len(q)] \in 1 .. Len(g)
          /\ f[Len(q)] - f[x] >= Len(q) - x /\ q[x] <= g[f[x]] /\ q[x] \in Nat
      BY <1>4, <3>1
    <3>3. y >= f[x] /\ y \in 1 .. Len(g)
      <4> DEFINE fx == f[x]
                 fq == f[Len(q)]
      <4>1. fx \in 1 .. Len(g) /\ fq \in 1 .. Len(g) /\ fq - fx >= Len(q) - x
        BY <3>2
      <4>2. Len(q) - x = Limit - n /\ y = Len(g) - (Limit - n)
        BY <1>0
      <4> HIDE DEF fx, fq, x, y
      <4>3. y >= fx /\ y <= Len(g) /\ y >= 1
        BY SMTT(30), <1>0, <4>1, <4>2
      <4> QED BY <1>0, <4>3 DEF fx
    <3>4. g[f[x]] <= g[y] /\ g[f[x]] \in Nat /\ g[y] \in Nat
      BY <1>4, <3>2, <3>3
    <3>5. a >= g[y] + Window
      BY <1>3, <3>3
    <3> DEFINE fx == g[f[x]]
               qx == q[x]
               gy == g[y]
    <3>6. qx <= fx /\ fx <= gy /\ a >= gy + Window /\ p = qx + Window
      BY <2>3, <3>2, <3>4, <3>5
    <3>7. qx \in Nat /\ fx \in Nat /\ gy \in Nat
      BY <3>2, <3>4
    <3> HIDE DEF p, fx, qx, gy
    <3> QED BY <1>0, <3>6, <3>7
  <2> QED BY <1>1, <2>1, <2>2, <2>3
<1> HIDE DEF p, x, y
<1>a. n \in Nat /\ p \in Nat /\ a \in Nat
  BY <1>0, <1>1
<1>6. /\ Len(s) = Len(q) + n /\ Len(h) = Len(g) + n
      /\ \A i \in 1 .. Len(q) : s[i] = q[i]
      /\ \A i \in 1 .. (Len(q) + n) : i > Len(q) => s[i] = p
      /\ \A i \in 1 .. Len(g) : h[i] = g[i]
      /\ \A i \in 1 .. (Len(g) + n) : i > Len(g) => h[i] = a
  <2>1. /\ Len(s) = Len(q) + n
        /\ \A i \in 1 .. Len(q) : s[i] = q[i]
        /\ \A i \in 1 .. (Len(q) + n) : i > Len(q) => s[i] = p
    BY ZenonT(60), <1>a, AppendRepeat
  <2>2. /\ Len(h) = Len(g) + n
        /\ \A i \in 1 .. Len(g) : h[i] = g[i]
        /\ \A i \in 1 .. (Len(g) + n) : i > Len(g) => h[i] = a
    BY ZenonT(60), <1>a, AppendRepeat
  <2> QED BY <2>1, <2>2
<1> HIDE DEF h
<1> HIDE DEF s
<1> DEFINE e == [i \in 1 .. Len(s) |-> IF i <= Len(q) THEN f[i] ELSE Len(g) + (i - Len(q))]
<1>7. ASSUME NEW i \in 1 .. Len(s)
      PROVE  /\ i <= Len(q) => /\ i \in 1 .. Len(q) /\ e[i] = f[i] /\ e[i] \in 1 .. Len(g)
                               /\ s[i] <= h[e[i]]
             /\ ~(i <= Len(q)) => e[i] = Len(g) + (i - Len(q)) /\ s[i] <= h[e[i]]
             /\ e[i] \in 1 .. Len(h)
  <2>1. CASE i <= Len(q)
    <3>1. i \in 1 .. Len(q) /\ e[i] = f[i]
      BY <1>0, <1>7, <2>1
    <3>2. f[i] \in 1 .. Len(g) /\ q[i] <= g[f[i]]
      BY <1>4, <3>1
    <3>3. s[i] = q[i] /\ h[f[i]] = g[f[i]] /\ f[i] \in 1 .. Len(h)
      BY SMTT(30), <1>0, <1>6, <3>1, <3>2
    <3> QED BY <2>1, <3>1, <3>2, <3>3
  <2>2. CASE ~(i <= Len(q))
    <3>1. e[i] = Len(g) + (i - Len(q)) /\ i > Len(q)
      BY <1>0, <1>7, <2>2
    <3>2. e[i] \in 1 .. (Len(g) + n) /\ e[i] > Len(g) /\ i \in 1 .. (Len(q) + n)
      BY <1>0, <1>6, <1>7, <2>2, <3>1
    <3> HIDE DEF e
    <3>3. s[i] = p /\ h[e[i]] = a
      BY <1>6, <3>1, <3>2
    <3> QED BY <1>5, <1>6, <2>2, <3>1, <3>2, <3>3
  <2> QED BY <2>1, <2>2
<1>8. e \in [1 .. Len(s) -> 1 .. Len(h)]
  BY <1>7
<1> HIDE DEF e
<1>9. ASSUME NEW i \in 1 .. Len(s), NEW j \in 1 .. Len(s), i <= j
      PROVE  e[j] - e[i] >= j - i
  <2>1. CASE j <= Len(q)
    <3>1. i \in 1 .. Len(q) /\ j \in 1 .. Len(q)
      BY <1>0, <1>9, <2>1
    <3> QED BY <1>4, <1>7, <1>9, <2>1, <3>1
  <2>2. CASE ~(j <= Len(q)) /\ i <= Len(q)
    <3>1. i \in 1 .. Len(q) /\ Len(q) \in 1 .. Len(q) /\ e[i] = f[i] /\ j \in Nat
      BY <1>0, <1>7, <1>9, <2>2
    <3>2. f[Len(q)] - f[i] >= Len(q) - i /\ f[Len(q)] \in 1 .. Len(g) /\ f[i] \in 1 .. Len(g)
      BY <1>4, <2>2, <3>1
    <3>3. e[j] = Len(g) + (j - Len(q))
      BY <1>7, <2>2
    <3> DEFINE fi == f[i]
               fq == f[Len(q)]
    <3>4. fq - fi >= Len(q) - i /\ fq \in 1 .. Len(g) /\ fi \in 1 .. Len(g) /\ e[i] = fi
      BY <3>1, <3>2
    <3> HIDE DEF fi, fq
    <3> QED BY <1>0, <3>1, <3>3, <3>4
  <2>3. CASE ~(j <= Len(q)) /\ ~(i <= Len(q))
    <3>1. e[j] = Len(g) + (j - Len(q)) /\ e[i] = Len(g) + (i - Len(q)) /\ i \in Nat /\ j \in Nat
      BY <1>0, <1>7, <1>9, <2>3
    <3> QED BY <1>0, <3>1
  <2> QED BY <2>1, <2>2, <2>3
<1>10. StandsFor(e, s, h)
  BY <1>7, <1>8, <1>9 DEF StandsFor
<1> QED BY <1>1, <1>5, <1>10 DEF Ahead, p, s, h

\* The delay bounds the next grant too.
LEMMA AlignedGrows ==
    ASSUME NEW q \in Seq(Nat), NEW g \in Seq(Nat), NEW t \in Nat, NEW u \in Nat, t <= u,
           NEW n \in 1 .. Limit, NEW a, GrantedAt(a, g, u, n), Aligned(q, g, t, u - t)
    PROVE  LET p == EarliestAdmission(q, t, n)
           IN  /\ p \in Nat /\ a - u <= p - t
               /\ Aligned(q \o Repeat(p, n), g \o Repeat(a, n), t, u - t)
<1> DEFINE p == EarliestAdmission(q, t, n)
           x == Len(q) - (Limit - n)
           y == Len(g) - (Limit - n)
           o == Len(g) - Len(q)
           s == q \o Repeat(p, n)
           h == g \o Repeat(a, n)
<1>0. /\ Window \in Nat /\ Limit \in Nat /\ n \in Nat /\ n >= 1 /\ n <= Limit
      /\ Len(q) \in Nat /\ Len(g) \in Nat /\ x \in Int /\ y \in Int /\ a \in Nat
      /\ o \in Nat /\ y = x + o /\ y <= Len(g) /\ o <= Len(g)
  BY LimiterAssumption DEF GrantedAt, Aligned
<1>1. /\ p \in Nat /\ p >= t
      /\ x > 0 => x \in 1 .. Len(q) /\ p >= q[x] + Window
  BY Earliest
<1>2. /\ a >= u
      /\ a > u => y > 0 /\ a = g[y] + Window
  BY DEF GrantedAt
<1>3. /\ \A i \in 1 .. Len(q) : q[i] \in Nat /\ g[i + o] <= q[i] + (u - t)
      /\ \A i \in 1 .. o : g[i] + Window <= t
      /\ \A i \in 1 .. Len(g) : g[i] \in Nat
  <2>1. /\ \A i \in 1 .. Len(q) : g[i + o] <= q[i] + (u - t)
        /\ \A i \in 1 .. o : g[i] + Window <= t
    BY DEF Aligned
  <2>2. \A i \in 1 .. Len(q) : q[i] \in Nat
    OBVIOUS
  <2>3. \A i \in 1 .. Len(g) : g[i] \in Nat
    OBVIOUS
  <2> QED BY <2>1, <2>2, <2>3
<1>4. a - u <= p - t
  <2>1. CASE a = u
    BY <1>0, <1>1, <2>1
  <2>2. CASE a > u /\ x > 0
    <3> DEFINE gy == g[y]
               qx == q[x]
    <3>1. gy <= qx + (u - t) /\ p >= qx + Window /\ a = gy + Window
      BY <1>0, <1>1, <1>2, <1>3, <2>2
    <3>2. gy \in Nat /\ qx \in Nat
      <4>1. x \in 1 .. Len(q) /\ y > 0
        BY <1>1, <1>2, <2>2
      <4>2. y \in 1 .. Len(g)
        <5> HIDE DEF x, y, o
        <5> QED BY <1>0, <4>1
      <4> QED BY <1>3, <4>1, <4>2
    <3> HIDE DEF gy, qx, p
    <3> QED BY <1>0, <1>1, <3>1, <3>2
  <2>3. CASE a > u /\ ~(x > 0)
    <3>1. y \in 1 .. o /\ y \in 1 .. Len(g) /\ a = g[y] + Window
      BY SMTT(30), <1>0, <1>2, <2>3
    <3> DEFINE gy == g[y]
    <3>2. gy \in Nat /\ gy + Window <= t /\ a = gy + Window
      BY <1>3, <3>1
    <3> HIDE DEF gy
    <3> QED BY <1>0, <2>3, <3>2
  <2> QED BY <1>0, <1>2, <2>1, <2>2, <2>3
<1> HIDE DEF p, x, y
<1>a. n \in Nat /\ p \in Nat /\ a \in Nat
  BY <1>0, <1>1
<1>5. /\ Len(s) = Len(q) + n
      /\ \A i \in 1 .. Len(q) : s[i] = q[i]
      /\ \A i \in 1 .. (Len(q) + n) : i > Len(q) => s[i] = p
  <2>1. \A v \in Nat : /\ Len(q \o Repeat(v, n)) = Len(q) + n
                       /\ \A i \in 1 .. Len(q) : (q \o Repeat(v, n))[i] = q[i]
                       /\ \A i \in 1 .. (Len(q) + n) : i > Len(q) => (q \o Repeat(v, n))[i] = v
    <3> TAKE v \in Nat
    <3> HIDE DEF o
    <3> QED BY ZenonT(60), <1>a, AppendRepeat
  <2> QED BY <1>a, <2>1
<1>6. /\ Len(h) = Len(g) + n
      /\ \A i \in 1 .. Len(g) : h[i] = g[i]
      /\ \A i \in 1 .. (Len(g) + n) : i > Len(g) => h[i] = a
  BY ZenonT(60), <1>a, AppendRepeat
<1> HIDE DEF s
<1> HIDE DEF h
<1>7. Len(h) - Len(s) = o /\ Len(s) <= Len(h)
  BY <1>0, <1>5, <1>6
<1> HIDE DEF o
<1>8. ASSUME NEW i \in 1 .. Len(s)
      PROVE  h[i + o] <= s[i] + (u - t)
  <2>1. CASE i <= Len(q)
    <3>1. i \in 1 .. Len(q) /\ i + o \in 1 .. Len(g)
      BY <1>0, <2>1 DEF o
    <3> QED BY <1>3, <1>5, <1>6, <3>1
  <2>2. CASE ~(i <= Len(q))
    <3>1. /\ i \in 1 .. (Len(q) + n) /\ i > Len(q)
          /\ i + o \in 1 .. (Len(g) + n) /\ i + o > Len(g)
      BY <1>0, <1>5, <2>2 DEF o
    <3>2. s[i] = p /\ h[i + o] = a
      BY <1>5, <1>6, <3>1
    <3> QED BY <1>a, <1>4, <3>2
  <2> QED BY <2>1, <2>2
<1>9. \A i \in 1 .. o : h[i] + Window <= t
  <2> SUFFICES ASSUME NEW i \in 1 .. o PROVE h[i] + Window <= t
    OBVIOUS
  <2>1. i \in 1 .. Len(g)
    BY <1>0
  <2> QED BY <1>3, <1>6, <2>1
<1>10. Aligned(s, h, t, u - t)
  BY <1>7, <1>8, <1>9 DEF Aligned
<1> QED BY <1>1, <1>4, <1>10 DEF p, s, h

\* Time only adds to the delay a batch may have accumulated.
LEMMA AlignedWaits ==
    ASSUME NEW q \in Seq(Nat), NEW g \in Seq(Nat), NEW t \in Nat,
           NEW d \in Nat, NEW e \in Nat, d <= e, Aligned(q, g, t, d)
    PROVE  Aligned(q, g, t, e)
<1>1. /\ Len(q) <= Len(g)
      /\ \A x \in 1 .. Len(q) : g[x + (Len(g) - Len(q))] <= q[x] + d
      /\ \A x \in 1 .. (Len(g) - Len(q)) : g[x] + Window <= t
  BY DEF Aligned
<1>2. ASSUME NEW x \in 1 .. Len(q)
      PROVE  g[x + (Len(g) - Len(q))] <= q[x] + e
  <2>1. x + (Len(g) - Len(q)) \in 1 .. Len(g) /\ q[x] \in Nat
    <3>1. Len(q) \in Nat /\ Len(g) \in Nat /\ q[x] \in Nat
      OBVIOUS
    <3>2. Len(q) <= Len(g)
      BY <1>1
    <3> QED BY <3>1, <3>2
  <2>2. g[x + (Len(g) - Len(q))] \in Nat
    BY SMTT(30), <2>1
  <2>3. g[x + (Len(g) - Len(q))] <= q[x] + d
    BY <1>1
  <2> DEFINE gx == g[x + (Len(g) - Len(q))]
             qx == q[x]
  <2>4. gx \in Nat /\ qx \in Nat /\ gx <= qx + d
    BY <2>1, <2>2, <2>3
  <2> HIDE DEF gx, qx
  <2>5. gx <= qx + e
    BY <2>4
  <2> QED BY <2>5 DEF gx, qx
<1> QED BY <1>1, <1>2 DEF Aligned
-----------------------------------------------------------------------------
\* What a batch is projected on: q holds the queue after each of its requests,
\* b the instant each is admitted at, all of them computed at t.
Projected(q, b, t) ==
    /\ q \in [0 .. Requests -> Seq(Nat)]
    /\ b \in Seq(Nat) /\ Len(b) = Requests
    /\ t \in Nat
    /\ \A j \in 1 .. Requests :
        /\ b[j] = EarliestAdmission(q[j - 1], t, CostOf(j))
        /\ q[j] = q[j - 1] \o Repeat(b[j], CostOf(j))

\* A batch has finitely many requests, each of one to Limit tokens.
LEMMA RequestShape ==
    /\ ItemCount \in Nat /\ Len(Cost) \in Nat /\ Limit \in Nat
    /\ Requests \in Nat
    /\ \A k \in 1 .. Len(Cost) : Cost[k] \in 1 .. Limit
    /\ \A j \in 1 .. Requests : /\ ((j - 1) % Len(Cost)) + 1 \in 1 .. Len(Cost)
                                /\ CostOf(j) \in 1 .. Limit
<1>1. ItemCount \in Nat /\ Len(Cost) \in Nat /\ Limit \in Nat /\ Cost \in Seq(1 .. Limit)
  BY BatchAssumption, LimiterAssumption
<1>2. Requests \in Nat
  <2> DEFINE l == Len(Cost)
  <2>1. l \in Nat /\ Requests = ItemCount * l
    BY <1>1 DEF Requests
  <2> HIDE DEF l
  <2> QED BY <1>1, <2>1
<1>3. \A k \in 1 .. Len(Cost) : Cost[k] \in 1 .. Limit
  BY <1>1
<1>4. ASSUME NEW j \in 1 .. Requests
      PROVE  ((j - 1) % Len(Cost)) + 1 \in 1 .. Len(Cost)
  <2> DEFINE l == Len(Cost)
  <2>1. l \in Nat /\ Requests = ItemCount * l
    BY <1>1 DEF Requests
  <2> HIDE DEF l
  <2>2. l # 0
    BY <1>1, <1>4, <2>1
  <2>3. (j - 1) % l \in 0 .. (l - 1)
    BY <1>2, <1>4, <2>1, <2>2
  <2>4. ((j - 1) % l) + 1 \in 1 .. l
    BY <2>1, <2>3
  <2> QED BY <2>4 DEF l
<1> QED BY <1>1, <1>2, <1>3, <1>4 DEF CostOf

\* One request further on a projected queue.
NextQueue(s, j) == s \o Repeat(EarliestAdmission(s, now, CostOf(j)), CostOf(j))

LEMMA NextQueueType ==
    ASSUME now \in Nat, NEW s \in Seq(Nat), NEW j \in 1 .. Requests
    PROVE  NextQueue(s, j) \in Seq(Nat)
<1>1. CostOf(j) \in 1 .. Limit /\ CostOf(j) \in Nat
  BY RequestShape
<1>2. EarliestAdmission(s, now, CostOf(j)) \in Nat
  BY <1>1, Earliest
<1> QED BY <1>1, <1>2, AppendRepeat DEF NextQueue

\* The equation that defines ProjectedQueue, up to request m.
Unrolls(f, m) ==
    /\ f[0] = Current(Bucket)
    /\ \A j \in 1 .. m : f[j] = NextQueue(f[j - 1], j)

\* A function that meets it exists, so that ProjectedQueue is one.
LEMMA QueuesExist ==
    ASSUME now \in Nat, Current(Bucket) \in Seq(Nat)
    PROVE  \E f \in [0 .. Requests -> Seq(Nat)] : Unrolls(f, Requests)
<1> DEFINE Good(m) == \E f \in [0 .. m -> Seq(Nat)] : Unrolls(f, m)
           T == {m \in Nat : m <= Requests /\ ~Good(m)}
<1>0. Requests \in Nat
  BY RequestShape
<1>1. Good(0)
  <2> DEFINE f == [j \in 0 .. 0 |-> Current(Bucket)]
  <2>1. f \in [0 .. 0 -> Seq(Nat)] /\ f[0] = Current(Bucket)
    OBVIOUS
  <2> HIDE DEF f
  <2>2. Unrolls(f, 0)
    BY <2>1 DEF Unrolls
  <2> QED BY <2>1, <2>2
<1>2. ASSUME NEW m \in Nat, m + 1 <= Requests, Good(m)
      PROVE  Good(m + 1)
  <2>1. PICK f \in [0 .. m -> Seq(Nat)] : Unrolls(f, m)
    BY <1>2
  <2> DEFINE e == [j \in 0 .. (m + 1) |-> IF j = m + 1 THEN NextQueue(f[m], m + 1) ELSE f[j]]
  <2>2. m + 1 \in 1 .. Requests /\ f[m] \in Seq(Nat)
    BY <1>0, <1>2
  <2>3. NextQueue(f[m], m + 1) \in Seq(Nat)
    BY <2>2, NextQueueType
  <2>4. /\ e[m + 1] = NextQueue(f[m], m + 1)
        /\ \A j \in 0 .. m : e[j] = f[j]
    OBVIOUS
  <2>5. e \in [0 .. (m + 1) -> Seq(Nat)]
    BY <2>3
  <2> HIDE DEF e
  <2>6. ASSUME NEW j \in 1 .. (m + 1) PROVE e[j] = NextQueue(e[j - 1], j)
    <3>1. j - 1 \in 0 .. m
      BY <1>2
    <3>2. CASE j = m + 1
      <4>1. j - 1 = m
        BY <3>2
      <4> QED BY <2>4, <3>1, <3>2, <4>1
    <3>3. CASE j # m + 1
      <4>1. j \in 1 .. m /\ j \in 0 .. m
        BY <3>3
      <4> QED BY <2>1, <2>4, <3>1, <4>1 DEF Unrolls
    <3> QED BY <3>2, <3>3
  <2>7. e[0] = Current(Bucket)
    BY <2>1, <2>4 DEF Unrolls
  <2>8. Unrolls(e, m + 1)
    BY <2>6, <2>7 DEF Unrolls
  <2> QED BY <2>5, <2>8
<1> HIDE DEF Good
<1>3. T = {}
  <2> SUFFICES ASSUME T # {} PROVE FALSE
    OBVIOUS
  <2>1. PICK m \in T : \A y \in T : m <= y
    BY LeastNat
  <2>2. m \in Nat /\ m <= Requests /\ ~Good(m) /\ m # 0
    BY <1>1, <2>1
  <2>3. m - 1 \in Nat /\ (m - 1) + 1 = m /\ m - 1 <= Requests /\ ~(m <= m - 1)
    BY <1>0, <2>2
  <2>4. Good(m - 1)
    BY <2>1, <2>3
  <2> QED BY <1>2, <2>2, <2>3, <2>4
<1>4. Good(Requests)
  BY <1>0, <1>3
<1> QED BY <1>4 DEF Good

\* projectAdmissions runs the limiter's own arithmetic over the batch.
LEMMA ProjectionIs ==
    ASSUME now \in Nat, Current(Bucket) \in Seq(Nat)
    PROVE  /\ ProjectedQueue[0] = Current(Bucket)
           /\ Projected(ProjectedQueue, Projection, now)
<1>0. Requests \in Nat
  BY RequestShape
<1>1. PICK f \in [0 .. Requests -> Seq(Nat)] : Unrolls(f, Requests)
  BY QueuesExist
<1>2. f = [j \in 0 .. Requests |->
             IF j = 0 THEN Current(Bucket)
             ELSE f[j - 1] \o Repeat(EarliestAdmission(f[j - 1], now, CostOf(j)), CostOf(j))]
  <2>1. ASSUME NEW j \in 0 .. Requests
        PROVE  f[j] = IF j = 0 THEN Current(Bucket)
                      ELSE f[j - 1] \o Repeat(EarliestAdmission(f[j - 1], now, CostOf(j)), CostOf(j))
    <3>1. CASE j = 0
      BY <1>1, <3>1 DEF Unrolls
    <3>2. CASE j # 0
      <4>1. j \in 1 .. Requests
        BY <1>0, <3>2
      <4> QED BY <1>1, <3>2, <4>1 DEF Unrolls, NextQueue
    <3> QED BY <3>1, <3>2
  <2> QED BY <2>1
<1>3. ProjectedQueue = [j \in 0 .. Requests |->
             IF j = 0 THEN Current(Bucket)
             ELSE ProjectedQueue[j - 1]
                  \o Repeat(EarliestAdmission(ProjectedQueue[j - 1], now, CostOf(j)), CostOf(j))]
  BY <1>2 DEF ProjectedQueue
<1> DEFINE q == ProjectedQueue
<1> HIDE DEF q
<1>4. /\ q[0] = Current(Bucket)
      /\ \A j \in 1 .. Requests : q[j] = NextQueue(q[j - 1], j)
  <2>1. q = [j \in 0 .. Requests |-> IF j = 0 THEN Current(Bucket) ELSE NextQueue(q[j - 1], j)]
    BY <1>3 DEF q, NextQueue
  <2>2. 0 \in 0 .. Requests /\ \A j \in 1 .. Requests : j \in 0 .. Requests /\ j # 0
    BY <1>0
  <2> QED BY <2>1, <2>2
<1>5. \A j \in 0 .. Requests : q[j] \in Seq(Nat)
  <2> DEFINE T == {m \in Nat : m <= Requests /\ q[m] \notin Seq(Nat)}
  <2>1. T = {}
    <3> SUFFICES ASSUME T # {} PROVE FALSE
      OBVIOUS
    <3>1. PICK m \in T : \A y \in T : m <= y
      BY LeastNat
    <3>2. m \in Nat /\ m <= Requests /\ q[m] \notin Seq(Nat) /\ m # 0
      BY <1>4, <3>1
    <3>3. m - 1 \in Nat /\ m \in 1 .. Requests /\ m - 1 <= Requests /\ ~(m <= m - 1)
      BY <1>0, <3>2
    <3>4. q[m - 1] \in Seq(Nat)
      BY <3>1, <3>3
    <3> QED BY <1>4, <3>2, <3>3, <3>4, NextQueueType
  <2> TAKE j \in 0 .. Requests
  <2>2. j \in Nat /\ j <= Requests
    BY <1>0
  <2>3. j \notin T
    BY <2>1
  <2> QED BY <2>2, <2>3
<1>6. q \in [0 .. Requests -> Seq(Nat)]
  <2>1. q = [j \in 0 .. Requests |-> q[j]]
    BY <1>3 DEF q
  <2> QED BY <1>5, <2>1
<1>7. ASSUME NEW j \in 1 .. Requests
      PROVE  /\ Projection[j] = EarliestAdmission(q[j - 1], now, CostOf(j))
             /\ Projection[j] \in Nat
             /\ q[j] = q[j - 1] \o Repeat(Projection[j], CostOf(j))
  <2>1. Projection[j] = EarliestAdmission(q[j - 1], now, CostOf(j))
    BY DEF Projection, q
  <2>2. j - 1 \in 0 .. Requests
    BY <1>0
  <2>3. q[j - 1] \in Seq(Nat) /\ CostOf(j) \in 1 .. Limit
    BY <1>5, <2>2, RequestShape
  <2>4. EarliestAdmission(q[j - 1], now, CostOf(j)) \in Nat
    BY <2>3, Earliest
  <2> QED BY <1>4, <2>1, <2>4 DEF NextQueue
<1>8. Projection \in Seq(Nat) /\ Len(Projection) = Requests
  <2>1. Projection = [j \in 1 .. Requests |-> Projection[j]]
    BY DEF Projection
  <2>2. \A j \in 1 .. Requests : Projection[j] \in Nat
    BY <1>7
  <2> DEFINE b == Projection
  <2> HIDE DEF b
  <2>3. b = [j \in 1 .. Requests |-> b[j]] /\ \A j \in 1 .. Requests : b[j] \in Nat
    BY <2>1, <2>2 DEF b
  <2>4. b \in [1 .. Requests -> Nat]
    BY <2>3
  <2>5. b \in Seq(Nat) /\ Len(b) = Requests
    BY <1>0, <2>4
  <2> QED BY <2>5 DEF b
<1> QED BY <1>4, <1>6, <1>7, <1>8 DEF Projected, q
-----------------------------------------------------------------------------
\* The batch's own state, and how far its items can be.
BatchType ==
    /\ phase \in {"start", "refused", "running"}
    /\ step \in [Items -> 0 .. Len(Cost)]
    /\ failed \subseteq Items
    /\ admitted \in Seq(Nat)
    /\ crowded \in BOOLEAN
    /\ limits = LimitedKeys \/ limits = {}
    /\ \A i \in Items : IsQueued(i) => step[i] < Len(Cost)
    /\ phase # "running" =>
        admitted = <<>> /\ failed = {} /\ \A i \in Items : ~IsQueued(i)

LEMMA BatchTypeInit == BInit => BatchType
<1> SUFFICES ASSUME BInit PROVE BatchType
  OBVIOUS
<1>1. 0 \in 0 .. Len(Cost) /\ <<>> \in Seq(Nat)
  BY RequestShape
<1> QED BY <1>1, BatchAssumption DEF BInit, Init, BatchType, IsQueued, Idle

\* What an item's next call draws, and that it is a call of the limiter.
LEMMA NextCall ==
    ASSUME IInv, BatchType, NEW i \in Items, MayCall(i)
    PROVE  /\ i \in Callers /\ Bucket \in Keys /\ phase = "running"
           /\ ~IsQueued(i) /\ i \notin failed
           /\ step[i] + 1 \in 1 .. Len(Cost)
           /\ Cost[step[i] + 1] \in 1 .. Limit
<1>1. i \in Callers /\ Bucket \in Keys
  BY BatchAssumption, LimiterAssumption
<1>2. phase = "running" /\ ~IsQueued(i) /\ i \notin failed /\ step[i] # Len(Cost)
  BY DEF MayCall, Running, Settled
<1>3. step[i] + 1 \in 1 .. Len(Cost)
  BY <1>2, RequestShape DEF BatchType
<1> QED BY <1>1, <1>2, <1>3, RequestShape

\* A batch makes no step the limiter does not: its runs are runs of the limiter.
LEMMA BatchSteps ==
    ASSUME IInv, BatchType, [BNext]_allvars
    PROVE  [Next]_vars
<1>1. Bucket \in Keys /\ Items \subseteq Callers
  BY BatchAssumption, LimiterAssumption
<1>2. ASSUME NEW i \in Items, ItemCall(i) PROVE Next
  <2>1. i \in Callers /\ Bucket \in Keys /\ Cost[step[i] + 1] \in 1 .. Limit
    BY <1>2, NextCall DEF ItemCall
  <2>2. Consume(i, Bucket, Cost[step[i] + 1])
    BY <1>2 DEF ItemCall, Consume
  <2> QED BY <2>1, <2>2 DEF Next
<1>3. ASSUME NEW c \in Others, NEW n \in 1 .. Limit, OtherCall(c, n) PROVE Next
  <2>1. c \in Callers /\ Consume(c, Bucket, n)
    BY <1>3 DEF OtherCall, Others
  <2> QED BY <1>1, <2>1 DEF Next
<1>4. ASSUME NEW c \in Callers, Wake(c) PROVE Next
  BY <1>4 DEF Next
<1>5. ASSUME Refuse \/ Accept PROVE UNCHANGED vars
  BY <1>5 DEF Refuse, Accept
<1>6. ASSUME Shutdown \/ BTick \/ BStop PROVE Next
  BY <1>6 DEF Shutdown, BTick, BStop, Next
<1> QED
  BY <1>1, <1>2, <1>3, <1>4, <1>5, <1>6 DEF BNext, ItemWake, OtherWake, Others, allvars

\* Every action keeps the types.
LEMMA BatchTypeStep ==
    ASSUME IInv, IInv', BatchType, [BNext]_allvars
    PROVE  BatchType'
<1>0. TypeOK /\ TypeOK' /\ TimersMatchSleepers /\ Items \subseteq Callers
  BY BatchAssumption DEF IInv
<1>s. /\ step \in [Items -> 0 .. Len(Cost)] /\ Len(Cost) \in Nat
      /\ limits = LimitedKeys \/ limits = {}
      /\ \A i \in Items : IsQueued(i) => step[i] < Len(Cost)
  BY RequestShape DEF BatchType
<1>1. ASSUME NEW i \in Items, ItemCall(i) PROVE BatchType'
  <2> DEFINE n == Cost[step[i] + 1]
  <2>1. phase = "running" /\ ~IsQueued(i) /\ step[i] + 1 \in 1 .. Len(Cost) /\ n \in 1 .. Limit
        /\ Bucket \in Keys
    BY <1>1, NextCall DEF ItemCall
  <2>2. phase' = phase /\ limits' = limits /\ crowded' \in BOOLEAN
    BY <1>1 DEF ItemCall, ConsumeUnlimited, ConsumeNow, ConsumeQueued, ConsumeRejected, BatchType
  <2>3. CASE ConsumeUnlimited(i, Bucket, n) /\ step' = [step EXCEPT ![i] = @ + 1]
             /\ UNCHANGED <<failed, admitted>>
    <3>1. call' = call /\ step' \in [Items -> 0 .. Len(Cost)]
      BY <1>s, <2>1, <2>3 DEF ConsumeUnlimited
    <3>2. \A j \in Items : IsQueued(j)' => step'[j] < Len(Cost)
      BY <1>s, <2>1, <2>3, <3>1 DEF IsQueued
    <3> QED BY <2>1, <2>2, <2>3, <3>1, <3>2 DEF BatchType
  <2>4. CASE ConsumeNow(i, Bucket, n) /\ step' = [step EXCEPT ![i] = @ + 1]
             /\ admitted' = Append(admitted, now) /\ failed' = failed
    <3>1. call' = call /\ step' \in [Items -> 0 .. Len(Cost)]
      BY <1>s, <2>1, <2>4 DEF ConsumeNow
    <3>2. \A j \in Items : IsQueued(j)' => step'[j] < Len(Cost)
      BY <1>s, <2>1, <2>4, <3>1 DEF IsQueued
    <3>3. admitted' \in Seq(Nat)
      BY <1>0, <2>4 DEF TypeOK, BatchType
    <3> QED BY <2>1, <2>2, <2>4, <3>1, <3>2, <3>3 DEF BatchType
  <2>5. CASE ConsumeQueued(i, Bucket, n) /\ admitted' = Append(admitted, AdmitAt(Bucket, n))
             /\ UNCHANGED <<step, failed>>
    <3>1. \A j \in Items : j # i => (IsQueued(j)' <=> IsQueued(j))
      BY <1>0, <2>5 DEF ConsumeQueued, IsQueued, TypeOK
    <3>2. \A j \in Items : IsQueued(j)' => step'[j] < Len(Cost)
      BY <1>s, <2>1, <2>5, <3>1
    <3>3. AdmitAt(Bucket, n) \in Nat
      BY <1>0, <2>1, GrantByHistory DEF GrantedAt, IInv
    <3>4. admitted' \in Seq(Nat)
      BY <2>5, <3>3 DEF BatchType
    <3> QED BY <2>1, <2>2, <2>5, <3>2, <3>4 DEF BatchType
  <2>6. CASE ConsumeRejected(i, Bucket, n) /\ failed' = failed \cup {i}
             /\ UNCHANGED <<step, admitted>>
    <3>1. call' = call
      BY <2>6 DEF ConsumeRejected
    <3> QED BY <2>1, <2>2, <2>6, <3>1 DEF BatchType, IsQueued
  <2> QED BY <1>1, <2>3, <2>4, <2>5, <2>6 DEF ItemCall
<1>2. ASSUME NEW i \in Items, ItemWake(i) PROVE BatchType'
  <2>1. /\ IsQueued(i) /\ call' = [call EXCEPT ![i] = Idle] /\ limits' = limits
        /\ step' = [step EXCEPT ![i] = @ + 1]
        /\ UNCHANGED <<phase, budgeted, failed, admitted, crowded>>
    BY <1>2 DEF ItemWake, Wake
  <2>2. step[i] < Len(Cost) /\ phase = "running"
    BY <2>1 DEF BatchType
  <2>3. step' \in [Items -> 0 .. Len(Cost)]
    BY <1>s, <2>1, <2>2
  <2>4. \A j \in Items : IsQueued(j)' => j # i /\ IsQueued(j)
    BY <1>0, <2>1 DEF IsQueued, Idle, TypeOK
  <2>5. \A j \in Items : IsQueued(j)' => step'[j] < Len(Cost)
    BY <1>s, <2>1, <2>4
  <2> QED BY <2>1, <2>2, <2>3, <2>5 DEF BatchType
<1>3. ASSUME NEW c \in Others, NEW n \in 1 .. Limit, OtherCall(c, n) PROVE BatchType'
  <2>1. UNCHANGED <<phase, budgeted, step, failed, admitted>> /\ limits' = limits
        /\ Consume(c, Bucket, n) /\ crowded' \in BOOLEAN
    BY <1>3 DEF OtherCall, Consume, ConsumeUnlimited, ConsumeNow, ConsumeQueued, ConsumeRejected
  <2>2. \A j \in Items : call'[j] = call[j]
    <3>1. c \notin Items /\ c \in Callers
      BY DEF Others
    <3>2. call' = call \/ \E r : call' = [call EXCEPT ![c] = r]
      BY <2>1 DEF Consume, ConsumeUnlimited, ConsumeNow, ConsumeQueued, ConsumeRejected
    <3> QED BY <1>0, <3>1, <3>2 DEF TypeOK
  <2> QED BY <2>1, <2>2 DEF BatchType, IsQueued
<1>4. ASSUME NEW c \in Others, OtherWake(c) PROVE BatchType'
  <2>1. UNCHANGED bvars /\ limits' = limits /\ call' = [call EXCEPT ![c] = Idle]
        /\ c \notin Items
    BY <1>4 DEF OtherWake, Wake, Others
  <2>2. \A j \in Items : call'[j] = call[j]
    BY <1>0, <2>1 DEF TypeOK
  <2> QED BY <2>1, <2>2 DEF BatchType, IsQueued, bvars
<1>5. ASSUME Shutdown PROVE BatchType'
  <2>1. /\ limits' = {} /\ failed' = failed \cup (pending \cap Items)
        /\ call' = [c \in Callers |-> IF c \in pending THEN Idle ELSE call[c]]
        /\ UNCHANGED <<phase, budgeted, step, admitted, crowded>>
    BY <1>5 DEF Shutdown, Destroy
  <2>2. \A j \in Items : IsQueued(j)' => IsQueued(j)
    BY <1>0, <2>1 DEF IsQueued, Idle
  <2>3. phase # "running" => pending \cap Items = {}
    BY <1>0 DEF TimersMatchSleepers, BatchType
  <2> QED BY <2>1, <2>2, <2>3 DEF BatchType
<1>6. ASSUME Refuse \/ Accept PROVE BatchType'
  BY <1>6 DEF Refuse, Accept, BatchType, IsQueued, vars
<1>7. ASSUME BTick \/ BStop \/ UNCHANGED allvars PROVE BatchType'
  BY <1>7 DEF BTick, Tick, BStop, Stop, allvars, vars, bvars, BatchType, IsQueued
<1> QED
  BY <1>1, <1>2, <1>3, <1>4, <1>5, <1>6, <1>7 DEF BNext
-----------------------------------------------------------------------------
\* The consume calls item j has made, the one it sleeps in included.
Reach(j, made, busy) == made[j] + (IF j \in busy THEN 1 ELSE 0)

\* r numbers the n admissions by the item and the consume call each is of.
Numbers(r, n, made, busy) ==
    /\ r \in [1 .. n -> Items \X (1 .. Len(Cost))]
    /\ \A i, j \in 1 .. n : r[i] = r[j] => i = j
    /\ \A j \in 1 .. n : r[j][2] <= Reach(r[j][1], made, busy)

Busy == {i \in Items : IsQueued(i)}

\* So there are no more admissions than requests.
LEMMA NoMoreThanRequests ==
    ASSUME NEW r, NEW n \in Nat, NEW made, NEW busy, Numbers(r, n, made, busy)
    PROVE  n <= Requests
<1> DEFINE S == 1 .. n
           T == Items \X (1 .. Len(Cost))
<1>0. Requests \in Nat /\ ItemCount \in Nat /\ Len(Cost) \in Nat
  BY RequestShape
<1>a. ASSUME NEW b \in Nat PROVE IsFiniteSet(1 .. b) /\ Cardinality(1 .. b) = b
  BY FS_Interval
<1>1. IsFiniteSet(S) /\ Cardinality(S) = n
  BY <1>a
<1>2. IsFiniteSet(Items) /\ Cardinality(Items) = ItemCount
  BY <1>0, <1>a DEF Items
<1>3. IsFiniteSet(1 .. Len(Cost)) /\ Cardinality(1 .. Len(Cost)) = Len(Cost)
  BY <1>0, <1>a
<1>4. IsFiniteSet(T) /\ Cardinality(T) = Requests
  BY <1>2, <1>3, FS_Product DEF Requests
<1>5. r \in [S -> T] /\ \A i, j \in S : r[i] = r[j] => i = j
  BY DEF Numbers
<1> HIDE DEF S, T
<1>6. ~(Cardinality(T) < Cardinality(S))
  BY <1>1, <1>4, <1>5, FS_PigeonHole
<1> QED BY <1>0, <1>1, <1>4, <1>6

\* A call that reserves is one more.
LEMMA NumberNext ==
    ASSUME NEW r, NEW n \in Nat, NEW made, NEW busy, NEW made1, NEW busy1,
           Numbers(r, n, made, busy),
           \A j \in Items : /\ Reach(j, made, busy) \in Nat /\ Reach(j, made1, busy1) \in Nat
                            /\ Reach(j, made, busy) <= Reach(j, made1, busy1),
           NEW i \in Items, Reach(i, made1, busy1) = Reach(i, made, busy) + 1,
           Reach(i, made1, busy1) \in 1 .. Len(Cost)
    PROVE  \E e : Numbers(e, n + 1, made1, busy1)
<1> DEFINE k == Reach(i, made1, busy1)
           e == [j \in 1 .. (n + 1) |-> IF j = n + 1 THEN <<i, k>> ELSE r[j]]
<1>1. /\ r \in [1 .. n -> Items \X (1 .. Len(Cost))]
      /\ \A j, h \in 1 .. n : r[j] = r[h] => j = h
      /\ \A j \in 1 .. n : r[j][2] <= Reach(r[j][1], made, busy)
  BY DEF Numbers
<1>2. k \in 1 .. Len(Cost) /\ k = Reach(i, made, busy) + 1 /\ Reach(i, made, busy) \in Nat
  OBVIOUS
<1>3. ASSUME NEW j \in 1 .. n
      PROVE  /\ r[j] \in Items \X (1 .. Len(Cost))
             /\ r[j] # <<i, k>>
             /\ r[j][2] <= Reach(r[j][1], made1, busy1)
  <2>1. r[j] \in Items \X (1 .. Len(Cost)) /\ r[j][1] \in Items /\ r[j][2] \in Nat
    BY <1>1, RequestShape
  <2>2. r[j][2] <= Reach(r[j][1], made, busy)
    BY <1>1
  <2>3. r[j][2] <= Reach(r[j][1], made1, busy1)
    BY <2>1, <2>2
  <2>4. ASSUME r[j] = <<i, k>> PROVE FALSE
    <3>1. r[j][1] = i /\ r[j][2] = k
      BY <2>4
    <3>2. k <= Reach(i, made, busy)
      BY <2>2, <3>1
    <3> QED BY <1>2, <3>2
  <2> QED BY <2>1, <2>3, <2>4
<1> HIDE DEF k
<1>4. /\ e[n + 1] = <<i, k>>
      /\ \A j \in 1 .. (n + 1) : j # n + 1 => j \in 1 .. n /\ e[j] = r[j]
  OBVIOUS
<1>5. ASSUME NEW j \in 1 .. (n + 1)
      PROVE  e[j] \in Items \X (1 .. Len(Cost)) /\ e[j][2] <= Reach(e[j][1], made1, busy1)
  <2>1. CASE j = n + 1
    <3>1. k <= Reach(i, made1, busy1)
      BY <1>2 DEF k
    <3> QED BY <1>2, <1>4, <2>1, <3>1
  <2>2. CASE j # n + 1
    BY <1>3, <1>4, <2>2
  <2> QED BY <2>1, <2>2
<1>6. e \in [1 .. (n + 1) -> Items \X (1 .. Len(Cost))]
  BY <1>5
<1> HIDE DEF e
<1>7. ASSUME NEW j \in 1 .. (n + 1), NEW h \in 1 .. (n + 1), e[j] = e[h]
      PROVE  j = h
  <2>1. CASE j = n + 1 /\ h = n + 1
    BY <2>1
  <2>2. CASE j = n + 1 /\ h # n + 1
    BY <1>3, <1>4, <1>7, <2>2
  <2>3. CASE j # n + 1 /\ h = n + 1
    BY <1>3, <1>4, <1>7, <2>3
  <2>4. CASE j # n + 1 /\ h # n + 1
    BY <1>1, <1>4, <1>7, <2>4
  <2> QED BY <2>1, <2>2, <2>3, <2>4
<1>8. Numbers(e, n + 1, made1, busy1)
  BY <1>5, <1>6, <1>7 DEF Numbers
<1> QED BY <1>8

\* Progress of the items only widens what a numbering may use.
LEMMA NumberKept ==
    ASSUME NEW r, NEW n \in Nat, NEW made, NEW busy, NEW made1, NEW busy1,
           Numbers(r, n, made, busy),
           \A j \in Items : /\ Reach(j, made, busy) \in Nat /\ Reach(j, made1, busy1) \in Nat
                            /\ Reach(j, made, busy) <= Reach(j, made1, busy1)
    PROVE  Numbers(r, n, made1, busy1)
<1>1. /\ r \in [1 .. n -> Items \X (1 .. Len(Cost))]
      /\ \A j, k \in 1 .. n : r[j] = r[k] => j = k
      /\ \A j \in 1 .. n : r[j][2] <= Reach(r[j][1], made, busy)
  BY DEF Numbers
<1>2. ASSUME NEW j \in 1 .. n
      PROVE  r[j][2] <= Reach(r[j][1], made1, busy1)
  <2>1. r[j][1] \in Items /\ r[j][2] \in Nat
    BY <1>1, RequestShape
  <2>2. r[j][2] <= Reach(r[j][1], made, busy)
    BY <1>1
  <2> QED BY <2>1, <2>2
<1> QED BY <1>1, <1>2 DEF Numbers
-----------------------------------------------------------------------------
\* Every item fits a batch that assertBulkCapacity lets through.
LEMMA AllItemsFit ==
    ASSUME NEW b, ItemsThatFit(b) >= ItemCount
    PROVE  \A i \in 1 .. ItemCount : b[i * Len(Cost)] - now <= MaxWait
<1> DEFINE fits(m) == \A i \in 1 .. m : b[i * Len(Cost)] - now <= MaxWait
           T == {d \in Nat : d <= ItemCount /\ fits(ItemCount - d)}
<1>0. ItemCount \in Nat
  BY RequestShape
<1>1. fits(0)
  OBVIOUS
<1>2. ItemsThatFit(b) = CHOOSE m \in 0 .. ItemCount :
                          fits(m) /\ \A h \in 0 .. ItemCount : fits(h) => h <= m
  BY DEF ItemsThatFit
<1> HIDE DEF fits
<1>3. ItemCount \in T
  <2>1. ItemCount - ItemCount = 0
    BY <1>0
  <2> QED BY <1>0, <1>1, <2>1
<1>4. PICK d \in T : \A y \in T : d <= y
  BY <1>3, LeastNat
<1>5. d \in Nat /\ d <= ItemCount /\ fits(ItemCount - d)
  BY <1>4
<1>6. ASSUME NEW h \in 0 .. ItemCount, fits(h) PROVE h <= ItemCount - d
  <2>1. ItemCount - h \in Nat /\ ItemCount - h <= ItemCount /\ ItemCount - (ItemCount - h) = h
    BY <1>0
  <2>2. ItemCount - h \in T
    BY <1>6, <2>1
  <2>3. d <= ItemCount - h
    BY <1>4, <2>2
  <2> QED BY <1>0, <1>5, <2>3
<1>7. ItemCount - d \in 0 .. ItemCount
  BY <1>0, <1>5
<1>8. \E m \in 0 .. ItemCount : fits(m) /\ \A h \in 0 .. ItemCount : fits(h) => h <= m
  BY <1>5, <1>6, <1>7
<1>9. ItemsThatFit(b) \in 0 .. ItemCount /\ fits(ItemsThatFit(b))
  BY <1>2, <1>8
<1>10. ItemsThatFit(b) = ItemCount
  BY <1>0, <1>9
<1> QED BY <1>9, <1>10 DEF fits

\* A projection does not go back in time, so that with its last request every
\* request of a batch is within the wait budget.
LEMMA ProjectionIsAscending ==
    ASSUME NEW q, NEW b, NEW t, Projected(q, b, t), NEW j \in 1 .. Requests, j + 1 <= Requests
    PROVE  b[j] \in Nat /\ b[j + 1] \in Nat /\ b[j] <= b[j + 1]
<1>0. Requests \in Nat
  BY RequestShape
<1>1. j \in 0 .. Requests /\ j - 1 \in 0 .. Requests /\ j + 1 \in 1 .. Requests /\ (j + 1) - 1 = j
  BY <1>0
<1>2. /\ q[j - 1] \in Seq(Nat) /\ q[j] \in Seq(Nat) /\ t \in Nat
      /\ b[j] \in Nat /\ b[j + 1] \in Nat
      /\ q[j] = q[j - 1] \o Repeat(b[j], CostOf(j))
      /\ b[j + 1] = EarliestAdmission(q[j], t, CostOf(j + 1))
  <2>1. /\ q \in [0 .. Requests -> Seq(Nat)] /\ t \in Nat
        /\ b \in Seq(Nat) /\ Len(b) = Requests
        /\ \A i \in 1 .. Requests : /\ b[i] = EarliestAdmission(q[i - 1], t, CostOf(i))
                                    /\ q[i] = q[i - 1] \o Repeat(b[i], CostOf(i))
    BY DEF Projected
  <2>2. b[j] \in Nat /\ b[j + 1] \in Nat
    BY <1>1, <2>1
  <2>3. b[j + 1] = EarliestAdmission(q[(j + 1) - 1], t, CostOf(j + 1))
    BY <1>1, <2>1
  <2> QED BY <1>1, <2>1, <2>2, <2>3
<1>3. CostOf(j) \in 1 .. Limit /\ CostOf(j + 1) \in 1 .. Limit /\ CostOf(j) \in Nat
      /\ CostOf(j) >= 1
  BY <1>1, RequestShape
<1>4. /\ Len(q[j]) = Len(q[j - 1]) + CostOf(j)
      /\ \A i \in 1 .. (Len(q[j - 1]) + CostOf(j)) : i > Len(q[j - 1]) => q[j][i] = b[j]
  <2> DEFINE s == q[j - 1]
             v == b[j]
             k == CostOf(j)
  <2>1. s \in Seq(Nat) /\ v \in Nat /\ k \in Nat /\ q[j] = s \o Repeat(v, k)
    BY <1>2, <1>3
  <2> HIDE DEF s, v, k
  <2>2. /\ Len(s \o Repeat(v, k)) = Len(s) + k
        /\ \A i \in 1 .. (Len(s) + k) : i > Len(s) => (s \o Repeat(v, k))[i] = v
    BY <2>1, AppendRepeat
  <2> QED BY <2>1, <2>2 DEF s, v, k
<1>5. Len(q[j]) > 0 /\ Len(q[j]) > Len(q[j - 1])
      /\ Len(q[j]) \in 1 .. (Len(q[j - 1]) + CostOf(j))
  <2>1. Len(q[j - 1]) \in Nat
    BY <1>2
  <2> DEFINE x == Len(q[j - 1])
             y == Len(q[j])
  <2>2. x \in Nat /\ y = x + CostOf(j)
    BY <1>4, <2>1
  <2> HIDE DEF x, y
  <2>3. y > 0 /\ y > x /\ y \in 1 .. (x + CostOf(j))
    BY <1>3, <2>2
  <2> QED BY <2>3 DEF x, y
<1>6. q[j][Len(q[j])] = b[j]
  BY <1>4, <1>5
<1>7. Len(q[j]) > 0 => b[j + 1] >= q[j][Len(q[j])]
  BY <1>2, <1>3, Earliest
<1> QED BY <1>2, <1>5, <1>6, <1>7

LEMMA WithinBudget ==
    ASSUME NEW q, NEW b, NEW t, Projected(q, b, t), Requests > 0 => b[Requests] - t <= MaxWait
    PROVE  \A j \in 1 .. Requests : b[j] - t <= MaxWait
<1> DEFINE T == {d \in Nat : d < Requests /\ ~(b[Requests - d] - t <= MaxWait)}
<1>0. Requests \in Nat /\ MaxWait \in Nat /\ t \in Nat
  BY RequestShape, LimiterAssumption DEF Projected
<1>1. T = {}
  <2> SUFFICES ASSUME T # {} PROVE FALSE
    OBVIOUS
  <2>1. PICK d \in T : \A y \in T : d <= y
    BY LeastNat
  <2>2. d \in Nat /\ d < Requests /\ ~(b[Requests - d] - t <= MaxWait)
    BY <2>1
  <2>3. d # 0
    <3>1. Requests - 0 = Requests
      BY <1>0
    <3>2. d = 0 => Requests > 0
      BY <1>0, <2>2
    <3> QED BY <2>2, <3>1, <3>2
  <2>4. d - 1 \in Nat /\ d - 1 < Requests /\ ~(d <= d - 1)
    BY <1>0, <2>2, <2>3
  <2>5. b[Requests - (d - 1)] - t <= MaxWait
    BY <2>1, <2>4
  <2>6. /\ Requests - d \in 1 .. Requests /\ (Requests - d) + 1 <= Requests
        /\ (Requests - d) + 1 = Requests - (d - 1)
    BY <1>0, <2>2, <2>3
  <2> DEFINE x == b[Requests - d]
             y == b[Requests - (d - 1)]
  <2>7. x \in Nat /\ y \in Nat /\ x <= y
    BY <2>6, ProjectionIsAscending
  <2>8. ~(x - t <= MaxWait) /\ y - t <= MaxWait
    BY <2>2, <2>5
  <2> HIDE DEF x, y
  <2> QED BY <1>0, <2>7, <2>8
<1>2. ASSUME NEW j \in 1 .. Requests PROVE b[j] - t <= MaxWait
  <2>1. /\ Requests - j \in Nat /\ Requests - j < Requests
        /\ Requests - (Requests - j) = j
    BY <1>0
  <2>2. Requests - j \notin T
    BY <1>1
  <2> QED BY <2>1, <2>2
<1> QED BY <1>2
-----------------------------------------------------------------------------
\* A batch on its budget: q and t are what it was projected on, m its
\* admissions so far, g the history of the bucket, u the time, c whether
\* anybody else has reserved since.
Budget(q, t, b, m, g, u, c) ==
    /\ Projected(q, b, t)
    /\ t <= u
    /\ \A j \in 1 .. Requests : b[j] - t <= MaxWait
    /\ Ahead(q[m], g)
    /\ ~c => Aligned(q[m], g, t, u - t)

OnBudget == \E q, t : Budget(q, t, budgeted, Len(admitted), ledger[Bucket], now, crowded)

Numbered == \E r : Numbers(r, Len(admitted), step, Busy)

BatchInv ==
    /\ phase = "running" =>
        /\ Len(admitted) <= Requests
        /\ \A j \in 1 .. Len(admitted) : admitted[j] >= budgeted[j]
    /\ ~crowded /\ Bucket \in limits => failed = {}
    /\ phase = "running" /\ Bucket \in limits => Numbered /\ OnBudget

\* Every consume call of the batch asks for the same number of tokens.
SameCost == \A k, l \in 1 .. Len(Cost) : Cost[k] = Cost[l]

\* A projection starts from what the limiter holds.
LEMMA BudgetStarts ==
    ASSUME IInv, ItemsThatFit(Projection) >= ItemCount, NEW c
    PROVE  Budget(ProjectedQueue, now, Projection, 0, ledger[Bucket], now, c)
<1> DEFINE r == Current(Bucket)
           g == ledger[Bucket]
           q == ProjectedQueue
           o == Len(g) - Len(r)
<1>0. Bucket \in Keys /\ TypeOK /\ AllQueuesOK
  BY BatchAssumption, LimiterAssumption DEF IInv
<1>1. /\ now \in Nat /\ r \in Seq(Nat) /\ g \in Seq(Nat) /\ QueueOK(r, g, now)
  BY <1>0, CurrentWindow DEF TypeOK
<1>2. q[0] = r /\ Projected(q, Projection, now)
  BY <1>1, ProjectionIs
<1>3. Requests > 0 => Projection[Requests] - now <= MaxWait
  <2> SUFFICES ASSUME Requests > 0 PROVE Projection[Requests] - now <= MaxWait
    OBVIOUS
  <2> DEFINE l == Len(Cost)
  <2>1. ItemCount \in Nat /\ l \in Nat /\ Requests = ItemCount * l
    BY RequestShape DEF Requests
  <2> HIDE DEF l
  <2>2. ItemCount \in 1 .. ItemCount
    BY <2>1
  <2>3. Projection[ItemCount * l] - now <= MaxWait
    BY <2>2, AllItemsFit DEF l
  <2> QED BY <2>1, <2>3
<1>4. \A j \in 1 .. Requests : Projection[j] - now <= MaxWait
  BY <1>2, <1>3, WithinBudget
<1>5. /\ Len(r) \in Nat /\ Len(g) \in Nat /\ Len(r) <= Len(g)
      /\ \A i \in 1 .. Len(r) : r[i] = g[i + o] /\ r[i] \in Nat
      /\ \A i \in 1 .. o : now - g[i] >= Window
  BY <1>1 DEF QueueOK
<1> HIDE DEF r, g, q
<1>6. Ahead(r, g)
  <2> DEFINE f == [i \in 1 .. Len(r) |-> i + o]
  <2>1. \A i \in 1 .. Len(r) : f[i] = i + o /\ i + o \in 1 .. Len(g)
    BY <1>5
  <2>2. f \in [1 .. Len(r) -> 1 .. Len(g)]
    BY <2>1
  <2> HIDE DEF f
  <2>3. \A i, j \in 1 .. Len(r) : i <= j => f[j] - f[i] >= j - i
    BY <1>5, <2>1
  <2>4. \A i \in 1 .. Len(r) : r[i] <= g[f[i]]
    BY <1>5, <2>1
  <2>5. StandsFor(f, r, g)
    BY <2>2, <2>3, <2>4 DEF StandsFor
  <2> QED BY <2>5 DEF Ahead
<1>7. Aligned(r, g, now, now - now)
  <2>1. now - now = 0 /\ Window \in Nat
    BY <1>1, LimiterAssumption
  <2>2. \A i \in 1 .. Len(r) : g[i + o] <= r[i] + 0
    BY <1>5
  <2>3. ASSUME NEW i \in 1 .. o PROVE g[i] + Window <= now
    <3>1. g[i] \in Nat /\ now - g[i] >= Window
      BY <1>1, <1>5
    <3> QED BY <1>1, <2>1, <3>1
  <2> QED BY <1>5, <2>1, <2>2, <2>3 DEF Aligned
<1>8. now <= now
  BY <1>1
<1> QED BY <1>2, <1>4, <1>6, <1>7, <1>8 DEF Budget, q, g

\* The next request of the batch, at the instant consume computes for it.
LEMMA BudgetGrows ==
    ASSUME IInv, NEW q, NEW t, NEW m \in Nat, m + 1 \in 1 .. Requests, NEW n \in 1 .. Limit,
           n = CostOf(m + 1), NEW c \in BOOLEAN,
           Budget(q, t, budgeted, m, ledger[Bucket], now, c)
    PROVE  LET a == AdmitAt(Bucket, n)
           IN  /\ a \in Nat /\ budgeted[m + 1] \in Nat /\ budgeted[m + 1] <= a
               /\ ~c => a - now <= MaxWait
               /\ Budget(q, t, budgeted, m + 1, ledger[Bucket] \o Repeat(a, n), now, c)
<1> DEFINE a == AdmitAt(Bucket, n)
           g == ledger[Bucket]
           p == budgeted[m + 1]
           s == q[m]
<1>0. Bucket \in Keys /\ TypeOK /\ AllQueuesOK /\ Requests \in Nat /\ MaxWait \in Nat
  BY BatchAssumption, LimiterAssumption, RequestShape DEF IInv
<1>1. /\ now \in Nat /\ g \in Seq(Nat) /\ Ascending(g)
  BY <1>0 DEF TypeOK, AllQueuesOK, QueueOK
<1>2. GrantedAt(a, g, now, n) /\ a \in Nat
  BY <1>0, GrantByHistory DEF GrantedAt
<1>3. m \in 0 .. Requests /\ (m + 1) - 1 = m
  BY <1>0
<1>4. /\ s \in Seq(Nat) /\ t \in Nat /\ t <= now
      /\ p = EarliestAdmission(s, t, n)
      /\ q[m + 1] = s \o Repeat(p, n)
      /\ p - t <= MaxWait
      /\ Ahead(s, g)
      /\ ~c => Aligned(s, g, t, now - t)
      /\ Projected(q, budgeted, t)
      /\ \A j \in 1 .. Requests : budgeted[j] - t <= MaxWait
  BY <1>3 DEF Budget, Projected
<1> HIDE DEF a, g, p, s
<1>5. p \in Nat /\ p <= a /\ Ahead(s \o Repeat(p, n), g \o Repeat(a, n))
  BY <1>1, <1>2, <1>4, AheadGrows
<1>6. ASSUME ~c
      PROVE  a - now <= p - t /\ Aligned(s \o Repeat(p, n), g \o Repeat(a, n), t, now - t)
  BY <1>1, <1>2, <1>4, <1>6, AlignedGrows
<1>7. ~c => a - now <= MaxWait
  BY SMTT(30), <1>0, <1>1, <1>2, <1>4, <1>5, <1>6
<1>8. Budget(q, t, budgeted, m + 1, g \o Repeat(a, n), now, c)
  BY <1>4, <1>5, <1>6 DEF Budget
<1> QED BY <1>2, <1>5, <1>7, <1>8 DEF a, g, p

\* Time passes.
LEMMA BudgetWaits ==
    ASSUME NEW q, NEW t, NEW b, NEW m \in 0 .. Requests, NEW g \in Seq(Nat), NEW u \in Nat, NEW v \in Nat,
           u <= v, NEW c, Budget(q, t, b, m, g, u, c)
    PROVE  Budget(q, t, b, m, g, v, c)
<1>1. q[m] \in Seq(Nat) /\ t \in Nat /\ t <= u
  BY DEF Budget, Projected
<1>2. u - t \in Nat /\ v - t \in Nat /\ u - t <= v - t /\ t <= v
  BY <1>1
<1>3. Aligned(q[m], g, t, u - t) => Aligned(q[m], g, t, v - t)
  BY <1>1, <1>2, AlignedWaits
<1> QED BY <1>2, <1>3 DEF Budget

\* Others reserve.
LEMMA BudgetCrowded ==
    ASSUME NEW q, NEW t, NEW b, NEW m \in 0 .. Requests, NEW g \in Seq(Nat), NEW u, NEW c,
           Budget(q, t, b, m, g, u, c), NEW n \in Nat, NEW a \in Nat
    PROVE  Budget(q, t, b, m, g \o Repeat(a, n), u, TRUE)
<1>1. q[m] \in Seq(Nat) /\ Ahead(q[m], g)
  BY DEF Budget, Projected
<1>2. Ahead(q[m], g \o Repeat(a, n))
  BY <1>1, AheadStays
<1> QED BY <1>2 DEF Budget
-----------------------------------------------------------------------------
LEMMA BatchInvInit == BInit => BatchInv
<1> SUFFICES ASSUME BInit PROVE BatchInv
  OBVIOUS
<1> QED BY DEF BInit, BatchInv

\* A step that leaves the batch, its bucket and the clock alone.
LEMMA BatchFrame ==
    ASSUME BatchInv, UNCHANGED <<phase, budgeted, failed, admitted, crowded>>, limits' = limits,
           Numbered => Numbered', ledger'[Bucket] = ledger[Bucket], now' = now
    PROVE  BatchInv'
<1>1. OnBudget => OnBudget'
  BY DEF OnBudget
<1> QED BY <1>1 DEF BatchInv

\* The items that sleep, before and after a step that touches one of them.
LEMMA NumberedStep ==
    ASSUME BatchType, BatchType', Numbered, admitted' = admitted,
           \A j \in Items : \/ step'[j] = step[j] /\ (IsQueued(j) => IsQueued(j)')
                            \/ step'[j] = step[j] + 1
    PROVE  Numbered'
<1>1. PICK r : Numbers(r, Len(admitted), step, Busy)
  BY DEF Numbered
<1>2. /\ step \in [Items -> 0 .. Len(Cost)] /\ step' \in [Items -> 0 .. Len(Cost)]
      /\ Len(admitted) \in Nat
  BY DEF BatchType
<1> DEFINE made == step'
           busy == Busy'
<1>3. \A j \in Items : /\ Reach(j, step, Busy) \in Nat /\ Reach(j, made, busy) \in Nat
                       /\ Reach(j, step, Busy) <= Reach(j, made, busy)
  <2> SUFFICES ASSUME NEW j \in Items
               PROVE  /\ Reach(j, step, Busy) \in Nat /\ Reach(j, made, busy) \in Nat
                      /\ Reach(j, step, Busy) <= Reach(j, made, busy)
    OBVIOUS
  <2>1. \/ made[j] = step[j] /\ (j \in Busy => j \in busy)
        \/ made[j] = step[j] + 1
    BY DEF Busy
  <2>2. step[j] \in Nat /\ made[j] \in Nat
    BY <1>2, RequestShape
  <2> HIDE DEF made, busy
  <2> QED BY <2>1, <2>2 DEF Reach
<1> HIDE DEF made, busy
<1>4. Numbers(r, Len(admitted), made, busy)
  BY <1>1, <1>2, <1>3, NumberKept
<1> QED BY <1>4 DEF Numbered, made, busy

\* An item's call that reserves, now or later, is the next request projected.
LEMMA ItemReserves ==
    ASSUME SameCost, IInv, IInv', BatchType, BatchType', BatchInv, NEW i \in Items, MayCall(i),
           Bucket \in limits, Reserve(Bucket, Cost[step[i] + 1]),
           admitted' = Append(admitted, AdmitAt(Bucket, Cost[step[i] + 1])),
           \A j \in Items \ {i} : step'[j] = step[j] /\ (IsQueued(j) => IsQueued(j)'),
           \/ step'[i] = step[i] + 1 /\ ~IsQueued(i)'
           \/ step'[i] = step[i] /\ IsQueued(i)',
           UNCHANGED <<phase, budgeted, failed, crowded, limits, now>>
    PROVE  BatchInv'
<1> DEFINE m == Len(admitted)
           n == Cost[step[i] + 1]
           a == AdmitAt(Bucket, n)
<1>0. /\ Bucket \in Keys /\ phase = "running" /\ ~IsQueued(i)
      /\ step[i] + 1 \in 1 .. Len(Cost) /\ n \in 1 .. Limit
  BY NextCall
<1>1. /\ Numbered /\ OnBudget /\ m \in Nat /\ admitted \in Seq(Nat) /\ crowded \in BOOLEAN
      /\ \A j \in 1 .. m : admitted[j] >= budgeted[j]
  BY <1>0 DEF BatchInv, BatchType
<1>b. IsQueued(i)' => step'[i] = step[i]
  OBVIOUS
<1>2. Numbered' /\ m + 1 <= Requests
  <2>1. PICK r : Numbers(r, m, step, Busy)
    BY <1>1 DEF Numbered
  <2>2. /\ step \in [Items -> 0 .. Len(Cost)] /\ step' \in [Items -> 0 .. Len(Cost)]
        /\ i \notin Busy
        /\ \A j \in Items \ {i} : step'[j] = step[j] /\ (j \in Busy => j \in Busy')
        /\ step'[i] = step[i] + 1 \/ (step'[i] = step[i] /\ i \in Busy')
    BY <1>0 DEF BatchType, Busy
  <2>3. PICK e : Numbers(e, m + 1, step', Busy')
    <3> DEFINE made == step'
               busy == Busy'
    <3>1. /\ \A j \in Items : step[j] \in Nat /\ made[j] \in Nat
          /\ \A j \in Items \ {i} : made[j] = step[j] /\ (j \in Busy => j \in busy)
          /\ made[i] = step[i] + 1 \/ (made[i] = step[i] /\ i \in busy)
      BY <2>2, RequestShape
    <3>2. i \in busy => made[i] = step[i]
      BY <1>b DEF Busy
    <3> HIDE DEF made, busy, m
    <3>3. /\ \A j \in Items : /\ Reach(j, step, Busy) \in Nat /\ Reach(j, made, busy) \in Nat
                              /\ Reach(j, step, Busy) <= Reach(j, made, busy)
          /\ Reach(i, made, busy) = Reach(i, step, Busy) + 1
          /\ Reach(i, made, busy) = step[i] + 1
      BY SMTT(30), <2>2, <3>1, <3>2 DEF Reach
    <3>4. \E e : Numbers(e, m + 1, made, busy)
      BY <1>0, <1>1, <2>1, <3>3, NumberNext
    <3> QED BY <3>4 DEF made, busy
  <2>4. m + 1 <= Requests
    BY <1>1, <2>3, NoMoreThanRequests
  <2>5. Len(admitted') = m + 1
    BY <1>1
  <2> QED BY <2>3, <2>4, <2>5 DEF Numbered
<1>3. m + 1 \in 1 .. Requests /\ n = CostOf(m + 1)
  <2>1. m + 1 \in 1 .. Requests
    BY <1>1, <1>2, RequestShape
  <2>2. (((m + 1) - 1) % Len(Cost)) + 1 \in 1 .. Len(Cost)
    BY <2>1, RequestShape
  <2> QED BY <1>0, <2>1, <2>2 DEF CostOf, SameCost
<1>4. PICK q, t : Budget(q, t, budgeted, m, ledger[Bucket], now, crowded)
  BY <1>1 DEF OnBudget
<1>5. /\ a \in Nat /\ budgeted[m + 1] \in Nat /\ budgeted[m + 1] <= a
      /\ Budget(q, t, budgeted, m + 1, ledger[Bucket] \o Repeat(a, n), now, crowded)
  BY <1>0, <1>1, <1>3, <1>4, BudgetGrows
<1>6. ledger'[Bucket] = ledger[Bucket] \o Repeat(a, n)
  BY <1>0 DEF Reserve, IInv, TypeOK
<1> HIDE DEF m, a
<1>7. /\ admitted' = Append(admitted, a) /\ Len(admitted') = m + 1
      /\ admitted'[m + 1] = a /\ \A j \in 1 .. m : admitted'[j] = admitted[j]
  BY <1>1, <1>5 DEF m, a
<1>8. \A j \in 1 .. Len(admitted') : admitted'[j] >= budgeted'[j]
  <2> SUFFICES ASSUME NEW j \in 1 .. (m + 1) PROVE admitted'[j] >= budgeted[j]
    BY <1>7
  <2>1. CASE j = m + 1
    BY <1>5, <1>7, <2>1
  <2>2. CASE j # m + 1
    <3>1. j \in 1 .. m
      BY <1>1, <2>2
    <3> QED BY <1>1, <1>7, <3>1
  <2> QED BY <2>1, <2>2
<1>9. OnBudget'
  BY <1>5, <1>6, <1>7 DEF OnBudget
<1> QED BY <1>0, <1>2, <1>7, <1>8, <1>9 DEF BatchInv

\* An item's call is rejected only where others were let in between.
LEMMA RejectedIsCrowded ==
    ASSUME SameCost, IInv, BatchType, BatchInv, NEW i \in Items, MayCall(i),
           Bucket \in limits, AdmitAt(Bucket, Cost[step[i] + 1]) - now > MaxWait
    PROVE  crowded
<1> DEFINE m == Len(admitted)
           n == Cost[step[i] + 1]
           a == AdmitAt(Bucket, n)
<1>0. /\ Bucket \in Keys /\ phase = "running" /\ ~IsQueued(i)
      /\ step[i] + 1 \in 1 .. Len(Cost) /\ n \in 1 .. Limit
  BY NextCall
<1>1. Numbered /\ OnBudget /\ m \in Nat /\ crowded \in BOOLEAN
  BY <1>0 DEF BatchInv, BatchType
<1>2. m + 1 <= Requests
  <2>1. PICK r : Numbers(r, m, step, Busy)
    BY <1>1 DEF Numbered
  <2> DEFINE made == [step EXCEPT ![i] = step[i] + 1]
  <2>2. /\ step \in [Items -> 0 .. Len(Cost)] /\ made \in [Items -> 0 .. Len(Cost)]
        /\ i \notin Busy /\ made[i] = step[i] + 1
        /\ \A j \in Items \ {i} : made[j] = step[j] /\ (j \in Busy => j \in Busy)
    BY <1>0, RequestShape DEF BatchType, Busy
  <2> HIDE DEF made
  <2>3. /\ \A j \in Items : /\ Reach(j, step, Busy) \in Nat /\ Reach(j, made, Busy) \in Nat
                            /\ Reach(j, step, Busy) <= Reach(j, made, Busy)
        /\ Reach(i, made, Busy) = Reach(i, step, Busy) + 1
        /\ Reach(i, made, Busy) = step[i] + 1
    <3>1. \A j \in Items : step[j] \in Nat /\ made[j] \in Nat
      BY <2>2, RequestShape
    <3> QED BY <2>2, <3>1 DEF Reach
  <2>4. PICK e : Numbers(e, m + 1, made, Busy)
    BY <1>0, <1>1, <2>1, <2>3, NumberNext
  <2> QED BY <1>1, <2>4, NoMoreThanRequests
<1>3. m + 1 \in 1 .. Requests /\ n = CostOf(m + 1)
  <2>1. m + 1 \in 1 .. Requests
    BY <1>1, <1>2, RequestShape
  <2>2. (((m + 1) - 1) % Len(Cost)) + 1 \in 1 .. Len(Cost)
    BY <2>1, RequestShape
  <2> QED BY <1>0, <2>1, <2>2 DEF CostOf, SameCost
<1>4. PICK q, t : Budget(q, t, budgeted, m, ledger[Bucket], now, crowded)
  BY <1>1 DEF OnBudget
<1>5. a \in Nat /\ (~crowded => a - now <= MaxWait)
  BY <1>0, <1>1, <1>3, <1>4, BudgetGrows
<1>6. now \in Nat /\ MaxWait \in Nat
  BY LimiterAssumption DEF IInv, TypeOK
<1> HIDE DEF a
<1>7. ~(a - now <= MaxWait)
  BY <1>5, <1>6 DEF a
<1> QED BY <1>5, <1>7

\* Every action keeps the batch on its budget.
LEMMA BatchInvStep ==
    ASSUME SameCost, IInv, IInv', BatchType, BatchType', BatchInv, [BNext]_allvars
    PROVE  BatchInv'
<1>0. /\ TypeOK /\ AllQueuesOK /\ TimersMatchSleepers /\ Bucket \in Keys /\ Items \subseteq Callers
      /\ Bucket \in LimitedKeys
  BY BatchAssumption, LimiterAssumption DEF IInv
<1>1. ASSUME NEW i \in Items, ItemCall(i) PROVE BatchInv'
  <2> DEFINE n == Cost[step[i] + 1]
  <2>1. /\ phase = "running" /\ ~IsQueued(i) /\ i \in Callers /\ n \in 1 .. Limit
        /\ MayCall(i) /\ UNCHANGED <<phase, budgeted, crowded>>
    BY <1>1, NextCall DEF ItemCall
  <2>2. step \in [Items -> 0 .. Len(Cost)]
    BY DEF BatchType
  <2>3. CASE ConsumeUnlimited(i, Bucket, n) /\ step' = [step EXCEPT ![i] = @ + 1]
             /\ UNCHANGED <<failed, admitted>>
    <3>1. Bucket \notin limits /\ limits' = limits
      BY <2>3 DEF ConsumeUnlimited
    <3> QED BY <2>1, <2>3, <3>1 DEF BatchInv
  <2>4. CASE ConsumeNow(i, Bucket, n) /\ step' = [step EXCEPT ![i] = @ + 1]
             /\ admitted' = Append(admitted, now) /\ failed' = failed
    <3>1. /\ Bucket \in limits /\ Reserve(Bucket, n) /\ AdmitAt(Bucket, n) = now
          /\ UNCHANGED <<now, limits, call>>
      BY <2>4 DEF ConsumeNow
    <3>2. /\ step'[i] = step[i] + 1 /\ ~IsQueued(i)'
          /\ \A j \in Items \ {i} : step'[j] = step[j] /\ (IsQueued(j) => IsQueued(j)')
      BY <2>1, <2>2, <2>4, <3>1 DEF IsQueued
    <3> QED BY <2>1, <2>4, <3>1, <3>2, ItemReserves
  <2>5. CASE ConsumeQueued(i, Bucket, n) /\ admitted' = Append(admitted, AdmitAt(Bucket, n))
             /\ UNCHANGED <<step, failed>>
    <3>1. /\ Bucket \in limits /\ Reserve(Bucket, n) /\ UNCHANGED <<now, limits>>
          /\ call' = [call EXCEPT ![i] = Queued(Bucket, n, AdmitAt(Bucket, n), Len(ledger[Bucket]) + n)]
      BY <2>5 DEF ConsumeQueued
    <3>2. IsQueued(i)' /\ \A j \in Items \ {i} : IsQueued(j) => IsQueued(j)'
      BY <1>0, <2>1, <3>1 DEF IsQueued, Queued, TypeOK
    <3> QED BY <2>1, <2>5, <3>1, <3>2, ItemReserves
  <2>6. CASE ConsumeRejected(i, Bucket, n) /\ failed' = failed \cup {i}
             /\ UNCHANGED <<step, admitted>>
    <3>1. /\ Bucket \in limits /\ AdmitAt(Bucket, n) - now > MaxWait
          /\ UNCHANGED <<now, limits, call, ledger>>
      BY <2>6 DEF ConsumeRejected
    <3>2. crowded
      BY <2>1, <3>1, RejectedIsCrowded
    <3>3. Numbered => Numbered'
      BY <2>6, <3>1 DEF Numbered, Busy, IsQueued
    <3>4. OnBudget => OnBudget'
      BY <2>1, <2>6, <3>1 DEF OnBudget
    <3> QED BY <2>1, <2>6, <3>1, <3>2, <3>3, <3>4 DEF BatchInv
  <2> QED BY <1>1, <2>3, <2>4, <2>5, <2>6 DEF ItemCall
<1>2. ASSUME NEW i \in Items, ItemWake(i) PROVE BatchInv'
  <2>1. /\ call' = [call EXCEPT ![i] = Idle] /\ UNCHANGED <<now, limits, ledger>>
        /\ step' = [step EXCEPT ![i] = @ + 1]
        /\ UNCHANGED <<phase, budgeted, failed, admitted, crowded>>
    BY <1>2 DEF ItemWake, Wake
  <2>2. \A j \in Items : \/ step'[j] = step[j] /\ (IsQueued(j) => IsQueued(j)')
                         \/ step'[j] = step[j] + 1
    BY <1>0, <2>1 DEF IsQueued, Idle, TypeOK, BatchType
  <2>3. Numbered => Numbered'
    BY <2>1, <2>2, NumberedStep
  <2> QED BY <2>1, <2>3, BatchFrame
<1>3. ASSUME NEW c \in Others, NEW n \in 1 .. Limit, OtherCall(c, n) PROVE BatchInv'
  <2>1. /\ c \in Callers /\ c \notin Items /\ Consume(c, Bucket, n)
        /\ UNCHANGED <<phase, budgeted, step, failed, admitted, now, limits>>
        /\ crowded' = (crowded \/ phase = "running")
    BY <1>3 DEF OtherCall, Others, Consume, ConsumeUnlimited, ConsumeNow, ConsumeQueued, ConsumeRejected
  <2>2. \A j \in Items : call'[j] = call[j]
    <3>1. call' = call \/ \E r : call' = [call EXCEPT ![c] = r]
      BY <2>1 DEF Consume, ConsumeUnlimited, ConsumeNow, ConsumeQueued, ConsumeRejected
    <3> QED BY <1>0, <2>1, <3>1 DEF TypeOK
  <2>3. Numbered => Numbered'
    BY <2>1, <2>2 DEF Numbered, Busy, IsQueued
  <2>4. crowded => crowded'
    BY <2>1
  <2>5. phase = "running" /\ Bucket \in limits /\ OnBudget => OnBudget'
    <3> SUFFICES ASSUME phase = "running", Bucket \in limits, OnBudget PROVE OnBudget'
      OBVIOUS
    <3>1. PICK q, t : Budget(q, t, budgeted, Len(admitted), ledger[Bucket], now, crowded)
      BY DEF OnBudget
    <3>2. crowded' = TRUE
      BY <2>1
    <3>3. /\ Len(admitted) \in 0 .. Requests /\ ledger[Bucket] \in Seq(Nat)
          /\ AdmitAt(Bucket, n) \in Nat /\ n \in Nat
      <4>1. Len(admitted) \in Nat /\ Len(admitted) <= Requests
        BY DEF BatchInv, BatchType
      <4>2. Len(admitted) \in 0 .. Requests
        BY <4>1, RequestShape
      <4>3. AdmitAt(Bucket, n) \in Nat
        BY <1>0, GrantByHistory DEF GrantedAt
      <4> QED BY <1>0, <4>2, <4>3 DEF TypeOK
    <3>4. ledger'[Bucket] = ledger[Bucket] \/ ledger'[Bucket] = ledger[Bucket] \o Repeat(AdmitAt(Bucket, n), n)
      BY <1>0, <2>1 DEF Consume, ConsumeUnlimited, ConsumeNow, ConsumeQueued, ConsumeRejected,
                        Reserve, TypeOK
    <3>5. CASE ledger'[Bucket] = ledger[Bucket]
      <4>1. Budget(q, t, budgeted, Len(admitted), ledger[Bucket], now, TRUE)
        BY <3>1 DEF Budget
      <4> QED BY <2>1, <3>2, <3>5, <4>1 DEF OnBudget
    <3>6. CASE ledger'[Bucket] = ledger[Bucket] \o Repeat(AdmitAt(Bucket, n), n)
      <4>1. Budget(q, t, budgeted, Len(admitted), ledger'[Bucket], now, TRUE)
        BY <3>1, <3>3, <3>6, BudgetCrowded
      <4> QED BY <2>1, <3>2, <4>1 DEF OnBudget
    <3> QED BY <3>4, <3>5, <3>6
  <2> QED BY <2>1, <2>3, <2>4, <2>5 DEF BatchInv
<1>4. ASSUME NEW c \in Others, OtherWake(c) PROVE BatchInv'
  <2>1. UNCHANGED <<phase, budgeted, step, failed, admitted, crowded, limits, now, ledger>>
        /\ call' = [call EXCEPT ![c] = Idle] /\ c \notin Items
    BY <1>4 DEF OtherWake, Wake, Others, bvars
  <2>2. \A j \in Items : call'[j] = call[j]
    BY <1>0, <2>1 DEF TypeOK
  <2>3. Numbered => Numbered'
    BY <2>1, <2>2 DEF Numbered, Busy, IsQueued
  <2> QED BY <2>1, <2>3, BatchFrame
<1>5. ASSUME Shutdown PROVE BatchInv'
  <2>1. limits' = {} /\ UNCHANGED <<phase, budgeted, admitted>>
    BY <1>5 DEF Shutdown, Destroy
  <2> QED BY <2>1 DEF BatchInv
<1>6. ASSUME Refuse PROVE BatchInv'
  BY <1>6 DEF Refuse, BatchInv, vars
<1>7. ASSUME Accept PROVE BatchInv'
  <2>1. /\ phase = "start" /\ Bucket \in limits /\ ItemsThatFit(Projection) >= ItemCount
        /\ phase' = "running" /\ budgeted' = Projection
        /\ UNCHANGED <<step, failed, admitted, crowded, now, limits, ledger, call>>
    BY <1>7 DEF Accept, vars
  <2>2. admitted = <<>> /\ failed = {} /\ Len(admitted) = 0
    BY <2>1 DEF BatchType
  <2>3. Budget(ProjectedQueue, now, Projection, 0, ledger[Bucket], now, crowded)
    BY <2>1, BudgetStarts
  <2>4. OnBudget'
    BY <2>1, <2>2, <2>3 DEF OnBudget
  <2>5. Numbered'
    <3> DEFINE r == [j \in 1 .. 0 |-> j]
    <3>1. Numbers(r, 0, step', Busy')
      BY DEF Numbers
    <3> QED BY <2>1, <2>2, <3>1 DEF Numbered
  <2>6. 0 <= Requests
    BY RequestShape
  <2> QED BY <2>1, <2>2, <2>4, <2>5, <2>6 DEF BatchInv
<1>8. ASSUME BTick PROVE BatchInv'
  <2>1. now' = now + 1 /\ UNCHANGED <<limits, call, ledger, phase, budgeted, step, failed, admitted, crowded>>
    BY <1>8 DEF BTick, Tick, bvars
  <2>2. Numbered => Numbered'
    BY <2>1 DEF Numbered, Busy, IsQueued
  <2>3. phase = "running" /\ OnBudget => OnBudget'
    <3> SUFFICES ASSUME phase = "running", OnBudget PROVE OnBudget'
      OBVIOUS
    <3>1. PICK q, t : Budget(q, t, budgeted, Len(admitted), ledger[Bucket], now, crowded)
      BY DEF OnBudget
    <3>2. Len(admitted) \in Nat /\ Len(admitted) <= Requests
      BY DEF BatchInv, BatchType
    <3>3. Len(admitted) \in 0 .. Requests
      BY <3>2, RequestShape
    <3>4. ledger[Bucket] \in Seq(Nat) /\ now \in Nat /\ now + 1 \in Nat /\ now <= now + 1
      BY <1>0 DEF TypeOK
    <3>5. Budget(q, t, budgeted, Len(admitted), ledger[Bucket], now + 1, crowded)
      BY <3>1, <3>3, <3>4, BudgetWaits
    <3> QED BY <2>1, <3>5 DEF OnBudget
  <2> QED BY <2>1, <2>2, <2>3 DEF BatchInv
<1>9. ASSUME BStop \/ UNCHANGED allvars PROVE BatchInv'
  <2>1. UNCHANGED <<limits, call, ledger, now, phase, budgeted, step, failed, admitted, crowded>>
    BY <1>9 DEF BStop, Stop, vars, bvars, allvars
  <2>2. Numbered => Numbered'
    BY <2>1 DEF Numbered, Busy, IsQueued
  <2> QED BY <2>1, <2>2, BatchFrame
<1> QED
  BY <1>1, <1>2, <1>3, <1>4, <1>5, <1>6, <1>7, <1>8, <1>9 DEF BNext

\* A batch only uses the limiter: whatever was proved of every run of the
\* limiter holds while the executor runs its items on it.
THEOREM BatchUsesTheLimiter == BSpec => Spec /\ [](IInv /\ BatchType)
<1>1. BInit => Init /\ IInv /\ BatchType
  BY InitIInv, BatchTypeInit DEF BInit
<1>2. IInv /\ BatchType /\ [BNext]_allvars => [Next]_vars /\ IInv' /\ BatchType'
  BY BatchSteps, StepIInv, BatchTypeStep
<1> QED BY <1>1, <1>2, PTL DEF BSpec, Spec

\* The invariant of a batch whose consume calls all cost the same.
LEMMA BatchInvariance ==
    ASSUME SameCost
    PROVE  BSpec => []BatchInv
<1>1. BInit => BatchInv
  BY BatchInvInit
<1>2. IInv /\ IInv' /\ BatchType /\ BatchType' /\ BatchInv /\ [BNext]_allvars => BatchInv'
  BY BatchInvStep
<1> QED BY <1>1, <1>2, BatchUsesTheLimiter, PTL DEF BSpec

\* What projectAdmissions promises: whoever else reserves in between, and in
\* whatever order the items of a group go on, no request of the batch is
\* admitted before the instant it was projected at.
THEOREM ProjectionBoundsBatch ==
    ASSUME SameCost
    PROVE  BSpec => []ProjectionIsLowerBound
<1>1. BatchType /\ BatchInv => ProjectionIsLowerBound
  BY DEF BatchType, BatchInv, ProjectionIsLowerBound
<1> QED BY <1>1, BatchInvariance, BatchUsesTheLimiter, PTL

\* What the check is there for: with nobody else on the bucket an accepted
\* batch is never rate limited half-way, however late its calls come.
THEOREM AcceptedBatchRuns ==
    ASSUME SameCost
    PROVE  BSpec => []AcceptedBatchIsNotCut
<1>1. BatchType /\ BatchInv => AcceptedBatchIsNotCut
  BY BatchAssumption DEF BatchType, BatchInv, AcceptedBatchIsNotCut
<1> QED BY <1>1, BatchInvariance, BatchUsesTheLimiter, PTL
=============================================================================
