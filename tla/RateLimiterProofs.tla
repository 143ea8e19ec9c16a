-------------------------- MODULE RateLimiterProofs --------------------------
(***************************************************************************)
(* The rate limiter, for any number of callers, keys, cache entries and    *)
(* any policy: the throttle of the eviction warning neither floods the log *)
(* nor loses an eviction; a key that is not evicted has one bucket however *)
(* its callers race, and gets its burst and what refills and no more.      *)
(***************************************************************************)
EXTENDS RateLimiter, FiniteSetTheorems, TLAPS

WarnTypes ==
    /\ now \in Nat
    /\ nextRun \in Nat
    /\ warned \in Seq(Nat)
    /\ lost \subseteq Nat

\* nextRun is the end of the interval the last warning opened.
NextRunFollows ==
    /\ Len(warned) = 0 => nextRun = 0
    /\ Len(warned) > 0 => nextRun = warned[Len(warned)] + WarnEvery

WarnedBefore == \A i \in 1..Len(warned) : warned[i] <= now

\* The inductive invariant.
WarnInv == WarnTypes /\ NextRunFollows /\ WarnedBefore /\ WarningsApart /\ LossReported

\* Nothing has been reported at the start.
LEMMA InitWarnInv == Init => WarnInv
BY DEF Init, WarnInv, WarnTypes, NextRunFollows, WarnedBefore, WarningsApart, LossReported

\* A warning that is let through.
LEMMA RunKeepsWarnInv ==
    ASSUME WarnInv, now >= nextRun,
           warned' = Append(warned, now), nextRun' = now + WarnEvery,
           lost' = lost \cup {now}, now' = now
    PROVE  WarnInv'
<1> USE RateLimiterAssumption
<1>1. WarnTypes'
  BY DEF WarnInv, WarnTypes
<1>2. /\ Len(warned) \in Nat
      /\ Len(warned') = Len(warned) + 1
      /\ warned'[Len(warned')] = now
      /\ \A i \in 1..Len(warned) : warned'[i] = warned[i] /\ warned[i] \in Nat
  BY DEF WarnInv, WarnTypes
<1>3. NextRunFollows' /\ WarnedBefore'
  BY <1>2 DEF WarnInv, WarnTypes, NextRunFollows, WarnedBefore
<1>4. WarningsApart'
  <2>1. SUFFICES ASSUME NEW i \in 1..Len(warned)
                 PROVE  warned'[i + 1] - warned'[i] >= WarnEvery
    BY <1>2 DEF WarningsApart
  <2>2. CASE i = Len(warned)
    BY <2>2, <1>2 DEF WarnInv, WarnTypes, NextRunFollows
  <2>3. CASE i < Len(warned)
    <3>1. warned'[i + 1] = warned[i + 1] /\ warned'[i] = warned[i] /\ i \in 1..(Len(warned) - 1)
      BY <2>3, <1>2
    <3> QED BY <3>1 DEF WarnInv, WarningsApart
  <2> QED BY <1>2, <2>2, <2>3
<1>5. LossReported'
  <2>1. ASSUME NEW t \in lost
        PROVE  \E i \in 1..Len(warned') : warned'[i] <= t /\ t - warned'[i] < WarnEvery
    BY <2>1, <1>2 DEF WarnInv, LossReported
  <2>2. warned'[Len(warned')] <= now /\ now - warned'[Len(warned')] < WarnEvery
    BY <1>2 DEF WarnInv, WarnTypes
  <2> QED BY <1>2, <2>1, <2>2 DEF LossReported
<1> QED BY <1>1, <1>3, <1>4, <1>5 DEF WarnInv

\* A warning that is suppressed: the last one is less than WarnEvery ago.
LEMMA SuppressKeepsWarnInv ==
    ASSUME WarnInv, now < nextRun,
           lost' = lost \cup {now}, UNCHANGED <<now, warned, nextRun>>
    PROVE  WarnInv'
<1>1. Len(warned) \in Nat /\ Len(warned) > 0
  BY DEF WarnInv, WarnTypes, NextRunFollows
<1>2. /\ Len(warned) \in 1..Len(warned)
      /\ warned[Len(warned)] <= now
      /\ now - warned[Len(warned)] < WarnEvery
  BY <1>1, RateLimiterAssumption DEF WarnInv, WarnTypes, NextRunFollows, WarnedBefore
<1>3. LossReported'
  BY <1>2 DEF WarnInv, LossReported
<1> QED BY <1>3 DEF WarnInv, WarnTypes, NextRunFollows, WarnedBefore, WarningsApart

\* Every step keeps the invariant; only OnEvict and Tick touch what it is about.
LEMMA StepKeepsWarnInv == WarnInv /\ [Next]_vars => WarnInv'
<1> SUFFICES ASSUME WarnInv, [Next]_vars PROVE WarnInv'
  OBVIOUS
<1>1. CASE UNCHANGED <<now, nextRun, warned, lost>>
  BY <1>1 DEF WarnInv, WarnTypes, NextRunFollows, WarnedBefore, WarningsApart, LossReported
<1>2. ASSUME NEW c \in Callers, OnEvict(c) PROVE WarnInv'
  <2>1. \/ UNCHANGED <<nextRun, warned, lost>>
        \/ Throttled(now) /\ lost' = lost \cup {now}
    BY <1>2 DEF OnEvict
  <2>2. now' = now
    BY <1>2 DEF OnEvict
  <2> QED
    BY <1>1, <2>1, <2>2, RunKeepsWarnInv, SuppressKeepsWarnInv
       DEF Throttled, WarnInv, WarnTypes
<1>3. CASE Tick
  <2>1. now' = now + 1 /\ UNCHANGED <<nextRun, warned, lost>>
    BY <1>3 DEF Tick
  <2> QED
    BY <2>1 DEF WarnInv, WarnTypes, NextRunFollows, WarnedBefore, WarningsApart, LossReported
<1>4. ASSUME NEW c \in Callers, Get(c) \/ PeekOrAdd(c) \/ ReadClock(c) \/ AllowN(c)
      PROVE  WarnInv'
  BY <1>4, <1>1 DEF Get, PeekOrAdd, ReadClock, AllowN
<1> QED BY <1>1, <1>2, <1>3, <1>4 DEF Next, Done, vars

\* The throttle and its history, in every reachable state.
THEOREM AlwaysWarnInv == Spec => []WarnInv
<1> QED BY InitWarnInv, StepKeepsWarnInv, PTL DEF Spec

\* Two warnings are never closer than WarnEvery.
THEOREM WarningsApartHolds == Spec => []WarningsApart
<1>1. WarnInv => WarningsApart
  BY DEF WarnInv
<1> QED BY <1>1, AlwaysWarnInv, PTL

\* Every eviction of spent tokens has a warning in the WarnEvery before it.
THEOREM LossReportedHolds == Spec => []LossReported
<1>1. WarnInv => LossReported
  BY DEF WarnInv
<1> QED BY <1>1, AlwaysWarnInv, PTL
-----------------------------------------------------------------------------
(***************************************************************************)
(* The buckets.                                                            *)
(***************************************************************************)

Adding == {c \in Callers : pc[c] = "add"}
Busy   == {c \in Callers : pc[c] # "idle"}

\* Types without their bounds: what TypeOK adds to them is counted below.
TypesInv ==
    /\ now \in Time
    /\ cache \in Seq([key : Keys, bucket : Buckets]) /\ Len(cache) <= Size
    /\ bucket \in [Buckets -> [credit : 0..Burst, last : Time]]
    /\ buckets \in Nat /\ calls \in 0..MaxCalls
    /\ pc \in [Callers -> {"idle", "add", "report", "clock", "allow"}]
    /\ key \in [Callers -> SUBSET Keys]
    /\ mine \in [Callers -> SUBSET Buckets]
    /\ stamp \in [Callers -> Time]
    /\ victim \in [Callers -> SUBSET Buckets]
    /\ nextRun \in 0..(MaxTime + WarnEvery)
    /\ grants \in [Keys -> [Time -> Nat]]
    /\ evicted \subseteq Keys /\ skewed \subseteq Keys
    /\ lost \subseteq Time
    /\ warned \in Seq(Time)

\* What a caller knows at each step: the key, and from the lookup on its bucket.
Knows(step, K, B) ==
    /\ step = "idle" => K = {} /\ B = {}
    /\ step = "add" => B = {} /\ \E k \in Keys : K = {k}
    /\ step \in {"report", "clock", "allow"} =>
         \E k \in Keys, b \in Buckets : K = {k} /\ B = {b}
CallerInv == \A c \in Callers : Knows(pc[c], key[c], mine[c])

\* Every bucket, and every grant, belongs to a call of its own.
CountInv ==
    /\ IsFiniteSet(Adding) /\ IsFiniteSet(Busy)
    /\ buckets + Cardinality(Adding) <= calls
    /\ \A k \in Keys, t \in Time : grants[k][t] + Cardinality(Busy) <= calls

Holds(s, e)  == \E i \in 1..Len(s) : s[i] = e
Cached(k, b) == Holds(cache, Entry(k, b))
Taken(k, b)  == \E c \in Callers : key[c] = {k} /\ mine[c] = {b}
Uses(k, b)   == Cached(k, b) \/ Taken(k, b)

\* A bucket serves one key, and a key that was never evicted has one bucket,
\* in the cache from the first time it is asked for.
BucketInv ==
    /\ \A k \in Keys, b \in Buckets : Uses(k, b) => b <= buckets
    /\ \A k, l \in Keys, b \in Buckets : Uses(k, b) /\ Uses(l, b) => k = l
    /\ \A k \in Keys \ evicted, a, b \in Buckets : Uses(k, a) /\ Uses(k, b) => a = b
    /\ \A k \in Keys \ evicted, b \in Buckets : Uses(k, b) => Cached(k, b)
    /\ \A k \in Keys \ evicted :
         (\E b \in Buckets : Cached(k, b)) \/ (\A t \in Time : grants[k][t] = 0)

\* Between is Granted for the grants g of one key.
Between(g, from, to) == g[to] - IF from = 0 THEN 0 ELSE g[from - 1]

\* A bucket has granted nothing after its last time, and up to that time its
\* grants and its credit fit the burst and the refill, from any time on.
Balanced(g, credit, last) ==
    /\ \A t \in Time : t >= last => g[t] = g[last]
    /\ \A from \in 0..last : Cost * Between(g, from, last) + credit <= Burst + (last - from)

CreditInv ==
    \A k \in Keys \ (evicted \cup skewed), b \in Buckets :
        Cached(k, b) => Balanced(grants[k], bucket[b].credit, bucket[b].last)

\* Nothing of the burst and the refill is lost: from some time on, what a bucket
\* granted and the credit it has left make up for them.
Spent(g, credit, last) ==
    /\ last = 0 \/ Between(g, last, last) > 0
    /\ \E from \in 0..last : credit + Cost * Between(g, from, last) >= Burst + (last - from)

Grows(g) == \A u, v \in Time : u <= v => g[u] <= g[v]

SpentInv ==
    \A k \in Keys :
        /\ Grows(grants[k])
        /\ k \notin skewed => \A b \in Buckets :
             Uses(k, b) => Spent(grants[k], bucket[b].credit, bucket[b].last)

\* The inductive invariant of the buckets.
LimiterInv ==
    TypesInv /\ CallerInv /\ CountInv /\ BucketInv /\ CreditInv /\ SpentInv /\ BurstPlusRefill
-----------------------------------------------------------------------------
\* Arithmetic of one bucket.

LEMMA Sizes == /\ Burst \in Nat /\ Cost \in Nat \ {0} /\ Cost <= Burst
               /\ 0 \in Time /\ MaxTime \in Nat /\ MaxCalls \in Nat
               /\ Size \in Nat \ {0} /\ WarnEvery \in Nat \ {0}
<1>1. ASSUME NEW n \in Nat \ {0}, NEW m \in Nat \ {0} PROVE n * m \in Nat /\ m <= n * m
  <2>1. n >= 1 /\ m >= 1
    OBVIOUS
  <2> QED BY <2>1
<1> QED BY <1>1, RateLimiterAssumption DEF Burst, Time

LEMMA OneMoreCost ==
    ASSUME NEW g \in Int
    PROVE  /\ Cost * (g + 1) = Cost * g + Cost /\ Cost * g \in Int
           /\ Cost * 0 = 0 /\ Cost * 1 = Cost
BY Sizes

LEMMA MoreCosts ==
    ASSUME NEW x \in Int, NEW y \in Int, y >= x
    PROVE  /\ Cost * y >= Cost * x /\ Cost * x \in Int /\ Cost * y \in Int
           /\ x >= 0 => Cost * x >= 0
<1>1. ASSUME NEW n \in Nat, NEW a \in Int, a >= 0 PROVE n * a >= 0 /\ n * a \in Int
  BY <1>1
<1>2. Cost * (y - x) >= 0 /\ Cost * (y - x) = Cost * y - Cost * x
  BY <1>1, Sizes
<1> QED BY <1>1, <1>2, Sizes

\* Min and Max of the community modules on the sets CreditAt takes them of.
LEMMA MinOfTwo ==
    ASSUME NEW a \in Int, NEW b \in Int
    PROVE  Min({a, b}) = IF a <= b THEN a ELSE b
<1> DEFINE m == IF a <= b THEN a ELSE b
<1>1. m \in {a, b} /\ \A y \in {a, b} : m <= y
  OBVIOUS
<1>2. \A x \in {a, b} : (\A y \in {a, b} : x <= y) => x = m
  OBVIOUS
<1> QED BY <1>1, <1>2 DEF Min

LEMMA MaxOfTwo ==
    ASSUME NEW a \in Int, NEW b \in Int
    PROVE  Max({a, b}) = IF a <= b THEN b ELSE a
<1> DEFINE m == IF a <= b THEN b ELSE a
<1>1. m \in {a, b} /\ \A y \in {a, b} : m >= y
  OBVIOUS
<1>2. \A x \in {a, b} : (\A y \in {a, b} : x >= y) => x = m
  OBVIOUS
<1> QED BY <1>1, <1>2 DEF Max

LEMMA CreditIs ==
    ASSUME TypesInv, NEW b \in Buckets, NEW t \in Time
    PROVE  /\ CreditAt(b, t) \in 0..Burst
           /\ t >= bucket[b].last =>
                /\ CreditAt(b, t) <= bucket[b].credit + (t - bucket[b].last)
                /\ CreditAt(b, t) = Burst \/ CreditAt(b, t) = bucket[b].credit + (t - bucket[b].last)
           /\ bucket[b].credit \in 0..Burst /\ bucket[b].last \in Time
<1> DEFINE c == bucket[b].credit  l == bucket[b].last  e == Max({0, t - l})
<1>1. c \in 0..Burst /\ l \in Time
  BY DEF TypesInv
<1>2. CreditAt(b, t) = Min({Burst, c + e})
  BY DEF CreditAt
<1> HIDE DEF c, l
<1>3. t - l \in Int
  BY <1>1 DEF Time
<1>4. e = IF 0 <= t - l THEN t - l ELSE 0
  BY <1>3, MaxOfTwo
<1> HIDE DEF e
<1>5. c + e \in Nat /\ (t >= l => c + e = c + (t - l))
  BY <1>1, <1>4, Sizes DEF Time
<1>6. CreditAt(b, t) = IF Burst <= c + e THEN Burst ELSE c + e
  BY <1>2, <1>5, MinOfTwo, Sizes
<1>7. /\ CreditAt(b, t) \in 0..Burst
      /\ t >= l => /\ CreditAt(b, t) <= c + (t - l)
                   /\ CreditAt(b, t) = Burst \/ CreditAt(b, t) = c + (t - l)
  BY <1>1, <1>5, <1>6, Sizes DEF Time
<1> QED BY <1>1, <1>7 DEF c, l

\* A grant at a time that is not before the last one.
LEMMA GrantBalances ==
    ASSUME NEW g \in [Time -> Nat], NEW credit \in 0..Burst, NEW last \in Time,
           Balanced(g, credit, last),
           NEW t \in Time, t >= last,
           NEW now1 \in Cost..Burst, now1 <= credit + (t - last),
           NEW h, h = [u \in Time |-> g[u] + IF u >= t THEN 1 ELSE 0]
    PROVE  Balanced(h, now1 - Cost, t)
<1> USE Sizes
<1>1. /\ \A u \in Time : g[u] \in Nat /\ u \in Nat
      /\ \A u \in Time : u >= t => h[u] = g[u] + 1
      /\ \A u \in Time : u < t => h[u] = g[u]
      /\ \A u \in Time : u >= last => g[u] = g[last]
  BY DEF Time, Balanced
<1>2. \A u \in Time : u >= t => h[u] = h[t]
  BY <1>1
<1>3. ASSUME NEW from \in 0..t
      PROVE  Cost * Between(h, from, t) + (now1 - Cost) <= Burst + (t - from)
  <2>1. from \in Nat /\ from <= t /\ (from > 0 => from - 1 \in Time /\ from - 1 < t)
    BY DEF Time
  <2>2. h[t] = g[last] + 1
    BY <1>1
  <2>3. CASE from <= last
    <3> DEFINE s == Between(g, from, last)
    <3>1. from \in 0..last
      BY <2>1, <2>3 DEF Time
    <3>2. Cost * s + credit <= Burst + (last - from)
      BY <3>1 DEF Balanced
    <3>3. s \in Int /\ Between(h, from, t) = s + 1
      BY <1>1, <2>1, <2>2 DEF Between
    <3> HIDE DEF s
    <3>4. Cost * (s + 1) = Cost * s + Cost /\ Cost * s \in Int
      BY <3>3, OneMoreCost
    <3> DEFINE p == Cost * s
    <3>5. p \in Int /\ p + credit <= Burst + (last - from) /\ Cost * Between(h, from, t) = p + Cost
      BY <3>2, <3>3, <3>4
    <3> HIDE DEF p
    <3> QED BY <1>1, <2>1, <3>5
  <2>4. CASE from > last
    <3>1. from - 1 \in Time /\ from - 1 >= last /\ from - 1 < t
      BY <1>1, <2>1, <2>4
    <3>2. h[from - 1] = g[last]
      BY <1>1, <3>1
    <3>3. Between(h, from, t) = 1
      BY <1>1, <2>1, <2>2, <2>4, <3>2 DEF Between
    <3>4. Cost * Between(h, from, t) = Cost
      BY <3>3, OneMoreCost
    <3> QED BY <1>1, <2>1, <3>4
  <2> QED BY <1>1, <2>1, <2>3, <2>4
<1> QED BY <1>2, <1>3 DEF Balanced

\* The promise about the grants of one key.
Promised(g) ==
    \A from, to \in Time : from <= to => Cost * Between(g, from, to) <= Burst + (to - from)

LEMMA GrantKeepsPromise ==
    ASSUME NEW g \in [Time -> Nat], Promised(g), NEW t \in Time,
           NEW h, h = [u \in Time |-> g[u] + IF u >= t THEN 1 ELSE 0],
           NEW credit \in Nat, Balanced(h, credit, t)
    PROVE  Promised(h)
<1> USE Sizes
<1> SUFFICES ASSUME NEW from \in Time, NEW to \in Time, from <= to
             PROVE  Cost * Between(h, from, to) <= Burst + (to - from)
  BY DEF Promised
<1>1. /\ \A u \in Time : g[u] \in Nat /\ h[u] \in Nat /\ u \in Nat
      /\ \A u \in Time : u < t => h[u] = g[u]
      /\ \A u \in Time : u >= t => h[u] = h[t]
      /\ from > 0 => from - 1 \in Time /\ from - 1 < to
  BY DEF Time, Balanced
<1>2. CASE to < t
  <2>1. Between(h, from, to) = Between(g, from, to)
    BY <1>1, <1>2 DEF Between
  <2> QED BY <2>1 DEF Promised
<1>3. CASE to >= t /\ from <= t
  <2>1. from \in 0..t /\ Between(h, from, to) = Between(h, from, t)
    BY <1>1, <1>3 DEF Between
  <2> DEFINE p == Cost * Between(h, from, t)
  <2>2. p + credit <= Burst + (t - from) /\ Cost * Between(h, from, to) = p
    BY <2>1 DEF Balanced
  <2>3. Between(h, from, t) \in Int
    BY <1>1 DEF Between
  <2>4. p \in Int
    BY <2>3, OneMoreCost
  <2> HIDE DEF p
  <2> QED BY <1>1, <1>3, <2>2, <2>4
<1>4. CASE from > t
  <2>1. from - 1 \in Time /\ from - 1 >= t /\ to >= t
    BY <1>1, <1>4
  <2>2. Between(h, from, to) = 0
    BY <1>1, <1>4, <2>1 DEF Between
  <2> QED BY <1>1, <2>2, OneMoreCost
<1> QED BY <1>1, <1>2, <1>3, <1>4

\* What a bucket granted and has left, when its key gets one more occurrence.

Outgrows(h, g, t) ==
    \A from, to \in Time : from <= to =>
        /\ Between(g, from, to) \in Nat /\ Between(h, from, to) >= Between(g, from, to)
        /\ from <= t /\ t <= to => Between(h, from, to) = Between(g, from, to) + 1
        /\ \A v \in Time : v >= to => Between(g, from, v) >= Between(g, from, to)

LEMMA GrantsGrow ==
    ASSUME NEW g \in [Time -> Nat], Grows(g), NEW t \in Time,
           NEW h, h = [u \in Time |-> g[u] + IF u >= t THEN 1 ELSE 0]
    PROVE  Grows(h) /\ Outgrows(h, g, t)
<1>1. /\ \A u \in Time : g[u] \in Nat /\ u \in Nat
      /\ \A u \in Time : u >= t => h[u] = g[u] + 1
      /\ \A u \in Time : u < t => h[u] = g[u]
      /\ \A u, v \in Time : u <= v => g[u] <= g[v]
      /\ \A u \in Time : u > 0 => u - 1 \in Time
  BY Sizes DEF Time, Grows
<1>2. Grows(h)
  BY <1>1 DEF Grows
<1>3. ASSUME NEW from \in Time, NEW to \in Time, from <= to
      PROVE  /\ Between(g, from, to) \in Nat /\ Between(h, from, to) >= Between(g, from, to)
             /\ from <= t /\ t <= to => Between(h, from, to) = Between(g, from, to) + 1
             /\ \A v \in Time : v >= to => Between(g, from, v) >= Between(g, from, to)
  <2>1. CASE from = 0
    BY <1>1, <1>3, <2>1 DEF Between
  <2>2. CASE from > 0
    <3>1. from - 1 \in Time /\ from - 1 <= to /\ from - 1 \in Nat
      BY <1>1, <1>3, <2>2
    <3>2. /\ g[from - 1] \in Nat /\ g[to] \in Nat /\ g[from - 1] <= g[to]
          /\ Between(g, from, to) = g[to] - g[from - 1]
          /\ Between(h, from, to) = h[to] - h[from - 1]
      BY <1>1, <2>2, <3>1 DEF Between
    <3>3. Between(h, from, to) >= Between(g, from, to)
      BY <1>1, <1>3, <3>1, <3>2
    <3>4. from <= t /\ t <= to => Between(h, from, to) = Between(g, from, to) + 1
      BY <1>1, <3>1, <3>2
    <3>5. \A v \in Time : v >= to => Between(g, from, v) >= Between(g, from, to)
      BY <1>1, <2>2, <3>2 DEF Between
    <3> QED BY <3>2, <3>3, <3>4, <3>5
  <2> QED BY <1>1, <2>1, <2>2
<1> QED BY <1>2, <1>3 DEF Outgrows

\* Of its other buckets the grants only grow.
LEMMA OthersSpent ==
    ASSUME NEW g \in [Time -> Nat], Grows(g), NEW t \in Time,
           NEW h, h = [u \in Time |-> g[u] + IF u >= t THEN 1 ELSE 0],
           NEW credit \in Nat, NEW last \in Time, Spent(g, credit, last)
    PROVE  Spent(h, credit, last)
<1>1. PICK from \in 0..last : credit + Cost * Between(g, from, last) >= Burst + (last - from)
  BY DEF Spent
<1>2. from \in Time /\ from <= last /\ from \in Nat /\ last \in Nat
  BY Sizes DEF Time
<1> DEFINE x == Between(g, from, last)  y == Between(h, from, last)
<1>3. x \in Nat /\ y >= x /\ (last = 0 \/ Between(h, last, last) > 0)
  <2>1. Outgrows(h, g, t)
    BY GrantsGrow
  <2>2. x \in Nat /\ y >= x
    BY <1>2, <2>1 DEF Outgrows
  <2>3. Between(g, last, last) \in Nat /\ Between(h, last, last) >= Between(g, last, last)
    BY <1>2, <2>1 DEF Outgrows
  <2>4. last = 0 \/ Between(g, last, last) > 0
    BY DEF Spent
  <2>5. ASSUME Between(g, last, last) > 0 PROVE Between(h, last, last) > 0
    <3> DEFINE m == Between(g, last, last)  n == Between(h, last, last)
    <3>1. m \in Nat /\ n >= m /\ m > 0 /\ n \in Int
      <4>1. last > 0 => last - 1 \in Time
        BY <1>2, Sizes DEF Time
      <4>2. \A u \in Time : h[u] \in Int
        OBVIOUS
      <4>3. n \in Int
        BY <1>2, <4>1, <4>2 DEF Between
      <4> QED BY <2>3, <2>5, <4>3
    <3> HIDE DEF m, n
    <3>2. n > 0
      BY <3>1
    <3> QED BY <3>2 DEF n
  <2> QED BY <2>2, <2>4, <2>5
<1>4. y \in Int
  <2>1. \A u \in Time : g[u] \in Nat /\ h[u] \in Int
    OBVIOUS
  <2>2. from > 0 => from - 1 \in Time
    BY <1>2, Sizes DEF Time
  <2> QED BY <2>1, <2>2 DEF Between
<1> HIDE DEF x, y
<1>5. Cost * y >= Cost * x /\ Cost * x \in Int /\ Cost * y \in Int
  BY <1>3, <1>4, MoreCosts
<1>6. credit + Cost * x >= Burst + (last - from)
  BY <1>1 DEF x
<1> DEFINE p == Cost * x  q == Cost * y
<1>7. q >= p /\ p \in Int /\ q \in Int /\ credit + p >= Burst + (last - from)
  BY <1>5, <1>6
<1> HIDE DEF p, q
<1>8. credit + q >= Burst + (last - from)
  BY <1>2, <1>7, Sizes
<1> QED BY <1>3, <1>8 DEF Spent, q, y

\* Of the bucket that granted it, the credit goes down by what the grant costs.
LEMMA GrantSpends ==
    ASSUME NEW g \in [Time -> Nat], Grows(g), NEW t \in Time,
           NEW h, h = [u \in Time |-> g[u] + IF u >= t THEN 1 ELSE 0],
           NEW credit \in Nat, NEW last \in Time, Spent(g, credit, last), t >= last,
           NEW now1 \in Cost..Burst, now1 = Burst \/ now1 = credit + (t - last)
    PROVE  Spent(h, now1 - Cost, t)
<1> USE Sizes
<1>1. /\ t \in Nat /\ last \in Nat /\ Between(g, t, t) \in Nat
      /\ Between(h, t, t) = Between(g, t, t) + 1
  <2>1. Outgrows(h, g, t)
    BY GrantsGrow
  <2>2. t \in Nat /\ last \in Nat
    BY DEF Time
  <2> QED BY <2>1, <2>2 DEF Outgrows
<1>2. CASE now1 = Burst
  <2> DEFINE x == Between(g, t, t)
  <2>1. x \in Nat /\ Between(h, t, t) = x + 1
    BY <1>1
  <2> HIDE DEF x
  <2>2. Cost * (x + 1) = Cost * x + Cost /\ Cost * x \in Int /\ Cost * x >= 0
    BY <2>1, OneMoreCost, MoreCosts
  <2> DEFINE p == Cost * x
  <2>3. p \in Int /\ p >= 0 /\ Cost * Between(h, t, t) = p + Cost
    BY <2>1, <2>2
  <2> HIDE DEF p
  <2>4. (now1 - Cost) + Cost * Between(h, t, t) >= Burst + (t - t)
    BY <1>1, <1>2, <2>3
  <2>5. t \in 0..t /\ Between(h, t, t) > 0
    BY <1>1
  <2> QED BY <2>4, <2>5 DEF Spent
<1>3. CASE now1 = credit + (t - last)
  <2>1. PICK from \in 0..last : credit + Cost * Between(g, from, last) >= Burst + (last - from)
    BY DEF Spent
  <2>2. from \in Time /\ from <= last /\ from \in Nat /\ from \in 0..t /\ from <= t
    BY <1>1 DEF Time
  <2> DEFINE x == Between(g, from, last)  y == Between(h, from, t)
  <2>3. /\ x \in Nat /\ Between(g, from, t) \in Nat /\ Between(g, from, t) >= x
        /\ y = Between(g, from, t) + 1
    <3>1. Outgrows(h, g, t)
      BY GrantsGrow
    <3>2. x \in Nat /\ Between(g, from, t) >= x
      BY <2>2, <3>1 DEF Outgrows
    <3>3. Between(g, from, t) \in Nat /\ y = Between(g, from, t) + 1
      BY <1>1, <2>2, <3>1 DEF Outgrows
    <3> QED BY <3>2, <3>3
  <2>4. credit + Cost * x >= Burst + (last - from)
    BY <2>1
  <2> HIDE DEF x, y
  <2>5. y >= x + 1 /\ y \in Int
    BY <2>3
  <2>6. Cost * y >= Cost * (x + 1) /\ Cost * (x + 1) = Cost * x + Cost /\ Cost * x \in Int /\ Cost * y \in Int
    BY <2>3, <2>5, OneMoreCost, MoreCosts
  <2> DEFINE p == Cost * x  q == Cost * y
  <2>7. p \in Int /\ q \in Int /\ q >= p + Cost /\ credit + p >= Burst + (last - from)
    BY <2>4, <2>6
  <2> HIDE DEF p, q
  <2>8. (now1 - Cost) + q >= Burst + (t - from)
    BY <1>1, <1>3, <2>2, <2>7
  <2>9. Between(h, t, t) > 0
    BY <1>1
  <2> QED BY <2>2, <2>8, <2>9 DEF Spent, q, y
<1> QED BY <1>2, <1>3

LEMMA FreshSpent ==
    ASSUME NEW g \in [Time -> Nat]
    PROVE  Spent(g, Burst, 0)
<1>1. 0 \in 0..0 /\ Between(g, 0, 0) \in Nat
  BY Sizes DEF Between
<1>2. Cost * Between(g, 0, 0) >= 0 /\ Cost * Between(g, 0, 0) \in Int
  BY <1>1, MoreCosts
<1>3. Burst + Cost * Between(g, 0, 0) >= Burst + (0 - 0)
  BY <1>2, Sizes
<1> QED BY <1>1, <1>3 DEF Spent

LEMMA PromiseIs ==
    BurstPlusRefill <=> \A k \in Keys \ (evicted \cup skewed) : Promised(grants[k])
BY DEF BurstPlusRefill, Promised, Between, Granted
-----------------------------------------------------------------------------
\* What the list operations of the cache keep.

LEMMA Parts ==
    ASSUME NEW S, NEW s \in Seq(S), NEW i \in 1..Len(s)
    PROVE  LET p == SubSeq(s, 1, i - 1)  q == SubSeq(s, i + 1, Len(s))
           IN  /\ p \in Seq(S) /\ Len(p) = i - 1 /\ \A j \in 1..(i - 1) : p[j] = s[j]
               /\ q \in Seq(S) /\ Len(q) = Len(s) - i
               /\ \A j \in 1..(Len(s) - i) : q[j] = s[i + j]
OBVIOUS

LEMMA MovedToFront ==
    ASSUME NEW S, NEW s \in Seq(S), NEW i \in 1..Len(s)
    PROVE  LET r == <<s[i]>> \o RemoveAt(s, i)
           IN  r \in Seq(S) /\ Len(r) = Len(s) /\ \A e : Holds(r, e) <=> Holds(s, e)
<1> DEFINE p == SubSeq(s, 1, i - 1)  q == SubSeq(s, i + 1, Len(s))
           r == <<s[i]>> \o (p \o q)
<1>1. /\ p \in Seq(S) /\ Len(p) = i - 1 /\ \A j \in 1..(i - 1) : p[j] = s[j]
      /\ q \in Seq(S) /\ Len(q) = Len(s) - i /\ \A j \in 1..(Len(s) - i) : q[j] = s[i + j]
  BY Parts
<1> HIDE DEF p, q
<1>2. /\ p \o q \in Seq(S) /\ Len(p \o q) = Len(s) - 1
      /\ \A j \in 1..(i - 1) : (p \o q)[j] = s[j]
      /\ \A j \in i..(Len(s) - 1) : (p \o q)[j] = s[j + 1]
  <2>1. \A j \in i..(Len(s) - 1) : j - (i - 1) \in 1..(Len(s) - i) /\ i + (j - (i - 1)) = j + 1
    OBVIOUS
  <2>2. \A j \in i..(Len(s) - 1) : (p \o q)[j] = q[j - (i - 1)]
    BY <1>1
  <2>3. \A j \in 1..(i - 1) : (p \o q)[j] = p[j]
    BY <1>1
  <2>4. p \o q \in Seq(S) /\ Len(p \o q) = Len(s) - 1
    <3>1. p \in Seq(S) /\ q \in Seq(S) /\ Len(p) + Len(q) = Len(s) - 1
      BY <1>1
    <3> QED BY <3>1
  <2>5. \A j \in i..(Len(s) - 1) : (p \o q)[j] = s[j + 1]
    <3> SUFFICES ASSUME NEW j \in i..(Len(s) - 1) PROVE (p \o q)[j] = s[j + 1]
      OBVIOUS
    <3>1. j - (i - 1) \in 1..(Len(s) - i) /\ i + (j - (i - 1)) = j + 1
      BY <2>1
    <3>2. q[j - (i - 1)] = s[i + (j - (i - 1))]
      BY <1>1, <3>1, Zenon
    <3> QED BY <2>2, <3>1, <3>2
  <2>6. \A j \in 1..(i - 1) : (p \o q)[j] = s[j]
    BY <1>1, <2>3
  <2> QED BY <2>4, <2>5, <2>6
<1> DEFINE w == p \o q
<1> HIDE DEF w
<1>3. /\ w \in Seq(S) /\ Len(w) = Len(s) - 1
      /\ \A j \in 1..(i - 1) : w[j] = s[j]
      /\ \A j \in i..(Len(s) - 1) : w[j] = s[j + 1]
      /\ r = <<s[i]>> \o w
  BY <1>2 DEF w
<1> HIDE DEF r
<1>4. /\ r \in Seq(S) /\ Len(r) = Len(s) /\ r[1] = s[i]
      /\ \A j \in 2..Len(s) : r[j] = w[j - 1]
  BY <1>3
<1>5. /\ \A j \in 2..i : r[j] = s[j - 1]
      /\ \A j \in (i + 1)..Len(s) : r[j] = s[j]
  <2>1. ASSUME NEW j \in 2..i PROVE r[j] = s[j - 1]
    <3>1. j \in 2..Len(s) /\ j - 1 \in 1..(i - 1)
      OBVIOUS
    <3> QED BY <1>3, <1>4, <3>1
  <2>2. ASSUME NEW j \in (i + 1)..Len(s) PROVE r[j] = s[j]
    <3>1. j \in 2..Len(s) /\ j - 1 \in i..(Len(s) - 1) /\ (j - 1) + 1 = j
      OBVIOUS
    <3>2. r[j] = w[j - 1] /\ w[j - 1] = s[(j - 1) + 1]
      BY <1>3, <1>4, <3>1
    <3> QED BY <3>1, <3>2
  <2> QED BY <2>1, <2>2
<1>6. ASSUME NEW e, Holds(r, e) PROVE Holds(s, e)
  <2>1. PICK j \in 1..Len(s) : r[j] = e
    BY <1>4, <1>6 DEF Holds
  <2>2. j = 1 \/ j \in 2..i \/ j \in (i + 1)..Len(s)
    OBVIOUS
  <2>3. CASE j \in 2..i
    <3>1. j - 1 \in 1..Len(s) /\ s[j - 1] = e
      BY <2>1, <2>3, <1>5
    <3> QED BY <3>1 DEF Holds
  <2> QED BY <1>4, <1>5, <2>1, <2>2, <2>3 DEF Holds
<1>7. ASSUME NEW e, Holds(s, e) PROVE Holds(r, e)
  <2>1. PICK j \in 1..Len(s) : s[j] = e
    BY <1>7 DEF Holds
  <2>2. j = i \/ j \in (i + 1)..Len(s) \/ j \in 1..(i - 1)
    OBVIOUS
  <2>3. CASE j \in 1..(i - 1)
    <3>1. j + 1 \in 2..i /\ j + 1 \in 1..Len(s) /\ (j + 1) - 1 = j
      BY <2>3
    <3>2. r[j + 1] = e
      BY <1>5, <2>1, <3>1
    <3> QED BY <1>4, <3>1, <3>2 DEF Holds
  <2>4. CASE j = i
    <3>1. 1 \in 1..Len(r) /\ r[1] = e
      BY <1>4, <2>1, <2>4
    <3> QED BY <3>1 DEF Holds
  <2> QED BY <1>4, <1>5, <2>1, <2>2, <2>3, <2>4 DEF Holds
<1> QED BY <1>4, <1>6, <1>7 DEF r, p, q, RemoveAt

LEMMA PutInFront ==
    ASSUME NEW S, NEW s \in Seq(S), NEW x \in S
    PROVE  LET r == <<x>> \o s
           IN  /\ r \in Seq(S) /\ Len(r) = Len(s) + 1
               /\ \A e : Holds(r, e) <=> (e = x \/ Holds(s, e))
<1> DEFINE r == <<x>> \o s
<1>1. /\ r \in Seq(S) /\ Len(r) = Len(s) + 1 /\ r[1] = x
      /\ \A j \in 1..Len(s) : r[j + 1] = s[j]
  OBVIOUS
<1> HIDE DEF r
<1>2. ASSUME NEW e, Holds(r, e) PROVE e = x \/ Holds(s, e)
  <2>1. PICK j \in 1..Len(r) : r[j] = e
    BY <1>2 DEF Holds
  <2>2. CASE j > 1
    <3>1. j - 1 \in 1..Len(s) /\ s[j - 1] = e
      BY <1>1, <2>1, <2>2
    <3> QED BY <3>1 DEF Holds
  <2>3. CASE j = 1
    BY <1>1, <2>1, <2>3
  <2> QED BY <2>2, <2>3
<1>3. ASSUME NEW e, e = x \/ Holds(s, e) PROVE Holds(r, e)
  <2>1. CASE e = x
    <3>1. 1 \in 1..Len(r) /\ r[1] = e
      BY <1>1, <2>1
    <3> QED BY <3>1 DEF Holds
  <2>2. CASE Holds(s, e)
    <3>1. PICK j \in 1..Len(s) : s[j] = e
      BY <2>2 DEF Holds
    <3>2. j + 1 \in 1..Len(r) /\ r[j + 1] = e
      BY <1>1, <3>1
    <3> QED BY <3>2 DEF Holds
  <2> QED BY <1>3, <2>1, <2>2
<1> QED BY <1>1, <1>2, <1>3 DEF r

LEMMA LastDropped ==
    ASSUME NEW S, NEW s \in Seq(S), Len(s) > 0
    PROVE  /\ Front(s) \in Seq(S) /\ Len(Front(s)) = Len(s) - 1 /\ Last(s) \in S
           /\ \A e : Holds(Front(s), e) => Holds(s, e)
           /\ \A e : Holds(s, e) => e = Last(s) \/ Holds(Front(s), e)
<1> DEFINE r == SubSeq(s, 1, Len(s) - 1)
<1>1. /\ r \in Seq(S) /\ Len(r) = Len(s) - 1 /\ Len(s) \in 1..Len(s)
      /\ \A j \in 1..(Len(s) - 1) : r[j] = s[j] /\ j \in 1..Len(s)
  <2>1. Len(s) \in Nat /\ Len(s) - 1 \in Nat /\ Len(s) - 1 <= Len(s)
    OBVIOUS
  <2>2. Len(s) \in 1..Len(s)
    BY <2>1
  <2>3. r \in Seq(S) /\ Len(r) = Len(s) - 1 /\ \A j \in 1..(Len(s) - 1) : r[j] = s[j]
    <3> DEFINE n == Len(s)
    <3>1. /\ SubSeq(s, 1, n - 1) \in Seq(S) /\ Len(SubSeq(s, 1, n - 1)) = n - 1
          /\ \A j \in 1..(n - 1) : SubSeq(s, 1, n - 1)[j] = s[j]
      <4>1. n \in 1..Len(s)
        BY <2>2
      <4> HIDE DEF n
      <4> QED BY <4>1, Parts
    <3> QED BY <3>1
  <2>4. \A j \in 1..(Len(s) - 1) : j \in 1..Len(s)
    BY <2>1
  <2> QED BY <2>1, <2>2, <2>3, <2>4
<1> HIDE DEF r
<1>2. \A e : Holds(r, e) => Holds(s, e)
  BY <1>1 DEF Holds
<1>3. \A j \in 1..Len(s) : j = Len(s) \/ j \in 1..(Len(s) - 1)
  OBVIOUS
<1>4. \A e : Holds(s, e) => e = s[Len(s)] \/ Holds(r, e)
  BY <1>1, <1>3 DEF Holds
<1> QED BY <1>1, <1>2, <1>4 DEF r, Front, Last

LEMMA EntryIs ==
    /\ \A k, l, a, b : Entry(k, b) = Entry(l, a) <=> k = l /\ b = a
    /\ \A k \in Keys, b \in Buckets : Entry(k, b) \in [key : Keys, bucket : Buckets]
    /\ \A e \in [key : Keys, bucket : Buckets] :
         e = Entry(e.key, e.bucket) /\ e.key \in Keys /\ e.bucket \in Buckets
<1>1. \A k, b : Entry(k, b).key = k /\ Entry(k, b).bucket = b
  BY DEF Entry
<1>2. ASSUME NEW k, NEW l, NEW a, NEW b, Entry(k, b) = Entry(l, a) PROVE k = l /\ b = a
  <2>1. Entry(k, b).key = Entry(l, a).key /\ Entry(k, b).bucket = Entry(l, a).bucket
    BY <1>2
  <2> QED BY <1>1, <2>1
<1>3. \A k \in Keys, b \in Buckets : Entry(k, b) \in [key : Keys, bucket : Buckets]
  BY DEF Entry
<1>4. \A e \in [key : Keys, bucket : Buckets] :
         e = Entry(e.key, e.bucket) /\ e.key \in Keys /\ e.bucket \in Buckets
  BY DEF Entry
<1>5. \A k, l, a, b : k = l /\ b = a => Entry(k, b) = Entry(l, a)
  OBVIOUS
<1> QED BY <1>2, <1>3, <1>4, <1>5

\* The entries a key is found at are those of its buckets.
LEMMA PlacesAre ==
    ASSUME TypesInv, NEW k \in Keys
    PROVE  /\ \A i \in Places(k) :
                /\ i \in 1..Len(cache) /\ cache[i].bucket \in Buckets
                /\ cache[i] = Entry(k, cache[i].bucket) /\ Cached(k, cache[i].bucket)
           /\ Places(k) = {} => \A b : ~Cached(k, b)
<1>1. /\ DOMAIN cache = 1..Len(cache)
      /\ \A i \in 1..Len(cache) : cache[i] \in [key : Keys, bucket : Buckets]
  <2> DEFINE E == [key : Keys, bucket : Buckets]
  <2>1. cache \in Seq(E)
    BY DEF TypesInv
  <2> HIDE DEF E
  <2>2. DOMAIN cache = 1..Len(cache) /\ \A i \in 1..Len(cache) : cache[i] \in E
    BY <2>1
  <2> QED BY <2>2 DEF E
<1>2. \A i \in Places(k) : i \in 1..Len(cache) /\ cache[i].key = k
  BY <1>1 DEF Places
<1>3. ASSUME NEW i \in Places(k)
      PROVE  /\ i \in 1..Len(cache) /\ cache[i].bucket \in Buckets
             /\ cache[i] = Entry(k, cache[i].bucket) /\ Cached(k, cache[i].bucket)
  <2>1. i \in 1..Len(cache) /\ cache[i].key = k
    BY <1>2
  <2>2. cache[i] = Entry(k, cache[i].bucket) /\ cache[i].bucket \in Buckets
    BY <1>1, <2>1, EntryIs
  <2> QED BY <2>1, <2>2 DEF Cached, Holds
<1>4. ASSUME Places(k) = {}, NEW b, Cached(k, b) PROVE FALSE
  <2>1. PICK i \in 1..Len(cache) : cache[i] = Entry(k, b)
    BY <1>4 DEF Cached, Holds
  <2>2. cache[i].key = k
    BY <2>1 DEF Entry
  <2> QED BY <1>1, <1>4, <2>1, <2>2 DEF Places
<1> QED BY <1>3, <1>4
-----------------------------------------------------------------------------
\* Steps that leave the cache its entries.

LEMMA SameBuckets ==
    ASSUME BucketInv,
           \A k \in Keys, b \in Buckets : Cached(k, b)' <=> Cached(k, b),
           \A k \in Keys, b \in Buckets : Taken(k, b)' => Uses(k, b),
           evicted' = evicted, buckets' = buckets,
           \A k \in Keys \ evicted : grants'[k] = grants[k] \/ \E b \in Buckets : Cached(k, b)
    PROVE  BucketInv'
<1>1. \A k \in Keys, b \in Buckets : Uses(k, b)' => Uses(k, b)
  BY DEF Uses
<1>2. \A k \in Keys, b \in Buckets : Uses(k, b)' => b <= buckets'
  BY <1>1 DEF BucketInv
<1>3. \A k, l \in Keys, b \in Buckets : Uses(k, b)' /\ Uses(l, b)' => k = l
  BY <1>1 DEF BucketInv
<1>4. \A k \in Keys \ evicted', a, b \in Buckets : Uses(k, a)' /\ Uses(k, b)' => a = b
  BY <1>1 DEF BucketInv
<1>5. \A k \in Keys \ evicted', b \in Buckets : Uses(k, b)' => Cached(k, b)'
  BY <1>1 DEF BucketInv
<1>6. \A k \in Keys \ evicted' :
        (\E b \in Buckets : Cached(k, b)') \/ (\A t \in Time : grants'[k][t] = 0)
  BY DEF BucketInv
<1> QED BY <1>2, <1>3, <1>4, <1>5, <1>6 DEF BucketInv

LEMMA SameCredit ==
    ASSUME CreditInv, BurstPlusRefill,
           \A k \in Keys, b \in Buckets : Cached(k, b)' => Cached(k, b),
           UNCHANGED <<bucket, grants, evicted, skewed>>
    PROVE  CreditInv' /\ BurstPlusRefill'
<1>1. CreditInv'
  BY DEF CreditInv
<1>2. BurstPlusRefill'
  BY DEF BurstPlusRefill, Granted
<1> QED BY <1>1, <1>2

LEMMA SameSpent ==
    ASSUME SpentInv, \A k \in Keys, b \in Buckets : Uses(k, b)' => Uses(k, b),
           UNCHANGED <<bucket, grants, skewed>>
    PROVE  SpentInv'
BY DEF SpentInv

LEMMA PcSets ==
    ASSUME TypesInv, NEW c \in Callers, NEW step, Goto(c, step)
    PROVE  /\ Adding' = IF step = "add" THEN Adding \cup {c} ELSE Adding \ {c}
           /\ Busy' = IF step = "idle" THEN Busy \ {c} ELSE Busy \cup {c}
BY DEF Goto, TypesInv, Adding, Busy

\* A set with one element more or less.
LEMMA OneMoreOrLess ==
    ASSUME NEW S, IsFiniteSet(S), NEW c
    PROVE  /\ Cardinality(S) \in Nat
           /\ IsFiniteSet(S \cup {c}) /\ IsFiniteSet(S \ {c})
           /\ c \in S => /\ Cardinality(S \cup {c}) = Cardinality(S)
                         /\ Cardinality(S \ {c}) = Cardinality(S) - 1
                         /\ Cardinality(S) >= 1
           /\ c \notin S => /\ Cardinality(S \cup {c}) = Cardinality(S) + 1
                            /\ Cardinality(S \ {c}) = Cardinality(S)
<1>1. Cardinality(S) \in Nat /\ Cardinality(S \ {c}) \in Nat
  BY FS_CardinalityType, FS_RemoveElement
<1>2. /\ IsFiniteSet(S \cup {c})
      /\ Cardinality(S \cup {c}) = IF c \in S THEN Cardinality(S) ELSE Cardinality(S) + 1
  BY FS_AddElement
<1>3. /\ IsFiniteSet(S \ {c})
      /\ Cardinality(S \ {c}) = IF c \in S THEN Cardinality(S) - 1 ELSE Cardinality(S)
  BY FS_RemoveElement
<1> QED BY <1>1, <1>2, <1>3
-----------------------------------------------------------------------------
\* The invariant at the start, and over each action.

LEMMA InitLimiterInv == Init => LimiterInv
<1> SUFFICES ASSUME Init PROVE LimiterInv
  OBVIOUS
<1> USE Sizes
<1>1. TypesInv
  <2>1. cache \in Seq([key : Keys, bucket : Buckets]) /\ Len(cache) = 0
    BY DEF Init
  <2>2. bucket \in [Buckets -> [credit : 0..Burst, last : Time]]
    BY DEF Init
  <2> QED BY <2>1, <2>2 DEF Init, TypesInv, Time
<1>2. CallerInv
  BY DEF Init, CallerInv, Knows
<1>3. Adding = {} /\ Busy = {}
  BY DEF Init, Adding, Busy
<1>4. CountInv
  BY <1>3, FS_EmptySet DEF Init, CountInv
<1>5. \A k, b : ~Cached(k, b) /\ ~Taken(k, b)
  BY DEF Init, Cached, Holds, Taken
<1>6. BucketInv /\ CreditInv
  BY <1>5 DEF Init, BucketInv, CreditInv, Uses
<1>7. ASSUME NEW k \in Keys PROVE Promised(grants[k]) /\ Grows(grants[k])
  <2>1. \A t \in Time : grants[k][t] = 0 /\ t \in Nat
    BY DEF Init, Time
  <2>2. ASSUME NEW from \in Time, NEW to \in Time PROVE Between(grants[k], from, to) = 0
    <3>1. from > 0 => from - 1 \in Time
      BY DEF Time
    <3> QED BY <2>1, <3>1 DEF Between
  <2> QED BY <2>1, <2>2, OneMoreCost DEF Promised, Grows
<1>8. SpentInv
  BY <1>5, <1>7 DEF SpentInv, Uses
<1> QED BY <1>1, <1>2, <1>4, <1>6, <1>7, <1>8, PromiseIs DEF LimiterInv

\* A caller that takes a bucket of the cache, or none, adds no user of a bucket.
LEMMA TakesCached ==
    ASSUME TypesInv, NEW c \in Callers, NEW k \in Keys, NEW B \in SUBSET Buckets,
           key' = [key EXCEPT ![c] = {k}], mine' = [mine EXCEPT ![c] = B],
           \A b \in B : Cached(k, b)
    PROVE  \A l \in Keys, b \in Buckets : Taken(l, b)' => Uses(l, b)
<1> SUFFICES ASSUME NEW l \in Keys, NEW b \in Buckets, Taken(l, b)' PROVE Uses(l, b)
  OBVIOUS
<1>1. PICK d \in Callers : key'[d] = {l} /\ mine'[d] = {b}
  BY DEF Taken
<1>2. CASE d = c
  <2>1. {k} = {l} /\ B = {b}
    BY <1>1, <1>2 DEF TypesInv
  <2>2. k = l /\ b \in B
    BY <2>1
  <2> QED BY <2>2 DEF Uses
<1>3. CASE d # c
  <2>1. key[d] = {l} /\ mine[d] = {b}
    BY <1>1, <1>3 DEF TypesInv
  <2> QED BY <2>1 DEF Uses, Taken
<1> QED BY <1>2, <1>3

\* One caller moves, with the key and the buckets its step asks for.
LEMMA CallerStep ==
    ASSUME TypesInv, CallerInv, NEW c \in Callers, NEW step, Goto(c, step),
           NEW K, NEW B, key' = [key EXCEPT ![c] = K], mine' = [mine EXCEPT ![c] = B],
           Knows(step, K, B)
    PROVE  CallerInv'
<1> SUFFICES ASSUME NEW d \in Callers PROVE Knows(pc'[d], key'[d], mine'[d])
  BY DEF CallerInv
<1>1. CASE d = c
  <2>1. key'[d] = K /\ mine'[d] = B /\ pc'[d] = step
    BY <1>1 DEF TypesInv, Goto
  <2> QED BY <2>1
<1>2. CASE d # c
  <2>1. pc'[d] = pc[d] /\ key'[d] = key[d] /\ mine'[d] = mine[d]
    BY <1>2 DEF TypesInv, Goto
  <2> QED BY <2>1 DEF CallerInv
<1> QED BY <1>1, <1>2

LEMMA GetKeeps ==
    ASSUME LimiterInv, NEW c \in Callers, Get(c)
    PROVE  LimiterInv'
<1> USE DEF LimiterInv
<1>1. PICK k \in Keys :
        /\ key' = [key EXCEPT ![c] = {k}]
        /\ \/ Places(k) = {} /\ Goto(c, "add") /\ UNCHANGED <<cache, mine>>
           \/ \E i \in Places(k) :
                /\ cache' = <<cache[i]>> \o RemoveAt(cache, i)
                /\ mine' = [mine EXCEPT ![c] = {cache[i].bucket}]
                /\ Goto(c, "clock")
  BY DEF Get
<1>2. /\ pc[c] = "idle" /\ calls < MaxCalls /\ calls' = calls + 1
      /\ UNCHANGED <<now, bucket, buckets, stamp, victim, nextRun, grants, evicted,
                     skewed, lost, warned>>
  BY DEF Get
<1>3. PICK B \in SUBSET Buckets :
        /\ mine' = [mine EXCEPT ![c] = B] /\ \A b \in B : Cached(k, b)
        /\ \/ B = {} /\ Goto(c, "add")
           \/ (\E b \in Buckets : B = {b}) /\ Goto(c, "clock")
        /\ cache' \in Seq([key : Keys, bucket : Buckets]) /\ Len(cache') = Len(cache)
        /\ \A e : Holds(cache', e) <=> Holds(cache, e)
  <2>1. CASE Places(k) = {} /\ Goto(c, "add") /\ UNCHANGED <<cache, mine>>
    <3>1. mine' = [mine EXCEPT ![c] = {}]
      BY <2>1, <1>2 DEF CallerInv, Knows, TypesInv
    <3>2. cache' = cache /\ cache \in Seq([key : Keys, bucket : Buckets])
      BY <2>1 DEF TypesInv
    <3> QED BY <2>1, <3>1, <3>2
  <2>2. CASE \E i \in Places(k) :
                /\ cache' = <<cache[i]>> \o RemoveAt(cache, i)
                /\ mine' = [mine EXCEPT ![c] = {cache[i].bucket}]
                /\ Goto(c, "clock")
    <3>1. PICK i \in Places(k) :
                /\ cache' = <<cache[i]>> \o RemoveAt(cache, i)
                /\ mine' = [mine EXCEPT ![c] = {cache[i].bucket}]
                /\ Goto(c, "clock")
      BY <2>2
    <3> DEFINE b == cache[i].bucket
    <3>2. i \in 1..Len(cache) /\ b \in Buckets /\ Cached(k, b)
      BY PlacesAre
    <3>3. cache \in Seq([key : Keys, bucket : Buckets])
      BY DEF TypesInv
    <3>4. /\ cache' \in Seq([key : Keys, bucket : Buckets]) /\ Len(cache') = Len(cache)
          /\ \A e : Holds(cache', e) <=> Holds(cache, e)
      BY <3>1, <3>2, <3>3, MovedToFront
    <3>5. mine' = [mine EXCEPT ![c] = {b}] /\ Goto(c, "clock")
      BY <3>1
    <3> HIDE DEF b
    <3>6. {b} \in SUBSET Buckets /\ \A x \in {b} : Cached(k, x)
      BY <3>2
    <3>7. \E x \in Buckets : {b} = {x}
      BY <3>2
    <3> QED BY <3>4, <3>5, <3>6, <3>7
  <2> QED BY <1>1, <2>1, <2>2
<1>4. TypesInv'
  <2>1. /\ pc' \in [Callers -> {"idle", "add", "report", "clock", "allow"}]
        /\ key' \in [Callers -> SUBSET Keys] /\ mine' \in [Callers -> SUBSET Buckets]
    BY <1>1, <1>3 DEF TypesInv, Goto
  <2>2. calls' \in 0..MaxCalls
    BY <1>2, Sizes DEF TypesInv
  <2> QED BY <1>2, <1>3, <2>1, <2>2 DEF TypesInv
<1>5. CallerInv'
  <2>1. PICK step : Goto(c, step) /\ Knows(step, {k}, B)
    BY <1>3 DEF Knows
  <2> QED BY <1>1, <1>3, <2>1, CallerStep
<1>6. CountInv'
  <2>1. c \notin Adding /\ c \notin Busy
    BY <1>2 DEF Adding, Busy
  <2>2. Busy' = Busy \cup {c} /\ (Adding' = Adding \cup {c} \/ Adding' = Adding \ {c})
    BY <1>3, PcSets
  <2>3. /\ IsFiniteSet(Adding) /\ IsFiniteSet(Busy) /\ buckets + Cardinality(Adding) <= calls
        /\ \A l \in Keys, t \in Time : grants[l][t] + Cardinality(Busy) <= calls
        /\ buckets \in Nat /\ calls \in Nat
        /\ \A l \in Keys, t \in Time : grants[l][t] \in Nat
    BY DEF CountInv, TypesInv
  <2>4. /\ IsFiniteSet(Adding') /\ IsFiniteSet(Busy')
        /\ Cardinality(Adding) \in Nat /\ Cardinality(Busy) \in Nat
        /\ Cardinality(Busy') = Cardinality(Busy) + 1
        /\ Cardinality(Adding') = Cardinality(Adding) \/ Cardinality(Adding') = Cardinality(Adding) + 1
    <3>1. /\ IsFiniteSet(Busy') /\ Cardinality(Busy) \in Nat
          /\ Cardinality(Busy') = Cardinality(Busy) + 1
      BY <2>1, <2>2, <2>3, OneMoreOrLess
    <3>2. CASE Adding' = Adding \cup {c}
      BY <2>1, <2>3, <3>1, <3>2, OneMoreOrLess
    <3>3. CASE Adding' = Adding \ {c}
      BY <2>1, <2>3, <3>1, <3>3, OneMoreOrLess
    <3> QED BY <2>2, <3>2, <3>3
  <2>5. buckets' + Cardinality(Adding') <= calls'
    BY <1>2, <2>3, <2>4
  <2>6. ASSUME NEW l \in Keys, NEW t \in Time PROVE grants'[l][t] + Cardinality(Busy') <= calls'
    <3> DEFINE g == grants[l][t]
    <3>1. g \in Nat /\ g + Cardinality(Busy) <= calls /\ grants'[l][t] = g
      BY <1>2, <2>3
    <3> HIDE DEF g
    <3> QED BY <1>2, <2>3, <2>4, <3>1
  <2> QED BY <2>4, <2>5, <2>6 DEF CountInv
<1>7. \A l, b : Cached(l, b)' <=> Cached(l, b)
  BY <1>3 DEF Cached, Entry
<1>8. BucketInv'
  <2>1. \A l \in Keys, b \in Buckets : Taken(l, b)' => Uses(l, b)
    BY <1>1, <1>3, TakesCached
  <2> QED BY <1>2, <1>7, <2>1, SameBuckets
<1>9. CreditInv' /\ BurstPlusRefill'
  BY <1>2, <1>7, SameCredit
<1>10. SpentInv'
  <2>1. \A l \in Keys, b \in Buckets : Taken(l, b)' => Uses(l, b)
    BY <1>1, <1>3, TakesCached
  <2>2. \A l \in Keys, b \in Buckets : Uses(l, b)' => Uses(l, b)
    BY <1>7, <2>1 DEF Uses
  <2> QED BY <1>2, <2>2, SameSpent
<1> QED BY <1>4, <1>5, <1>6, <1>8, <1>9, <1>10

\* PeekOrAdd finds a bucket.
LEMMA FindKeeps ==
    ASSUME LimiterInv, NEW c \in Callers, pc[c] = "add", NEW k \in key[c], NEW i \in Existing(k),
           mine' = [mine EXCEPT ![c] = {cache[i].bucket}], Goto(c, "clock"),
           UNCHANGED <<cache, bucket, buckets, victim, evicted>>,
           UNCHANGED <<now, key, stamp, nextRun, calls, grants, skewed, lost, warned>>
    PROVE  LimiterInv'
<1> USE DEF LimiterInv
<1> DEFINE b == cache[i].bucket
<1>1. k \in Keys /\ key[c] = {k}
  BY DEF CallerInv, Knows, TypesInv
<1>2. b \in Buckets /\ Cached(k, b)
  BY <1>1, PlacesAre DEF Existing
<1>3. mine' = [mine EXCEPT ![c] = {b}] /\ key' = [key EXCEPT ![c] = {k}]
  BY <1>1 DEF TypesInv
<1> HIDE DEF b
<1> DEFINE B == {b}  K == {k}
<1>10. /\ B \in SUBSET Buckets /\ \A x \in B : Cached(k, x)
       /\ \E x \in Buckets : B = {x}
       /\ \E l \in Keys : K = {l}
       /\ mine' = [mine EXCEPT ![c] = B] /\ key' = [key EXCEPT ![c] = K]
  BY <1>1, <1>2, <1>3
<1> HIDE DEF B, K
<1>4. TypesInv'
  <2>1. pc' \in [Callers -> {"idle", "add", "report", "clock", "allow"}]
    BY DEF TypesInv, Goto
  <2>2. mine' \in [Callers -> SUBSET Buckets]
    BY <1>10 DEF TypesInv
  <2> QED BY <2>1, <2>2 DEF TypesInv
<1>5. CallerInv'
  <2>1. Knows("clock", K, B)
    BY <1>10 DEF Knows
  <2> QED BY <1>10, <2>1, CallerStep
<1>6. CountInv'
  <2>1. c \in Adding /\ c \in Busy /\ Adding' = Adding \ {c} /\ Busy' = Busy \cup {c}
    BY PcSets DEF Adding, Busy
  <2>2. /\ IsFiniteSet(Adding) /\ IsFiniteSet(Busy) /\ buckets + Cardinality(Adding) <= calls
        /\ buckets \in Nat /\ calls \in Nat
    BY DEF CountInv, TypesInv
  <2>3. /\ IsFiniteSet(Adding') /\ IsFiniteSet(Busy') /\ Busy' = Busy
        /\ Cardinality(Adding) \in Nat /\ Cardinality(Adding') = Cardinality(Adding) - 1
    BY <2>1, <2>2, OneMoreOrLess
  <2>4. buckets' + Cardinality(Adding') <= calls'
    BY <2>2, <2>3
  <2> QED BY <2>3, <2>4 DEF CountInv
<1>7. \A l, a : Cached(l, a)' <=> Cached(l, a)
  BY DEF Cached, Entry
<1>8. BucketInv'
  <2>1. \A l \in Keys, a \in Buckets : Taken(l, a)' => Uses(l, a)
    BY <1>1, <1>10, TakesCached DEF K
  <2> QED BY <1>7, <2>1, SameBuckets
<1>9. CreditInv' /\ BurstPlusRefill'
  BY <1>7, SameCredit
<1>11. SpentInv'
  <2>1. \A l \in Keys, a \in Buckets : Taken(l, a)' => Uses(l, a)
    BY <1>1, <1>10, TakesCached DEF K
  <2>2. \A l \in Keys, a \in Buckets : Uses(l, a)' => Uses(l, a)
    BY <1>7, <2>1 DEF Uses
  <2> QED BY <2>2, SameSpent
<1> QED BY <1>4, <1>5, <1>6, <1>8, <1>9, <1>11

\* A fresh bucket has granted nothing and holds the burst.
LEMMA FreshBalances ==
    ASSUME NEW g \in [Time -> Nat], \A t \in Time : g[t] = 0
    PROVE  Balanced(g, Burst, 0)
<1>1. ASSUME NEW from \in 0..0 PROVE Cost * Between(g, from, 0) + Burst <= Burst + (0 - from)
  <2>1. from = 0 /\ Between(g, from, 0) = 0
    BY Sizes DEF Between
  <2> QED BY <2>1, OneMoreCost, Sizes
<1> QED BY <1>1, Sizes DEF Balanced

\* PeekOrAdd adds the candidate.
LEMMA AddKeeps ==
    ASSUME LimiterInv, NEW c \in Callers, pc[c] = "add", NEW k \in key[c], Existing(k) = {},
           buckets' = buckets + 1,
           bucket' = [bucket EXCEPT ![buckets'] = [credit |-> Burst, last |-> 0]],
           mine' = [mine EXCEPT ![c] = {buckets'}],
           LET grown == Add(k, buckets')
           IN  IF Len(grown) <= Size
               THEN cache' = grown /\ Goto(c, "clock") /\ UNCHANGED <<victim, evicted>>
               ELSE /\ cache' = Front(grown)
                    /\ victim' = [victim EXCEPT ![c] = {Last(grown).bucket}]
                    /\ evicted' = evicted \cup {Last(grown).key}
                    /\ Goto(c, "report"),
           UNCHANGED <<now, key, stamp, nextRun, calls, grants, skewed, lost, warned>>
    PROVE  LimiterInv'
<1> DEFINE E == [key : Keys, bucket : Buckets]
           nb == buckets + 1
           new == Entry(k, nb)
           grown == Add(k, nb)
<1>1. /\ k \in Keys /\ key' = [key EXCEPT ![c] = {k}]
      /\ TypesInv /\ CallerInv /\ CountInv /\ BucketInv /\ CreditInv /\ SpentInv
      /\ BurstPlusRefill /\ Places(k) = {}
  <2>1. k \in Keys /\ key[c] = {k}
    BY DEF LimiterInv, CallerInv, Knows, TypesInv
  <2>2. key' = [key EXCEPT ![c] = {k}]
    BY <2>1 DEF LimiterInv, TypesInv
  <2> QED BY <2>1, <2>2 DEF LimiterInv, Existing
<1>2. /\ IsFiniteSet(Adding') /\ IsFiniteSet(Busy') /\ Busy' = Busy
      /\ buckets \in Nat /\ calls \in 0..MaxCalls
      /\ nb + Cardinality(Adding') <= calls /\ Cardinality(Adding') \in Nat
  <2>1. PICK step \in {"clock", "report"} : Goto(c, step)
    BY Zenon
  <2>2. c \in Adding /\ c \in Busy /\ Adding' = Adding \ {c} /\ Busy' = Busy \cup {c}
    BY <1>1, <2>1, PcSets DEF Adding, Busy
  <2>3. /\ IsFiniteSet(Adding) /\ IsFiniteSet(Busy) /\ buckets + Cardinality(Adding) <= calls
        /\ buckets \in Nat /\ calls \in 0..MaxCalls
    BY <1>1 DEF CountInv, TypesInv
  <2>4. /\ IsFiniteSet(Adding') /\ IsFiniteSet(Busy') /\ Busy' = Busy
        /\ Cardinality(Adding) \in Nat /\ Cardinality(Adding') = Cardinality(Adding) - 1
        /\ Cardinality(Adding) >= 1
    BY <2>2, <2>3, OneMoreOrLess
  <2> QED BY <2>3, <2>4, Sizes
<1>3. nb \in Buckets /\ nb > buckets /\ buckets' = nb
  BY <1>2, Sizes DEF Buckets
<1>4. CountInv'
  <2>1. buckets' + Cardinality(Adding') <= calls'
    BY <1>2
  <2> QED BY <1>1, <1>2, <2>1 DEF CountInv
<1>5. /\ grown \in Seq(E) /\ Len(grown) = Len(cache) + 1 /\ Len(cache) \in Nat
      /\ Len(cache) <= Size
      /\ \A e : Holds(grown, e) <=> (e = new \/ Holds(cache, e))
  <2>1. cache \in Seq(E) /\ Len(cache) <= Size
    BY <1>1 DEF TypesInv
  <2>2. new \in E
    BY <1>1, <1>3, EntryIs
  <2>3. grown = <<new>> \o cache
    BY <1>1 DEF Add
  <2> HIDE DEF E, new, grown
  <2> QED BY <2>1, <2>2, <2>3, PutInFront
<1>6. PICK step \in {"clock", "report"}, out \in SUBSET Keys :
        /\ Goto(c, step)
        /\ cache' \in Seq(E) /\ Len(cache') <= Size
        /\ evicted' = evicted \cup out
        /\ \A e : Holds(cache', e) => Holds(grown, e)
        /\ \A e : Holds(grown, e) /\ e.key \notin out => Holds(cache', e)
        /\ victim' \in [Callers -> SUBSET Buckets]
  <2> HIDE DEF new
  <2>1. CASE Len(grown) <= Size
    <3>1. /\ cache' = grown /\ Goto(c, "clock") /\ victim' = victim
          /\ evicted' = evicted \cup {} /\ {} \in SUBSET Keys
      BY <1>3, <2>1
    <3>2. victim' \in [Callers -> SUBSET Buckets]
      BY <1>1, <3>1 DEF TypesInv
    <3> HIDE DEF grown, E
    <3> QED BY <1>5, <2>1, <3>1, <3>2
  <2>2. CASE ~(Len(grown) <= Size)
    <3> DEFINE end == Last(grown)  out == {end.key}
    <3>1. /\ cache' = Front(grown) /\ Goto(c, "report")
          /\ victim' = [victim EXCEPT ![c] = {end.bucket}]
          /\ evicted' = evicted \cup out
      BY <1>3, <2>2
    <3>2. /\ Front(grown) \in Seq(E) /\ Len(Front(grown)) = Len(grown) - 1 /\ end \in E
          /\ \A e : Holds(Front(grown), e) => Holds(grown, e)
          /\ \A e : Holds(grown, e) => e = end \/ Holds(Front(grown), e)
      <4> HIDE DEF grown, E
      <4> QED BY <1>5, LastDropped
    <3>3. end.key \in Keys /\ end.bucket \in Buckets
      BY <3>2
    <3>4. victim' \in [Callers -> SUBSET Buckets]
      BY <1>1, <3>1, <3>3 DEF TypesInv
    <3>5. Len(cache') <= Size
      BY <1>5, <3>1, <3>2
    <3>6. out \in SUBSET Keys /\ \A e : e.key \notin out => e # end
      BY <3>3
    <3> HIDE DEF grown, E, end, out
    <3> QED BY <3>1, <3>2, <3>4, <3>5, <3>6
  <2> QED BY <2>1, <2>2
<1> HIDE DEF grown
<1>7. /\ \A l \in Keys, b \in Buckets : Cached(l, b)' => (l = k /\ b = nb) \/ Cached(l, b)
      /\ \A l \in Keys \ evicted', b \in Buckets : Cached(l, b) => Cached(l, b)'
      /\ k \notin evicted' => Holds(cache', Entry(k, nb))
      /\ \A l \in Keys, b \in Buckets : Cached(l, b)' <=> Holds(cache', Entry(l, b))
      /\ evicted \subseteq evicted'
  <2>1. \A l, b : Entry(l, b).key = l /\ (Entry(l, b) = new <=> l = k /\ b = nb)
    BY EntryIs DEF Entry
  <2>2. \A l, b : (Cached(l, b) <=> Holds(cache, Entry(l, b))) /\ (Cached(l, b)' <=> Holds(cache', Entry(l, b)))
    BY DEF Cached, Entry
  <2> HIDE DEF new
  <2>3. ASSUME NEW l, NEW b, Cached(l, b)' PROVE (l = k /\ b = nb) \/ Cached(l, b)
    <3>1. Holds(grown, Entry(l, b))
      BY <1>6, <2>2, <2>3
    <3> QED BY <1>5, <2>1, <2>2, <3>1
  <2>4. ASSUME NEW l \in Keys \ evicted', NEW b, (l = k /\ b = nb) \/ Cached(l, b) PROVE Cached(l, b)'
    <3>1. Holds(grown, Entry(l, b))
      BY <1>5, <2>1, <2>2, <2>4
    <3>2. Entry(l, b).key \notin out
      BY <1>6, <2>1
    <3> QED BY <1>6, <2>2, <3>1, <3>2
  <2>5. evicted \subseteq evicted'
    BY <1>6
  <2>6. \A l \in Keys, b \in Buckets : Cached(l, b)' => (l = k /\ b = nb) \/ Cached(l, b)
    BY <2>3
  <2>7. \A l \in Keys \ evicted', b \in Buckets : Cached(l, b) => Cached(l, b)'
    BY <2>4
  <2>8. ASSUME k \notin evicted' PROVE Holds(cache', Entry(k, nb))
    <3>1. Holds(grown, Entry(k, nb)) /\ Entry(k, nb).key \notin out
      BY <1>5, <1>6, <2>1, <2>8
    <3> QED BY <1>6, <3>1
  <2> QED BY <2>2, <2>5, <2>6, <2>7, <2>8
<1>8. \A l \in Keys, b \in Buckets : Taken(l, b)' => (l = k /\ b = nb) \/ Taken(l, b)
  <2> SUFFICES ASSUME NEW l \in Keys, NEW b \in Buckets, Taken(l, b)'
               PROVE  (l = k /\ b = nb) \/ Taken(l, b)
    OBVIOUS
  <2>1. PICK d \in Callers : key'[d] = {l} /\ mine'[d] = {b}
    BY DEF Taken
  <2>2. CASE d = c
    <3>1. {k} = {l} /\ {nb} = {b}
      BY <1>1, <1>3, <2>1, <2>2 DEF TypesInv
    <3> QED BY <3>1
  <2>3. CASE d # c
    <3>1. key[d] = {l} /\ mine[d] = {b}
      BY <1>1, <2>1, <2>3 DEF TypesInv
    <3> QED BY <3>1 DEF Taken
  <2> QED BY <2>2, <2>3
<1>9. /\ \A l \in Keys, b \in Buckets : Uses(l, b)' => (l = k /\ b = nb) \/ Uses(l, b)
      /\ \A l \in Keys, b \in Buckets : Uses(l, b) => b <= buckets /\ b # nb
      /\ \A b \in Buckets : ~Cached(k, b)
      /\ k \notin evicted => \A b \in Buckets : ~Uses(k, b)
  <2>1. \A l \in Keys, b \in Buckets : Uses(l, b)' => (l = k /\ b = nb) \/ Uses(l, b)
    BY <1>7, <1>8 DEF Uses
  <2>2. \A l \in Keys, b \in Buckets : Uses(l, b) => b <= buckets
    BY <1>1 DEF BucketInv
  <2>3. \A b \in Buckets : b <= buckets => b # nb
    BY <1>2, <1>3 DEF Buckets
  <2>4. \A b \in Buckets : ~Cached(k, b)
    BY <1>1, PlacesAre
  <2>5. k \notin evicted => \A b \in Buckets : ~Uses(k, b)
    BY <1>1, <2>4 DEF BucketInv
  <2> QED BY <2>1, <2>2, <2>3, <2>4, <2>5
<1> HIDE DEF nb
<1>10. BucketInv'
  <2>1. \A l \in Keys, b \in Buckets : Uses(l, b)' => b <= buckets'
    <3>1. \A b \in Buckets : b <= buckets => b <= nb
      BY <1>2, <1>3 DEF Buckets
    <3> QED BY <1>3, <1>9, <3>1, Sizes DEF Buckets
  <2>2. \A l, m \in Keys, b \in Buckets : Uses(l, b)' /\ Uses(m, b)' => l = m
    BY <1>1, <1>9 DEF BucketInv
  <2>3. ASSUME NEW l \in Keys \ evicted', NEW a \in Buckets, NEW b \in Buckets,
               Uses(l, a)', Uses(l, b)'
        PROVE  a = b
    <3>1. ((l = k /\ a = nb) \/ Uses(l, a)) /\ ((l = k /\ b = nb) \/ Uses(l, b))
      BY <1>9, <2>3
    <3>2. l \notin evicted
      BY <1>7
    <3>3. CASE l = k
      BY <1>9, <3>1, <3>2, <3>3
    <3>4. CASE Uses(l, a) /\ Uses(l, b)
      BY <1>1, <3>2, <3>4 DEF BucketInv
    <3> QED BY <3>1, <3>3, <3>4
  <2>4. ASSUME NEW l \in Keys \ evicted', NEW b \in Buckets, Uses(l, b)' PROVE Cached(l, b)'
    <3>1. CASE l = k /\ b = nb
      BY <1>7, <3>1
    <3>2. CASE Uses(l, b)
      <4>1. Cached(l, b)
        BY <1>1, <1>7, <3>2 DEF BucketInv
      <4> QED BY <1>7, <4>1
    <3> QED BY <1>9, <2>4, <3>1, <3>2
  <2>5. \A l \in Keys \ evicted' :
          (\E b \in Buckets : Cached(l, b)') \/ (\A t \in Time : grants'[l][t] = 0)
    BY <1>1, <1>3, <1>7 DEF BucketInv
  <2> QED BY <2>1, <2>2, <2>3, <2>4, <2>5 DEF BucketInv
<1>11. bucket'[nb] = [credit |-> Burst, last |-> 0] /\ \A b \in Buckets : b # nb => bucket'[b] = bucket[b]
  BY <1>1, <1>3 DEF TypesInv
<1>12. TypesInv'
  <2>1. bucket' \in [Buckets -> [credit : 0..Burst, last : Time]]
    <3>1. [credit |-> Burst, last |-> 0] \in [credit : 0..Burst, last : Time]
      BY Sizes
    <3> QED BY <1>1, <1>3, <3>1 DEF TypesInv
  <2>2. pc' \in [Callers -> {"idle", "add", "report", "clock", "allow"}]
    BY <1>1, <1>6 DEF TypesInv, Goto
  <2>3. mine' \in [Callers -> SUBSET Buckets]
    BY <1>1, <1>3 DEF TypesInv
  <2>4. evicted' \subseteq Keys /\ buckets' \in Nat
    BY <1>1, <1>2, <1>6 DEF TypesInv
  <2> QED BY <1>1, <1>6, <2>1, <2>2, <2>3, <2>4 DEF TypesInv
<1>13. CallerInv'
  <2>1. Knows(step, {k}, {nb}) /\ mine' = [mine EXCEPT ![c] = {nb}]
    BY <1>1, <1>3 DEF Knows
  <2> QED BY <1>1, <1>6, <2>1, CallerStep
<1>14. CreditInv'
  <2> SUFFICES ASSUME NEW l \in Keys \ (evicted' \cup skewed'), NEW b \in Buckets, Cached(l, b)'
               PROVE  Balanced(grants'[l], bucket'[b].credit, bucket'[b].last)
    BY DEF CreditInv
  <2>0. l \notin evicted /\ l \notin skewed /\ l \in Keys /\ grants' = grants
    BY <1>7
  <2>1. CASE l = k /\ b = nb
    <3>1. \A t \in Time : grants[k][t] = 0
      BY <1>1, <1>9, <2>0, <2>1 DEF BucketInv
    <3>2. grants[k] \in [Time -> Nat]
      BY <1>1 DEF TypesInv
    <3>3. Balanced(grants[k], Burst, 0)
      BY <3>1, <3>2, FreshBalances
    <3>4. bucket'[b].credit = Burst /\ bucket'[b].last = 0
      BY <1>11, <2>1
    <3> QED BY <2>0, <2>1, <3>3, <3>4
  <2>2. CASE Cached(l, b)
    <3>1. b # nb
      BY <1>9, <2>2, <2>0 DEF Uses
    <3>2. Balanced(grants[l], bucket[b].credit, bucket[b].last)
      BY <1>1, <2>0, <2>2 DEF CreditInv
    <3> QED BY <1>11, <2>0, <3>1, <3>2
  <2> QED BY <1>7, <2>0, <2>1, <2>2
<1>15. BurstPlusRefill'
  BY <1>1, <1>7 DEF BurstPlusRefill, Granted
<1>16. SpentInv'
  <2>1. grants' = grants /\ skewed' = skewed /\ \A l \in Keys : Grows(grants[l])
    BY <1>1 DEF SpentInv
  <2>2. ASSUME NEW l \in Keys \ skewed, NEW b \in Buckets, Uses(l, b)'
        PROVE  Spent(grants[l], bucket'[b].credit, bucket'[b].last)
    <3>1. CASE b = nb
      <4>1. grants[l] \in [Time -> Nat]
        BY <1>1 DEF TypesInv
      <4>2. bucket'[b].credit = Burst /\ bucket'[b].last = 0
        BY <1>11, <3>1
      <4> QED BY <4>1, <4>2, FreshSpent
    <3>2. CASE b # nb
      <4>1. Uses(l, b) /\ bucket'[b] = bucket[b]
        BY <1>9, <1>11, <2>2, <3>2
      <4> QED BY <1>1, <4>1 DEF SpentInv
    <3> QED BY <3>1, <3>2
  <2> QED BY <2>1, <2>2 DEF SpentInv
<1> QED BY <1>1, <1>4, <1>10, <1>12, <1>13, <1>14, <1>15, <1>16 DEF LimiterInv

LEMMA PeekOrAddKeeps ==
    ASSUME LimiterInv, NEW c \in Callers, PeekOrAdd(c)
    PROVE  LimiterInv'
BY FindKeeps, AddKeeps DEF PeekOrAdd

\* A step of a caller that has its bucket, on the way to AllowN.
LEMMA PassKeeps ==
    ASSUME LimiterInv, TypesInv', NEW c \in Callers, pc[c] \in {"report", "clock"},
           NEW step \in {"clock", "allow"}, Goto(c, step),
           UNCHANGED <<cache, bucket, buckets, key, mine, calls, grants, evicted, skewed>>
    PROVE  LimiterInv'
<1>1. TypesInv /\ CallerInv /\ CountInv /\ BucketInv /\ CreditInv /\ SpentInv /\ BurstPlusRefill
  BY DEF LimiterInv
<1>2. CallerInv'
  <2>1. key' = [key EXCEPT ![c] = key[c]] /\ mine' = [mine EXCEPT ![c] = mine[c]]
    BY <1>1 DEF TypesInv
  <2>2. Knows(step, key[c], mine[c])
    BY <1>1 DEF CallerInv, Knows
  <2> QED BY <1>1, <2>1, <2>2, CallerStep
<1>3. CountInv'
  <2>1. c \notin Adding /\ c \in Busy /\ Adding' = Adding \ {c} /\ Busy' = Busy \cup {c}
    BY <1>1, PcSets DEF Adding, Busy
  <2>2. Adding' = Adding /\ Busy' = Busy
    BY <2>1
  <2> QED BY <1>1, <2>2 DEF CountInv
<1>4. BucketInv' /\ CreditInv' /\ SpentInv' /\ BurstPlusRefill'
  <2>1. /\ \A k \in Keys, b \in Buckets : Cached(k, b)' <=> Cached(k, b)
        /\ \A k \in Keys, b \in Buckets : Taken(k, b)' => Uses(k, b)
    BY DEF Cached, Taken, Uses, Entry
  <2>2. \A k \in Keys, b \in Buckets : Uses(k, b)' => Uses(k, b)
    BY <2>1 DEF Uses
  <2> QED BY <1>1, <2>1, <2>2, SameBuckets, SameCredit, SameSpent
<1> QED BY <1>2, <1>3, <1>4 DEF LimiterInv

LEMMA OnEvictKeeps ==
    ASSUME LimiterInv, NEW c \in Callers, OnEvict(c)
    PROVE  LimiterInv'
<1>1. pc[c] = "report" /\ Goto(c, "clock") /\ TypesInv
  BY DEF OnEvict, LimiterInv
<1>2. TypesInv'
  <2>1. \/ UNCHANGED <<nextRun, warned, lost>>
        \/ Throttled(now) /\ lost' = lost \cup {now}
    BY DEF OnEvict
  <2>2. nextRun' \in 0..(MaxTime + WarnEvery) /\ warned' \in Seq(Time) /\ lost' \subseteq Time
    <3>1. now \in Time /\ warned \in Seq(Time) /\ lost \subseteq Time /\ nextRun \in 0..(MaxTime + WarnEvery)
      BY <1>1 DEF TypesInv
    <3>2. now + WarnEvery \in 0..(MaxTime + WarnEvery)
      BY <3>1, Sizes DEF Time
    <3>3. Append(warned, now) \in Seq(Time)
      BY <3>1
    <3> QED BY <2>1, <3>1, <3>2, <3>3 DEF Throttled
  <2>3. /\ pc' \in [Callers -> {"idle", "add", "report", "clock", "allow"}]
        /\ victim' \in [Callers -> SUBSET Buckets]
    BY <1>1 DEF OnEvict, TypesInv, Goto
  <2> QED BY <1>1, <2>2, <2>3 DEF OnEvict, TypesInv
<1> QED BY <1>1, <1>2, PassKeeps DEF OnEvict

LEMMA ReadClockKeeps ==
    ASSUME LimiterInv, NEW c \in Callers, ReadClock(c)
    PROVE  LimiterInv'
<1>1. pc[c] = "clock" /\ Goto(c, "allow") /\ TypesInv
  BY DEF ReadClock, LimiterInv
<1>2. TypesInv'
  <2>1. /\ pc' \in [Callers -> {"idle", "add", "report", "clock", "allow"}]
        /\ stamp' \in [Callers -> Time]
    BY <1>1 DEF ReadClock, TypesInv, Goto
  <2> QED BY <1>1, <2>1 DEF ReadClock, TypesInv
<1> QED BY <1>1, <1>2, PassKeeps DEF ReadClock

\* The clock is not part of what the buckets are about.
LEMMA TickKeeps ==
    ASSUME LimiterInv, Tick \/ UNCHANGED vars
    PROVE  LimiterInv'
<1>1. TypesInv /\ CallerInv /\ CountInv /\ BucketInv /\ CreditInv /\ SpentInv /\ BurstPlusRefill
  BY DEF LimiterInv
<1>2. /\ now' \in Time
      /\ UNCHANGED <<cache, bucket, buckets, pc, key, mine, stamp, victim, nextRun,
                     calls, grants, evicted, skewed, lost, warned>>
  BY <1>1, Sizes DEF Tick, vars, TypesInv, Time
<1>3. TypesInv' /\ CallerInv'
  BY <1>1, <1>2 DEF TypesInv, CallerInv
<1>4. CountInv'
  <2>1. Adding' = Adding /\ Busy' = Busy
    BY <1>2 DEF Adding, Busy
  <2> QED BY <1>1, <1>2, <2>1 DEF CountInv
<1>5. BucketInv' /\ CreditInv' /\ SpentInv' /\ BurstPlusRefill'
  <2>1. /\ \A k \in Keys, b \in Buckets : Cached(k, b)' <=> Cached(k, b)
        /\ \A k \in Keys, b \in Buckets : Taken(k, b)' => Uses(k, b)
    BY <1>2 DEF Cached, Taken, Uses, Entry
  <2>2. \A k \in Keys, b \in Buckets : Uses(k, b)' => Uses(k, b)
    BY <2>1 DEF Uses
  <2> QED BY <1>1, <1>2, <2>1, <2>2, SameBuckets, SameCredit, SameSpent
<1> QED BY <1>3, <1>4, <1>5 DEF LimiterInv

LEMMA AllowNKeeps ==
    ASSUME LimiterInv, NEW c \in Callers, AllowN(c)
    PROVE  LimiterInv'
<1> DEFINE t == stamp[c]
<1>1. /\ TypesInv /\ CallerInv /\ CountInv /\ BucketInv /\ CreditInv /\ SpentInv /\ BurstPlusRefill
      /\ pc[c] = "allow" /\ Goto(c, "idle") /\ t \in Time
      /\ key' = [key EXCEPT ![c] = {}] /\ mine' = [mine EXCEPT ![c] = {}]
      /\ stamp' = [stamp EXCEPT ![c] = 0]
      /\ UNCHANGED <<now, cache, buckets, victim, nextRun, calls, evicted, lost, warned>>
  BY DEF LimiterInv, AllowN, TypesInv
<1>2. PICK b \in mine[c], k \in key[c] :
        \/ /\ CreditAt(b, t) >= Cost
           /\ bucket' = [bucket EXCEPT ![b] = [credit |-> CreditAt(b, t) - Cost, last |-> t]]
           /\ grants' = [grants EXCEPT ![k] = [u \in Time |->
                            grants[k][u] + IF u >= t THEN 1 ELSE 0]]
           /\ skewed' = IF t < bucket[b].last THEN skewed \cup {k} ELSE skewed
        \/ UNCHANGED <<bucket, grants, skewed>>
  BY DEF AllowN
<1>3. b \in Buckets /\ k \in Keys /\ Taken(k, b)
  BY <1>1, <1>2 DEF CallerInv, Knows, TypesInv, Taken
<1>4. /\ b \in Buckets /\ k \in Keys /\ t \in Time
      /\ CreditAt(b, t) \in 0..Burst
      /\ t >= bucket[b].last =>
           /\ CreditAt(b, t) <= bucket[b].credit + (t - bucket[b].last)
           /\ CreditAt(b, t) = Burst \/ CreditAt(b, t) = bucket[b].credit + (t - bucket[b].last)
      /\ bucket[b].credit \in 0..Burst /\ bucket[b].last \in Time
  BY <1>1, <1>3, CreditIs
<1> DEFINE left == CreditAt(b, t)
<1> HIDE DEF t, left
\* What changed for a key, and for a bucket.
<1>5. /\ grants' \in [Keys -> [Time -> Nat]]
      /\ \A l \in Keys : l # k => grants'[l] = grants[l]
      /\ \/ grants'[k] = grants[k] /\ bucket' = bucket /\ skewed' = skewed
         \/ /\ left >= Cost
            /\ grants'[k] = [u \in Time |-> grants[k][u] + IF u >= t THEN 1 ELSE 0]
            /\ bucket' = [bucket EXCEPT ![b] = [credit |-> left - Cost, last |-> t]]
            /\ skewed' = IF t < bucket[b].last THEN skewed \cup {k} ELSE skewed
  <2> DEFINE g == [u \in Time |-> grants[k][u] + IF u >= t THEN 1 ELSE 0]
  <2>1. grants \in [Keys -> [Time -> Nat]]
    BY <1>1 DEF TypesInv
  <2>2. g \in [Time -> Nat]
    BY <1>4, <2>1
  <2> HIDE DEF g
  <2>3. CASE /\ left >= Cost
             /\ bucket' = [bucket EXCEPT ![b] = [credit |-> left - Cost, last |-> t]]
             /\ grants' = [grants EXCEPT ![k] = g]
             /\ skewed' = IF t < bucket[b].last THEN skewed \cup {k} ELSE skewed
    <3>1. grants'[k] = g /\ grants' \in [Keys -> [Time -> Nat]] /\ \A l \in Keys : l # k => grants'[l] = grants[l]
      BY <1>4, <2>1, <2>2, <2>3
    <3> QED BY <2>3, <3>1 DEF g
  <2>4. CASE UNCHANGED <<bucket, grants, skewed>>
    BY <2>1, <2>4
  <2> QED BY <1>2, <2>3, <2>4 DEF g, left
<1>6. /\ bucket' \in [Buckets -> [credit : 0..Burst, last : Time]]
      /\ \A a \in Buckets : a # b => bucket'[a] = bucket[a]
      /\ skewed \subseteq skewed' /\ skewed' \subseteq Keys
  <2>1. bucket \in [Buckets -> [credit : 0..Burst, last : Time]] /\ skewed \subseteq Keys
    BY <1>1 DEF TypesInv
  <2>2. left \in 0..Burst
    BY <1>4 DEF left
  <2>3. left >= Cost => [credit |-> left - Cost, last |-> t] \in [credit : 0..Burst, last : Time]
    BY <1>4, <2>2, Sizes
  <2> DEFINE r == [credit |-> left - Cost, last |-> t]
  <2> HIDE DEF r
  <2>4. CASE left >= Cost /\ bucket' = [bucket EXCEPT ![b] = r]
    <3>1. r \in [credit : 0..Burst, last : Time]
      BY <2>3, <2>4 DEF r
    <3>2. bucket' \in [Buckets -> [credit : 0..Burst, last : Time]]
      BY <1>4, <2>1, <2>4, <3>1
    <3> QED BY <1>4, <1>5, <2>1, <2>4, <3>2
  <2>5. CASE bucket' = bucket
    BY <1>4, <1>5, <2>1, <2>5
  <2> QED BY <1>5, <2>4, <2>5 DEF r
<1>7. TypesInv'
  <2>1. /\ pc' \in [Callers -> {"idle", "add", "report", "clock", "allow"}]
        /\ key' \in [Callers -> SUBSET Keys] /\ mine' \in [Callers -> SUBSET Buckets]
        /\ stamp' \in [Callers -> Time]
    BY <1>1, Sizes DEF TypesInv, Goto
  <2> QED BY <1>1, <1>5, <1>6, <2>1 DEF TypesInv
<1>8. CallerInv'
  <2>1. Knows("idle", {}, {})
    BY DEF Knows
  <2> QED BY <1>1, <2>1, CallerStep
<1>9. CountInv'
  <2>1. c \notin Adding /\ c \in Busy /\ Adding' = Adding \ {c} /\ Busy' = Busy \ {c}
    BY <1>1, PcSets DEF Adding, Busy
  <2>2. /\ IsFiniteSet(Adding) /\ IsFiniteSet(Busy) /\ buckets + Cardinality(Adding) <= calls
        /\ \A l \in Keys, u \in Time : grants[l][u] + Cardinality(Busy) <= calls
    BY <1>1 DEF CountInv
  <2>3. /\ Adding' = Adding /\ IsFiniteSet(Busy')
        /\ Cardinality(Busy) \in Nat /\ Cardinality(Busy') = Cardinality(Busy) - 1
    BY <2>1, <2>2, OneMoreOrLess
  <2>4. ASSUME NEW l \in Keys, NEW u \in Time PROVE grants'[l][u] + Cardinality(Busy') <= calls'
    <3> DEFINE g == grants[l][u]  h == grants'[l][u]
    <3>1. g \in Nat /\ calls \in Nat
      BY <1>1 DEF TypesInv
    <3>2. h = g \/ h = g + 1
      <4>1. CASE l # k
        BY <1>5, <4>1
      <4>2. CASE l = k
        <5>1. CASE grants'[k] = grants[k]
          BY <4>2, <5>1
        <5>2. CASE grants'[k] = [v \in Time |-> grants[k][v] + IF v >= t THEN 1 ELSE 0]
          <6>1. h = grants[k][u] + IF u >= t THEN 1 ELSE 0
            BY <4>2, <5>2
          <6> QED BY <3>1, <4>2, <6>1
        <5> QED BY <1>5, <5>1, <5>2
      <4> QED BY <4>1, <4>2
    <3>3. g + Cardinality(Busy) <= calls
      BY <2>2
    <3> HIDE DEF g, h
    <3>4. h + Cardinality(Busy') <= calls
      BY <2>3, <3>1, <3>2, <3>3
    <3> QED BY <1>1, <3>4 DEF h
  <2> QED BY <1>1, <2>2, <2>3, <2>4 DEF CountInv
<1>10. /\ \A l \in Keys, a \in Buckets : Cached(l, a)' <=> Cached(l, a)
       /\ \A l \in Keys, a \in Buckets : Taken(l, a)' => Taken(l, a)
  <2>1. \A l \in Keys, a \in Buckets : Cached(l, a)' <=> Cached(l, a)
    BY <1>1 DEF Cached, Entry
  <2>2. ASSUME NEW l \in Keys, NEW a \in Buckets, Taken(l, a)' PROVE Taken(l, a)
    <3>1. PICK d \in Callers : key'[d] = {l} /\ mine'[d] = {a}
      BY <2>2 DEF Taken
    <3>2. d # c
      BY <1>1, <3>1 DEF TypesInv
    <3>3. key[d] = {l} /\ mine[d] = {a}
      BY <1>1, <3>1, <3>2 DEF TypesInv
    <3> QED BY <3>3 DEF Taken
  <2> QED BY <2>1, <2>2
<1>11. k \notin evicted => Cached(k, b)
  BY <1>1, <1>3 DEF BucketInv, Uses
<1>12. BucketInv'
  <2>1. \A l \in Keys \ evicted : grants'[l] = grants[l] \/ \E a \in Buckets : Cached(l, a)
    BY <1>3, <1>5, <1>11
  <2> QED BY <1>1, <1>10, <2>1, SameBuckets DEF Uses
\* The bucket the occurrence was charged to.
<1>13. ASSUME k \notin evicted, k \notin skewed'
       PROVE  Balanced(grants'[k], bucket'[b].credit, bucket'[b].last) /\ Promised(grants'[k])
  <2>1. /\ Balanced(grants[k], bucket[b].credit, bucket[b].last)
        /\ Promised(grants[k]) /\ grants[k] \in [Time -> Nat]
    <3>1. k \in Keys \ (evicted \cup skewed)
      BY <1>3, <1>6, <1>13
    <3>2. Balanced(grants[k], bucket[b].credit, bucket[b].last)
      BY <1>1, <1>3, <1>11, <3>1 DEF CreditInv
    <3>3. Promised(grants[k])
      BY <1>1, <3>1, PromiseIs
    <3>4. grants[k] \in [Time -> Nat]
      BY <1>1, <1>3 DEF TypesInv
    <3> QED BY <3>2, <3>3, <3>4
  <2>2. CASE grants'[k] = grants[k] /\ bucket' = bucket
    BY <2>1, <2>2
  <2>3. CASE /\ left >= Cost
             /\ grants'[k] = [u \in Time |-> grants[k][u] + IF u >= t THEN 1 ELSE 0]
             /\ bucket' = [bucket EXCEPT ![b] = [credit |-> left - Cost, last |-> t]]
             /\ skewed' = IF t < bucket[b].last THEN skewed \cup {k} ELSE skewed
    <3> DEFINE g == grants[k]  h == grants'[k]  credit == bucket[b].credit  last == bucket[b].last
    <3>1. t >= last /\ last \in Time /\ credit \in 0..Burst /\ t \in Time
      BY <1>4, <1>13, <2>3 DEF Time
    <3>2. left \in Cost..Burst /\ left <= credit + (t - last)
      BY <1>4, <2>3, <3>1, Sizes DEF left
    <3>3. /\ g \in [Time -> Nat] /\ Balanced(g, credit, last) /\ Promised(g)
          /\ h = [u \in Time |-> g[u] + IF u >= t THEN 1 ELSE 0]
      BY <2>1, <2>3
    <3>4. bucket'[b].credit = left - Cost /\ bucket'[b].last = t
      <4>1. bucket \in [Buckets -> [credit : 0..Burst, last : Time]]
        BY <1>1 DEF TypesInv
      <4> QED BY <1>4, <2>3, <4>1
    <3>5. left - Cost \in Nat
      BY <3>2, Sizes
    <3> HIDE DEF g, h, credit, last
    <3>6. Balanced(h, left - Cost, t)
      BY <3>1, <3>2, <3>3, GrantBalances
    <3>7. Promised(h)
      BY <3>1, <3>3, <3>5, <3>6, GrantKeepsPromise
    <3> QED BY <3>4, <3>6, <3>7 DEF h
  <2> QED BY <1>5, <2>2, <2>3
<1>14. CreditInv'
  <2> SUFFICES ASSUME NEW l \in Keys \ (evicted' \cup skewed'), NEW a \in Buckets, Cached(l, a)'
               PROVE  Balanced(grants'[l], bucket'[a].credit, bucket'[a].last)
    BY DEF CreditInv
  <2>1. l \in Keys \ (evicted \cup skewed) /\ Cached(l, a) /\ Uses(l, a) /\ Uses(k, b)
    BY <1>1, <1>3, <1>6, <1>10 DEF Uses
  <2>2. l = k <=> a = b
    BY <1>1, <1>3, <2>1 DEF BucketInv
  <2>3. CASE a = b
    BY <1>1, <1>13, <2>2, <2>3
  <2>4. CASE a # b
    <3>1. Balanced(grants[l], bucket[a].credit, bucket[a].last)
      BY <1>1, <2>1 DEF CreditInv
    <3> QED BY <1>5, <1>6, <2>1, <2>2, <2>4, <3>1
  <2> QED BY <2>3, <2>4
<1>15. BurstPlusRefill'
  <2>1. ASSUME NEW l \in Keys \ (evicted' \cup skewed') PROVE Promised(grants'[l])
    <3>1. l \in Keys \ (evicted \cup skewed)
      BY <1>1, <1>6
    <3>2. CASE l = k
      BY <1>1, <1>13, <3>2
    <3>3. CASE l # k
      BY <1>1, <1>5, <3>1, <3>3, PromiseIs
    <3> QED BY <3>2, <3>3
  <2> QED BY <2>1 DEF BurstPlusRefill, Promised, Between, Granted
<1>16. SpentInv'
  <2>1. \A l \in Keys : Grows(grants[l]) /\ grants[l] \in [Time -> Nat]
    BY <1>1 DEF SpentInv, TypesInv
  <2>2. \A l \in Keys, a \in Buckets : Uses(l, a)' => Uses(l, a)
    BY <1>10 DEF Uses
  <2>3. CASE grants'[k] = grants[k] /\ bucket' = bucket /\ skewed' = skewed
    <3>1. \A l \in Keys : grants'[l] = grants[l]
      BY <1>5, <2>3
    <3> QED BY <1>1, <2>1, <2>2, <2>3, <3>1 DEF SpentInv
  <2>4. CASE /\ left >= Cost
             /\ grants'[k] = [u \in Time |-> grants[k][u] + IF u >= t THEN 1 ELSE 0]
             /\ bucket' = [bucket EXCEPT ![b] = [credit |-> left - Cost, last |-> t]]
             /\ skewed' = IF t < bucket[b].last THEN skewed \cup {k} ELSE skewed
    <3> DEFINE g == grants[k]  h == grants'[k]
    <3>1. g \in [Time -> Nat] /\ Grows(g) /\ h = [u \in Time |-> g[u] + IF u >= t THEN 1 ELSE 0]
      BY <1>4, <2>1, <2>4
    <3>2. bucket'[b].credit = left - Cost /\ bucket'[b].last = t
      BY <1>1, <1>4, <2>4 DEF TypesInv
    <3> HIDE DEF g, h
    <3>3. Grows(h)
      BY <1>4, <3>1, GrantsGrow
    <3>4. \A l \in Keys : Grows(grants'[l])
      BY <1>5, <2>1, <3>3 DEF h
    <3>5. ASSUME NEW l \in Keys \ skewed', NEW a \in Buckets, Uses(l, a)'
          PROVE  Spent(grants'[l], bucket'[a].credit, bucket'[a].last)
      <4>1. l \in Keys \ skewed /\ Uses(l, a) /\ Uses(k, b)
        BY <1>3, <1>6, <2>2, <3>5 DEF Uses
      <4>2. Spent(grants[l], bucket[a].credit, bucket[a].last)
        BY <1>1, <4>1 DEF SpentInv
      <4> DEFINE credit == bucket[a].credit  last == bucket[a].last
      <4>3. credit \in Nat /\ last \in Time
        <5>1. bucket[a] \in [credit : 0..Burst, last : Time]
          BY <1>1 DEF TypesInv
        <5> QED BY <5>1, Sizes
      <4>4. CASE a = b
        <5>1. l = k
          BY <1>1, <1>3, <4>1, <4>4 DEF BucketInv
        <5>2. t >= last /\ (left = Burst \/ left = credit + (t - last))
          BY <1>4, <2>4, <3>5, <4>4, <5>1 DEF left, Time
        <5>3. Spent(g, credit, last) /\ left \in Cost..Burst
          BY <1>4, <2>4, <4>2, <5>1, Sizes DEF g, left
        <5> HIDE DEF credit, last
        <5>4. Spent(h, left - Cost, t)
          BY <1>4, <3>1, <4>3, <5>2, <5>3, GrantSpends
        <5> QED BY <3>2, <4>4, <5>1, <5>4 DEF h
      <4>5. CASE a # b /\ l = k
        <5>1. Spent(g, credit, last)
          BY <4>2, <4>5 DEF g
        <5> HIDE DEF credit, last
        <5>2. Spent(h, credit, last)
          BY <1>4, <3>1, <4>3, <5>1, OthersSpent
        <5> QED BY <1>6, <4>5, <5>2 DEF h, credit, last
      <4>6. CASE a # b /\ l # k
        BY <1>5, <1>6, <4>2, <4>6
      <4> QED BY <4>4, <4>5, <4>6
    <3> QED BY <3>4, <3>5 DEF SpentInv
  <2> QED BY <1>5, <2>3, <2>4
<1> QED BY <1>7, <1>8, <1>9, <1>12, <1>14, <1>15, <1>16 DEF LimiterInv

LEMMA StepKeepsLimiterInv == LimiterInv /\ [Next]_vars => LimiterInv'
<1> SUFFICES ASSUME LimiterInv, [Next]_vars PROVE LimiterInv'
  OBVIOUS
<1>1. ASSUME NEW c \in Callers, Get(c) PROVE LimiterInv'
  BY <1>1, GetKeeps
<1>2. ASSUME NEW c \in Callers, PeekOrAdd(c) PROVE LimiterInv'
  BY <1>2, PeekOrAddKeeps
<1>3. ASSUME NEW c \in Callers, OnEvict(c) PROVE LimiterInv'
  BY <1>3, OnEvictKeeps
<1>4. ASSUME NEW c \in Callers, ReadClock(c) PROVE LimiterInv'
  BY <1>4, ReadClockKeeps
<1>5. ASSUME NEW c \in Callers, AllowN(c) PROVE LimiterInv'
  BY <1>5, AllowNKeeps
<1>6. CASE Tick \/ Done \/ UNCHANGED vars
  BY <1>6, TickKeeps DEF Done
<1> QED BY <1>1, <1>2, <1>3, <1>4, <1>5, <1>6 DEF Next

\* The buckets, in every reachable state.
THEOREM AlwaysLimiterInv == Spec => []LimiterInv
<1> QED BY InitLimiterInv, StepKeepsLimiterInv, PTL DEF Spec

\* Every variable keeps its type: no credit below nothing or above the burst, no
\* more entries than the cache holds, no more buckets or grants than calls.
THEOREM LimiterTypesHold == Spec => []TypeOK
<1>1. LimiterInv => TypeOK
  <2> SUFFICES ASSUME LimiterInv PROVE TypeOK
    OBVIOUS
  <2>1. TypesInv /\ CountInv
    BY DEF LimiterInv
  <2>2. Cardinality(Adding) \in Nat /\ Cardinality(Busy) \in Nat /\ calls \in 0..MaxCalls
    BY <2>1, FS_CardinalityType DEF CountInv, TypesInv
  <2>3. buckets \in 0..MaxCalls
    BY <2>1, <2>2, Sizes DEF CountInv, TypesInv
  <2>4. grants \in [Keys -> [Time -> 0..MaxCalls]]
    <3>1. ASSUME NEW k \in Keys, NEW t \in Time PROVE grants[k][t] \in 0..MaxCalls
      <4>1. grants[k][t] \in Nat /\ grants[k][t] + Cardinality(Busy) <= calls
        BY <2>1 DEF CountInv, TypesInv
      <4> QED BY <2>2, <4>1, Sizes
    <3>2. \A k \in Keys : grants[k] \in [Time -> 0..MaxCalls]
      BY <2>1, <3>1 DEF TypesInv
    <3> QED BY <2>1, <3>2 DEF TypesInv
  <2> QED BY <2>1, <2>3, <2>4 DEF TypesInv, TypeOK
<1> QED BY <1>1, AlwaysLimiterInv, PTL

\* Callers that race on a missing key get the same bucket.
THEOREM OneBucketHolds == Spec => []OneBucketPerKey
<1>1. LimiterInv => OneBucketPerKey
  <2> SUFFICES ASSUME LimiterInv, NEW c \in Callers, NEW d \in Callers, key[c] = key[d],
                      key[c] \cap evicted = {}, NEW b \in mine[c], NEW a \in mine[d]
               PROVE  a = b
    BY DEF OneBucketPerKey
  <2>1. TypesInv /\ CallerInv /\ BucketInv
    BY DEF LimiterInv
  <2>2. Knows(pc[c], key[c], mine[c]) /\ Knows(pc[d], key[d], mine[d])
    BY <2>1 DEF CallerInv
  <2>3. /\ pc[c] \in {"report", "clock", "allow"} \/ mine[c] = {}
        /\ pc[d] \in {"report", "clock", "allow"} \/ mine[d] = {}
    BY <2>1, <2>2 DEF TypesInv, Knows
  <2>4. PICK k \in Keys : key[c] = {k} /\ mine[c] = {b} /\ b \in Buckets
    BY <2>2, <2>3 DEF Knows
  <2>5. mine[d] = {a} /\ a \in Buckets
    BY <2>2, <2>3 DEF Knows
  <2>6. Uses(k, b) /\ Uses(k, a) /\ k \notin evicted
    BY <2>4, <2>5 DEF Uses, Taken
  <2> QED BY <2>1, <2>4, <2>5, <2>6 DEF BucketInv
<1> QED BY <1>1, AlwaysLimiterInv, PTL

\* A key gets its burst and what refills, over any stretch of time, whatever
\* order its callers come in, while it is not evicted nor its clock reads cross.
THEOREM BurstPlusRefillHolds == Spec => []BurstPlusRefill
<1>1. LimiterInv => BurstPlusRefill
  BY DEF LimiterInv
<1> QED BY <1>1, AlwaysLimiterInv, PTL
\* What is left of PolicyHonoured, "at most Count occurrences of a key within Per":
\* fewer than twice as many, of a key that was never evicted and whose callers read the
\* clock in the order in which they took its tokens.
UnderTwice ==
    \A k \in Keys \ (evicted \cup skewed), from \in Time :
        from + Burst - 1 <= MaxTime => Granted(k, from, from + Burst - 1) < 2 * Count

\* Per is the time the burst takes to refill, so a burst and a refill go in one Per.  An
\* evicted key starts over with a full bucket and is not bounded here.
THEOREM UnderTwiceHolds == Spec => []UnderTwice
<1>1. LimiterInv => UnderTwice
  <2> SUFFICES ASSUME LimiterInv, NEW k \in Keys \ (evicted \cup skewed), NEW from \in Time,
                      from + Burst - 1 <= MaxTime
               PROVE  Granted(k, from, from + Burst - 1) < 2 * Count
    BY DEF UnderTwice
  <2> DEFINE to == from + Burst - 1  n == Granted(k, from, to)
  <2>1. from \in Nat /\ Burst \in Nat /\ Cost \in Nat \ {0} /\ Cost <= Burst
    BY Sizes DEF Time
  <2>2. to \in Time /\ from <= to /\ to - from = Burst - 1
    BY <2>1, Sizes DEF Time
  <2>3. n \in Int
    <3>1. \A u \in Time : grants[k][u] \in Nat
      BY DEF LimiterInv, TypesInv
    <3>2. from > 0 => from - 1 \in Time
      BY <2>1, Sizes DEF Time
    <3> HIDE DEF to
    <3> QED BY <2>1, <2>2, <3>1, <3>2 DEF Granted
  <2>4. Cost * n <= Burst + (to - from)
    BY <2>2 DEF LimiterInv, BurstPlusRefill
  <2> HIDE DEF to, n
  <2>5. ASSUME n >= 2 * Count PROVE FALSE
    <3>1. 2 * Count \in Int /\ Cost * (2 * Count) = Burst + Burst
      BY RateLimiterAssumption DEF Burst
    <3>2. Cost * n >= Burst + Burst /\ Cost * n \in Int
      BY <2>3, <2>5, <3>1, MoreCosts
    <3> DEFINE p == Cost * n
    <3>3. p >= Burst + Burst /\ p \in Int /\ p <= Burst + (to - from)
      BY <2>4, <3>2
    <3> HIDE DEF p
    <3> QED BY <2>1, <2>2, <3>3
  <2> QED BY <2>3, <2>5, RateLimiterAssumption DEF n, to
<1> QED BY <1>1, AlwaysLimiterInv, PTL
-----------------------------------------------------------------------------
(***************************************************************************)
(* The limiter implements KeyQuota.                                        *)
(***************************************************************************)

\* A step of one caller, as KeyQuota sees its clock reading.
LEMMA AsOfStep ==
    ASSUME TypesInv, NEW c \in Callers, NEW step, Goto(c, step),
           NEW s, stamp' = [stamp EXCEPT ![c] = s]
    PROVE  /\ AsOf' = [AsOf EXCEPT ![c] = IF step = "allow" THEN {s} ELSE {}]
           /\ pc[c] # "allow" /\ step # "allow" => AsOf' = AsOf
           /\ AsOf[c] = IF pc[c] = "allow" THEN {stamp[c]} ELSE {}
<1>1. \A d \in Callers : d # c => pc'[d] = pc[d] /\ stamp'[d] = stamp[d]
  BY DEF TypesInv, Goto
<1>2. pc'[c] = step /\ stamp'[c] = s
  BY DEF TypesInv, Goto
<1> QED BY <1>1, <1>2 DEF AsOf

\* The same for a step that leaves the stamps alone.
LEMMA AsOfSame ==
    ASSUME TypesInv, NEW c \in Callers, NEW step, Goto(c, step), stamp' = stamp,
           pc[c] # "allow", step # "allow"
    PROVE  AsOf' = AsOf
<1>1. stamp' = [stamp EXCEPT ![c] = stamp[c]]
  BY DEF TypesInv
<1> QED BY <1>1, AsOfStep

\* A caller turned away asked for more than the key had left, unless its moment
\* is before an occurrence the key has got.
LEMMA RefusalIsDue ==
    ASSUME NEW g \in [Time -> Nat], Grows(g), NEW t \in Time,
           NEW credit \in Nat, NEW last \in Time, Spent(g, credit, last),
           t >= last => credit + (t - last) < Cost
    PROVE  \/ \E from \in 0..t : Cost * (Between(g, from, t) + 1) > Burst + (t - from)
           \/ \E u \in Time : u > t /\ Between(g, u, u) > 0
<1> USE Sizes
<1>1. t \in Nat /\ last \in Nat
  BY DEF Time
<1>2. CASE t < last
  <2>1. last > t /\ Between(g, last, last) > 0
    BY <1>1, <1>2 DEF Spent
  <2> QED BY <2>1
<1>3. CASE t >= last
  <2>1. PICK from \in 0..last : credit + Cost * Between(g, from, last) >= Burst + (last - from)
    BY DEF Spent
  <2>2. from \in Time /\ from <= last /\ from \in Nat /\ from \in 0..t
    BY <1>1, <1>3 DEF Time
  <2> DEFINE x == Between(g, from, last)  y == Between(g, from, t)
  <2>3. x \in Nat /\ y \in Nat /\ y >= x
    <3>1. Outgrows([u \in Time |-> g[u] + IF u >= t THEN 1 ELSE 0], g, t)
      BY GrantsGrow
    <3>2. x \in Nat /\ y >= x
      BY <1>3, <2>2, <3>1 DEF Outgrows
    <3>3. from <= t
      BY <1>1, <1>3, <2>2
    <3>4. y \in Nat
      BY <2>2, <3>1, <3>3 DEF Outgrows
    <3> QED BY <3>2, <3>4
  <2>4. credit + Cost * x >= Burst + (last - from)
    BY <2>1
  <2> HIDE DEF x, y
  <2>5. /\ Cost * (y + 1) = Cost * y + Cost /\ Cost * y >= Cost * x
        /\ Cost * y \in Int /\ Cost * x \in Int
    BY <2>3, OneMoreCost, MoreCosts
  <2> DEFINE p == Cost * x  q == Cost * y
  <2>6. /\ p \in Int /\ q \in Int /\ q >= p /\ Cost * (y + 1) = q + Cost
        /\ credit + p >= Burst + (last - from)
    BY <2>4, <2>5
  <2> HIDE DEF p, q
  <2>7. Cost * (y + 1) > Burst + (t - from)
    BY <1>1, <1>3, <2>2, <2>6
  <2> QED BY <2>2, <2>7 DEF y
<1> QED BY <1>1, <1>2, <1>3

LEMMA InitQuota == Init => Quota!Init
BY Sizes DEF Init, AsOf, Quota!Init, Quota!Time, Time

LEMMA GetAsks ==
    ASSUME LimiterInv, NEW c \in Callers, Get(c)
    PROVE  Quota!Ask(c)
<1>1. TypesInv /\ CallerInv /\ pc[c] = "idle" /\ stamp' = stamp
  BY DEF LimiterInv, Get
<1>2. key[c] = {}
  BY <1>1 DEF CallerInv, Knows
<1>3. PICK step \in {"add", "clock"} : Goto(c, step)
  BY DEF Get
<1>4. AsOf' = AsOf
  BY <1>1, <1>3, AsOfSame
<1> QED BY <1>2, <1>4 DEF Get, Quota!Ask

LEMMA PeekOrAddForgets ==
    ASSUME LimiterInv, NEW c \in Callers, PeekOrAdd(c)
    PROVE  Quota!Forget \/ UNCHANGED Quota!vars
<1>1. TypesInv /\ TypesInv' /\ pc[c] = "add"
  BY PeekOrAddKeeps DEF LimiterInv, PeekOrAdd
<1>2. UNCHANGED <<now, key, stamp, grants, skewed>>
  BY DEF PeekOrAdd
<1>3. \E step \in {"clock", "report"} : Goto(c, step)
  BY Zenon DEF PeekOrAdd
<1>4. AsOf' = AsOf
  BY <1>1, <1>2, <1>3, AsOfSame
<1>5. evicted' = evicted \/ \E k : evicted' = evicted \cup {k}
  BY Zenon DEF PeekOrAdd
<1>6. evicted' = evicted \/ \E k \in Keys : evicted' = evicted \cup {k}
  BY <1>1, <1>5 DEF TypesInv
<1> QED BY <1>2, <1>4, <1>6 DEF Quota!Forget, Quota!vars

LEMMA OnEvictStutters ==
    ASSUME LimiterInv, NEW c \in Callers, OnEvict(c)
    PROVE  UNCHANGED Quota!vars
<1>1. TypesInv /\ pc[c] = "report" /\ Goto(c, "clock") /\ stamp' = stamp
  BY DEF LimiterInv, OnEvict
<1>2. AsOf' = AsOf
  BY <1>1, AsOfSame
<1> QED BY <1>2 DEF OnEvict, Quota!vars

LEMMA ReadClockFixes ==
    ASSUME LimiterInv, NEW c \in Callers, ReadClock(c)
    PROVE  Quota!Fix(c)
<1>1. TypesInv /\ CallerInv /\ pc[c] = "clock"
  BY DEF LimiterInv, ReadClock
<1>2. AsOf[c] = {} /\ AsOf' = [AsOf EXCEPT ![c] = {now}]
  BY <1>1, AsOfStep DEF ReadClock
<1>3. key[c] # {}
  BY <1>1 DEF CallerInv, Knows
<1> QED BY <1>2, <1>3 DEF ReadClock, Quota!Fix

LEMMA AllowNAnswers ==
    ASSUME LimiterInv, NEW c \in Callers, AllowN(c)
    PROVE  Quota!Grant(c) \/ Quota!Refuse(c)
<1> DEFINE t == stamp[c]
<1>1. /\ TypesInv /\ CallerInv /\ SpentInv /\ pc[c] = "allow" /\ Goto(c, "idle") /\ t \in Time
      /\ key' = [key EXCEPT ![c] = {}] /\ stamp' = [stamp EXCEPT ![c] = 0]
      /\ now' = now /\ evicted' = evicted
  BY DEF LimiterInv, AllowN, TypesInv
<1>2. PICK b \in mine[c], k \in key[c] :
        \/ /\ CreditAt(b, t) >= Cost
           /\ bucket' = [bucket EXCEPT ![b] = [credit |-> CreditAt(b, t) - Cost, last |-> t]]
           /\ grants' = [grants EXCEPT ![k] = [u \in Time |->
                            grants[k][u] + IF u >= t THEN 1 ELSE 0]]
           /\ skewed' = IF t < bucket[b].last THEN skewed \cup {k} ELSE skewed
        \/ ~(CreditAt(b, t) >= Cost) /\ UNCHANGED <<bucket, grants, skewed>>
  BY DEF AllowN
<1>3. b \in Buckets /\ k \in Keys /\ Uses(k, b)
  BY <1>1, <1>2 DEF CallerInv, Knows, TypesInv, Uses, Taken
<1>4. Quota!Answered(c) /\ t \in AsOf[c]
  <2>1. AsOf[c] = {t} /\ AsOf' = [AsOf EXCEPT ![c] = {}]
    <3>1. /\ AsOf' = [AsOf EXCEPT ![c] = IF "idle" = "allow" THEN {0} ELSE {}]
          /\ AsOf[c] = IF pc[c] = "allow" THEN {stamp[c]} ELSE {}
      BY <1>1, AsOfStep
    <3> QED BY <1>1, <3>1
  <2> QED BY <1>1, <2>1 DEF Quota!Answered
<1>5. /\ CreditAt(b, t) \in 0..Burst
      /\ t >= bucket[b].last =>
           CreditAt(b, t) = Burst \/ CreditAt(b, t) = bucket[b].credit + (t - bucket[b].last)
      /\ bucket[b].credit \in 0..Burst /\ bucket[b].last \in Time
  BY <1>1, <1>3, CreditIs
<1>6. Grows(grants[k]) /\ grants[k] \in [Time -> Nat]
  BY <1>1, <1>3 DEF SpentInv, TypesInv
<1>7. k \notin skewed => Spent(grants[k], bucket[b].credit, bucket[b].last)
  BY <1>1, <1>3 DEF SpentInv
<1> DEFINE left == CreditAt(b, t)  credit == bucket[b].credit  last == bucket[b].last
           g == grants[k]
<1> HIDE DEF t, left, credit, last, g
<1>8. CASE /\ left >= Cost
           /\ grants' = [grants EXCEPT ![k] = [u \in Time |-> grants[k][u] + IF u >= t THEN 1 ELSE 0]]
           /\ skewed' = IF t < last THEN skewed \cup {k} ELSE skewed
  <2>1. skewed' = skewed \/ (Quota!GrantedAfter(k, t) /\ skewed' = skewed \cup {k})
    <3>1. CASE t < last /\ k \notin skewed
      <4>1. Between(g, last, last) > 0 /\ last > t /\ last \in Time
        BY <1>1, <1>5, <1>7, <3>1, Sizes DEF Spent, Time, g, credit, last
      <4>2. Quota!GrantedAfter(k, t)
        BY <4>1 DEF Quota!GrantedAfter, Quota!Granted, Quota!Time, Between, Time, g
      <4> QED BY <1>8, <3>1, <4>2
    <3>2. CASE ~(t < last /\ k \notin skewed)
      BY <1>8, <3>2
    <3> QED BY <3>1, <3>2
  <2>2. k \notin evicted \cup skewed' => Quota!WithinQuota(k)'
    <3>1. BurstPlusRefill'
      BY AllowNKeeps DEF LimiterInv
    <3> QED BY <1>1, <1>3, <3>1 DEF BurstPlusRefill, Granted, Quota!WithinQuota, Quota!Granted,
               Quota!Time, Quota!Burst, Time, Burst
  <2>3. grants' = [grants EXCEPT ![k] = [u \in Quota!Time |-> @[u] + IF u >= t THEN 1 ELSE 0]]
    BY <1>8 DEF Quota!Time, Time
  <2> QED BY <1>2, <1>4, <2>1, <2>2, <2>3 DEF Quota!Grant
<1>9. CASE ~(left >= Cost) /\ UNCHANGED <<grants, skewed>>
  <2>1. ASSUME k \notin skewed
        PROVE  Quota!Exhausted(k, t) \/ Quota!GrantedAfter(k, t)
    <3>1. g \in [Time -> Nat] /\ Grows(g) /\ Spent(g, credit, last) /\ t \in Time
      BY <1>1, <1>6, <1>7, <2>1 DEF g, credit, last
    <3>2. credit \in Nat /\ last \in Time
      BY <1>5, Sizes DEF credit, last
    <3>3. t >= last => credit + (t - last) < Cost
      <4>1. left \in 0..Burst /\ (t >= last => left = Burst \/ left = credit + (t - last))
        BY <1>5 DEF left, credit, last
      <4> QED BY <1>9, <3>1, <3>2, <4>1, Sizes DEF Time
    <3>4. \/ \E from \in 0..t : Cost * (Between(g, from, t) + 1) > Burst + (t - from)
          \/ \E u \in Time : u > t /\ Between(g, u, u) > 0
      BY <3>1, <3>2, <3>3, RefusalIsDue
    <3> QED BY <3>4 DEF Quota!Exhausted, Quota!GrantedAfter, Quota!Granted, Quota!Time,
               Quota!Burst, Between, Time, Burst, g
  <2> QED BY <1>2, <1>4, <1>9, <2>1 DEF Quota!Refuse
<1> QED BY <1>2, <1>8, <1>9 DEF left, last

LEMMA StepKeepsQuota == LimiterInv /\ [Next]_vars => [Quota!Next]_(Quota!vars)
<1> SUFFICES ASSUME LimiterInv, [Next]_vars PROVE [Quota!Next]_(Quota!vars)
  OBVIOUS
<1>1. ASSUME NEW c \in Callers, Get(c) PROVE Quota!Next
  BY <1>1, GetAsks DEF Quota!Next
<1>2. ASSUME NEW c \in Callers, PeekOrAdd(c) PROVE [Quota!Next]_(Quota!vars)
  BY <1>2, PeekOrAddForgets DEF Quota!Next
<1>3. ASSUME NEW c \in Callers, OnEvict(c) PROVE UNCHANGED Quota!vars
  BY <1>3, OnEvictStutters
<1>4. ASSUME NEW c \in Callers, ReadClock(c) PROVE Quota!Next
  BY <1>4, ReadClockFixes DEF Quota!Next
<1>5. ASSUME NEW c \in Callers, AllowN(c) PROVE Quota!Next
  BY <1>5, AllowNAnswers DEF Quota!Next
<1>6. CASE Tick
  <2>1. AsOf' = AsOf
    BY <1>6 DEF Tick, AsOf
  <2>2. Quota!Tick
    BY <1>6, <2>1 DEF Tick, Quota!Tick
  <2> QED BY <2>2 DEF Quota!Next
<1>7. CASE UNCHANGED vars
  <2>1. AsOf' = AsOf
    BY <1>7 DEF vars, AsOf
  <2> QED BY <1>7, <2>1 DEF vars, Quota!vars
<1> QED BY <1>1, <1>2, <1>3, <1>4, <1>5, <1>6, <1>7 DEF Next, Done

\* Every answer is what the key is due as of a moment between the question and
\* the answer: nobody gets more than a burst and the refill, and nobody is turned
\* away who could have had an occurrence.
THEOREM KeepsQuotaHolds == Spec => KeepsQuota
<1>1. Spec => Quota!Init /\ [][Quota!Next]_(Quota!vars)
  BY InitQuota, StepKeepsQuota, AlwaysLimiterInv, PTL DEF Spec
<1> QED BY <1>1 DEF KeepsQuota, Quota!Spec
=============================================================================
