---------------------------- MODULE RateLimiter -----------------------------
(***************************************************************************)
(* InMemoryLimiter of internal/service/ratelimit: an LRU cache of token    *)
(* buckets that concurrent handlers ask before they log in or send a mail. *)
(* The cache and each bucket have a lock of their own and the clock is     *)
(* read outside both, so Allow is several steps.  The cache is hashicorp's *)
(* golang-lru, a bucket is x/time/rate's Limiter.                          *)
(*                                                                         *)
(* Time is in ticks.  A bucket gains one unit of credit a tick; an allowed *)
(* occurrence costs Cost units, the Per/Count of every key's policy.       *)
(***************************************************************************)
EXTENDS Integers, Sequences, FiniteSets, SequencesExt

CONSTANTS
    Callers,    \* requests in their handler's rate limit
    Keys,       \* route pattern with the user or the email
    Size,       \* entries the cache holds
    Count, Cost,
    WarnEvery,  \* evictionWarnInterval
    MaxTime,    \* bound: ticks that pass
    MaxCalls    \* bound: calls of Allow, so of buckets too

ASSUME RateLimiterAssumption ==
    /\ Count \in Nat \ {0} /\ Cost \in Nat \ {0} /\ Size \in Nat \ {0}
    /\ WarnEvery \in Nat \ {0} /\ MaxTime \in Nat /\ MaxCalls \in Nat

VARIABLES
    now,      \* the clock
    cache,    \* keys and their buckets, most recently used first
    bucket,   \* bucket[b]: credit, and the time it was computed for
    buckets,  \* buckets made so far
    pc, key, mine, stamp,  \* of a caller: step, key, bucket, time it read
    victim,   \* victim[c]: the bucket c evicted and has not reported
    nextRun,  \* of the throttle of warnEvict
    calls,
    grants,   \* grants[k][t]: occurrences of k allowed up to t (history)
    evicted, skewed, lost, warned  \* history

vars == <<now, cache, bucket, buckets, pc, key, mine, stamp, victim, nextRun,
          calls, grants, evicted, skewed, lost, warned>>

Buckets == 1..MaxCalls
Time    == 0..MaxTime
Burst   == Count * Cost

TypeOK ==
    /\ now \in Time
    /\ cache \in Seq([key : Keys, bucket : Buckets]) /\ Len(cache) <= Size
    /\ bucket \in [Buckets -> [credit : 0..Burst, last : Time]]
    /\ buckets \in 0..MaxCalls /\ calls \in 0..MaxCalls
    /\ pc \in [Callers -> {"idle", "add", "report", "clock", "allow"}]
    /\ key \in [Callers -> SUBSET Keys]
    /\ mine \in [Callers -> SUBSET Buckets]
    /\ stamp \in [Callers -> Time]
    /\ victim \in [Callers -> SUBSET Buckets]
    /\ nextRun \in 0..(MaxTime + WarnEvery)
    /\ grants \in [Keys -> [Time -> 0..MaxCalls]]
    /\ evicted \subseteq Keys /\ skewed \subseteq Keys
    /\ lost \subseteq Time
    /\ warned \in Seq(Time)

Init ==
    /\ now = 0
    /\ cache = <<>>
    /\ bucket = [b \in Buckets |-> [credit |-> Burst, last |-> 0]]
    /\ buckets = 0 /\ calls = 0
    /\ pc = [c \in Callers |-> "idle"]
    /\ key = [c \in Callers |-> {}]
    /\ mine = [c \in Callers |-> {}]
    /\ stamp = [c \in Callers |-> 0]
    /\ victim = [c \in Callers |-> {}]
    /\ nextRun = 0
    /\ grants = [k \in Keys |-> [t \in Time |-> 0]]
    /\ evicted = {} /\ skewed = {} /\ lost = {}
    /\ warned = <<>>

Goto(c, step) == pc' = [pc EXCEPT ![c] = step]
Places(k)     == {i \in DOMAIN cache : cache[i].key = k}
Entry(k, b)   == [key |-> k, bucket |-> b]

-----------------------------------------------------------------------------
(***************************************************************************)
(* Allow(key, p), first look: a hit moves the entry to the front.          *)
(***************************************************************************)
Get(c) ==
    /\ pc[c] = "idle" /\ calls < MaxCalls
    /\ calls' = calls + 1
    /\ \E k \in Keys :
         /\ key' = [key EXCEPT ![c] = {k}]
         /\ \/ /\ Places(k) = {}
               /\ Goto(c, "add")
               /\ UNCHANGED <<cache, mine>>
            \/ \E i \in Places(k) :
                 /\ cache' = <<cache[i]>> \o RemoveAt(cache, i)
                 /\ mine' = [mine EXCEPT ![c] = {cache[i].bucket}]
                 /\ Goto(c, "clock")
    /\ UNCHANGED <<now, bucket, buckets, stamp, victim, nextRun, grants, evicted,
                   skewed, lost, warned>>

(***************************************************************************)
(* PeekOrAdd of a full candidate bucket: the bucket another caller added   *)
(* since the miss is taken, not refreshed; otherwise the candidate goes in *)
(* front, for the one of its key if there is one (Add), and the last entry *)
(* is evicted from a full cache.                                           *)
(***************************************************************************)
Overwrite(k) == {}
Existing(k)  == Places(k)
Add(k, b) ==
    <<Entry(k, b)>> \o IF Places(k) = {} THEN cache
                      ELSE RemoveAt(cache, CHOOSE i \in Places(k) : TRUE)

PeekOrAdd(c) ==
    /\ pc[c] = "add"
    /\ \E k \in key[c] :
         \/ \E i \in Existing(k) :
              /\ mine' = [mine EXCEPT ![c] = {cache[i].bucket}]
              /\ Goto(c, "clock")
              /\ UNCHANGED <<cache, bucket, buckets, victim, evicted>>
         \/ /\ Existing(k) = {}
            /\ buckets' = buckets + 1
            /\ bucket' = [bucket EXCEPT ![buckets'] = [credit |-> Burst, last |-> 0]]
            /\ mine' = [mine EXCEPT ![c] = {buckets'}]
            /\ LET grown == Add(k, buckets')
               IN  IF Len(grown) <= Size
                   THEN cache' = grown /\ Goto(c, "clock") /\ UNCHANGED <<victim, evicted>>
                   ELSE /\ cache' = Front(grown)
                        /\ victim' = [victim EXCEPT ![c] = {Last(grown).bucket}]
                        /\ evicted' = evicted \cup {Last(grown).key}
                        /\ Goto(c, "report")
    /\ UNCHANGED <<now, key, stamp, nextRun, calls, grants, skewed, lost, warned>>

(***************************************************************************)
(* x/time/rate: the credit of a bucket at time t.  A time before the last  *)
(* one earns nothing, and AllowN then sets last back to it.                *)
(***************************************************************************)
CreditLate(b, t) == Min({Burst, bucket[b].credit + Max({0, t - bucket[b].last - 1})})
CreditAt(b, t)   == Min({Burst, bucket[b].credit + Max({0, t - bucket[b].last})})

(***************************************************************************)
(* onEvict, called after the cache is unlocked: an evicted bucket with     *)
(* spent tokens is reported through warnEvict, which createThrottle runs   *)
(* at most once in WarnEvery.                                              *)
(***************************************************************************)
RunAlways(t)   == warned' = Append(warned, t) /\ nextRun' = t + WarnEvery
AddFirst(t)    == warned' = Append(warned, t) /\ nextRun' = nextRun + WarnEvery
PostponeRun(t) ==
    /\ nextRun' = t + WarnEvery
    /\ warned' = IF t < nextRun THEN warned ELSE Append(warned, t)
Throttled(t) ==
    IF t < nextRun
    THEN UNCHANGED <<warned, nextRun>>
    ELSE warned' = Append(warned, t) /\ nextRun' = t + WarnEvery

OnEvict(c) ==
    /\ pc[c] = "report"
    /\ \E b \in victim[c] :
         IF CreditAt(b, now) = Burst
         THEN UNCHANGED <<nextRun, warned, lost>>
         ELSE Throttled(now) /\ lost' = lost \cup {now}
    /\ victim' = [victim EXCEPT ![c] = {}]
    /\ Goto(c, "clock")
    /\ UNCHANGED <<now, cache, bucket, buckets, key, mine, stamp, calls, grants,
                   evicted, skewed>>

\* s.now() is evaluated before AllowN takes the bucket's lock.
ReadClock(c) ==
    /\ pc[c] = "clock"
    /\ stamp' = [stamp EXCEPT ![c] = now]
    /\ Goto(c, "allow")
    /\ UNCHANGED <<now, cache, bucket, buckets, key, mine, victim, nextRun, calls,
                   grants, evicted, skewed, lost, warned>>

AllowN(c) ==
    /\ pc[c] = "allow"
    /\ LET t == stamp[c]
       IN  \E b \in mine[c], k \in key[c] :
             IF CreditAt(b, t) >= Cost
             THEN /\ bucket' = [bucket EXCEPT ![b] =
                                  [credit |-> CreditAt(b, t) - Cost, last |-> t]]
                  /\ grants' = [grants EXCEPT ![k] = [u \in Time |->
                                  @[u] + IF u >= t THEN 1 ELSE 0]]
                  /\ skewed' = IF t < bucket[b].last THEN skewed \cup {k} ELSE skewed
             ELSE UNCHANGED <<bucket, grants, skewed>>
    /\ key' = [key EXCEPT ![c] = {}]
    /\ mine' = [mine EXCEPT ![c] = {}]
    /\ stamp' = [stamp EXCEPT ![c] = 0]
    /\ Goto(c, "idle")
    /\ UNCHANGED <<now, cache, buckets, victim, nextRun, calls, evicted, lost, warned>>

Tick ==
    /\ now < MaxTime
    /\ now' = now + 1
    /\ UNCHANGED <<cache, bucket, buckets, pc, key, mine, stamp, victim, nextRun,
                   calls, grants, evicted, skewed, lost, warned>>

\* The bounds are reached.
Done ==
    /\ now = MaxTime /\ calls = MaxCalls
    /\ \A c \in Callers : pc[c] = "idle"
    /\ UNCHANGED vars

Next ==
    \/ \E c \in Callers : Get(c) \/ PeekOrAdd(c) \/ OnEvict(c) \/ ReadClock(c) \/ AllowN(c)
    \/ Tick
    \/ Done

Spec == Init /\ [][Next]_vars

-----------------------------------------------------------------------------
\* Callers that race on a missing key end up with one bucket: "don't want to
\* overwrite anything added after get" (Allow).  Two buckets for a key exist
\* only when it was evicted.
OneBucketPerKey ==
    \A c, d \in Callers : key[c] = key[d] /\ key[c] \cap evicted = {} =>
        \A b \in mine[c], a \in mine[d] : a = b

Granted(k, from, to) == grants[k][to] - IF from = 0 THEN 0 ELSE grants[k][from - 1]

\* The limit a key really gets: over any stretch of time the burst plus what
\* refills in it, unless its bucket was evicted or two callers reached the
\* bucket in another order than they read the clock.
BurstPlusRefill ==
    \A k \in Keys \ (evicted \cup skewed), from, to \in Time :
        from <= to => Cost * Granted(k, from, to) <= Burst + (to - from)

\* The eviction warning is throttled, by however many callers evict.
WarningsApart ==
    \A i \in 1..(Len(warned) - 1) : warned[i + 1] - warned[i] >= WarnEvery

\* And no eviction of spent tokens goes unreported for want of a warning in
\* the WarnEvery before it.
LossReported ==
    \A t \in lost : \E i \in 1..Len(warned) : warned[i] <= t /\ t - warned[i] < WarnEvery

\* Policy: "at most Count occurrences of a key within Per".
PolicyHonoured ==
    \A k \in Keys, from \in Time :
        from + Burst - 1 <= MaxTime => Granted(k, from, from + Burst - 1) <= Count

\* The limiter implements KeyQuota: its answers are what a key is due, although
\* a caller looks its bucket up, reads the clock and takes a token in three steps.
AsOf  == [c \in Callers |-> IF pc[c] = "allow" THEN {stamp[c]} ELSE {}]
Quota == INSTANCE KeyQuota WITH asks <- key, asOf <- AsOf
KeepsQuota == Quota!Spec
=============================================================================
