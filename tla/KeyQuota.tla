------------------------------ MODULE KeyQuota ------------------------------
(***************************************************************************)
(* What a rate limiter with a token bucket for each key promises, without  *)
(* buckets, cache and locks.  An answer is as of a moment between the      *)
(* question and the answer: over any stretch of time a key gets a burst    *)
(* and what refills, and a caller is turned away only when one occurrence  *)
(* more would have been too many at that moment.                           *)
(***************************************************************************)
EXTENDS Integers

CONSTANTS Callers, Keys, Count, Cost, MaxTime

VARIABLES
    now,     \* the clock
    asks,    \* asks[c]: the key a caller waits for an answer about
    asOf,    \* asOf[c]: the moment the answer will be as of
    grants,  \* grants[k][t]: occurrences of k allowed up to t
    evicted, \* keys whose past was forgotten
    skewed   \* keys that got an occurrence as of a moment before one they had got

vars == <<now, asks, asOf, grants, evicted, skewed>>

Time  == 0..MaxTime
Burst == Count * Cost

Granted(k, from, to) == grants[k][to] - IF from = 0 THEN 0 ELSE grants[k][from - 1]

WithinQuota(k) ==
    \A from, to \in Time : from <= to => Cost * Granted(k, from, to) <= Burst + (to - from)

\* One occurrence more at t is too many for a stretch that ends there.
Exhausted(k, t) == \E from \in 0..t : Cost * (Granted(k, from, t) + 1) > Burst + (t - from)
GrantedAfter(k, t) == \E u \in Time : u > t /\ Granted(k, u, u) > 0

Init ==
    /\ now = 0
    /\ asks = [c \in Callers |-> {}] /\ asOf = [c \in Callers |-> {}]
    /\ grants = [k \in Keys |-> [t \in Time |-> 0]]
    /\ evicted = {} /\ skewed = {}

Tick ==
    /\ now < MaxTime /\ now' = now + 1
    /\ UNCHANGED <<asks, asOf, grants, evicted, skewed>>

Ask(c) ==
    /\ asks[c] = {}
    /\ \E k \in Keys : asks' = [asks EXCEPT ![c] = {k}]
    /\ UNCHANGED <<now, asOf, grants, evicted, skewed>>

Fix(c) ==
    /\ asks[c] # {} /\ asOf[c] = {}
    /\ asOf' = [asOf EXCEPT ![c] = {now}]
    /\ UNCHANGED <<now, asks, grants, evicted, skewed>>

Answered(c) ==
    /\ asks' = [asks EXCEPT ![c] = {}] /\ asOf' = [asOf EXCEPT ![c] = {}]
    /\ UNCHANGED <<now, evicted>>

Grant(c) ==
    /\ \E k \in asks[c], t \in asOf[c] :
         /\ grants' = [grants EXCEPT ![k] = [u \in Time |-> @[u] + IF u >= t THEN 1 ELSE 0]]
         /\ \/ skewed' = skewed
            \/ GrantedAfter(k, t) /\ skewed' = skewed \cup {k}
         /\ k \notin evicted \cup skewed' => WithinQuota(k)'
    /\ Answered(c)

Refuse(c) ==
    /\ \E k \in asks[c], t \in asOf[c] :
         k \notin skewed => Exhausted(k, t) \/ GrantedAfter(k, t)
    /\ Answered(c) /\ UNCHANGED <<grants, skewed>>

Forget ==
    /\ \E k \in Keys : evicted' = evicted \cup {k}
    /\ UNCHANGED <<now, asks, asOf, grants, skewed>>

Next == Tick \/ Forget \/ \E c \in Callers : Ask(c) \/ Fix(c) \/ Grant(c) \/ Refuse(c)

Spec == Init /\ [][Next]_vars
=============================================================================
