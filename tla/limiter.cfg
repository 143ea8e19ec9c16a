\* Two callers, two keys and room for one: misses race and keys evict each other.
SPECIFICATION Spec
CONSTANTS
    c1 = c1
    c2 = c2
    k1 = k1
    k2 = k2
    Callers = {c1, c2}
    Keys = {k1, k2}
    Size = 1
    Count = 2
    Cost = 2
    WarnEvery = 2
    MaxTime = 3
    MaxCalls = 5
SYMMETRY Symmetry
INVARIANTS
    TypeOK
    OneBucketPerKey
    WarningsApart
    LossReported
PROPERTIES
    KeepsQuota
