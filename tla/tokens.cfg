\* Tokens that live two ticks, on clocks one tick apart at most.
SPECIFICATION Spec
CONSTANTS
    r1 = r1
    r2 = r2
    r3 = r3
    t1 = t1
    t2 = t2
    Requests = {r1, r2, r3}
    Tokens = {t1, t2}
    Life = 2
    MaxSkew = 1
    MaxTime = 5
SYMMETRY Symmetry
INVARIANTS
    TypeOK
    LateNeverSpent
    ExpiredForGood
    KeptForRetry
