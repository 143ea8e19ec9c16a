\* One caller after another within the stretch of one Per.
SPECIFICATION Spec
CONSTANTS
    c1 = c1
    c2 = c2
    k1 = k1
    k2 = k2
    Callers = {c1}
    Keys = {k1}
    Size = 1
    Count = 2
    Cost = 2
    WarnEvery = 2
    MaxTime = 4
    MaxCalls = 5
INVARIANTS
    PolicyHonoured
