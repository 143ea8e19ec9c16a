\* Four requests log in, use, let expire and log out of sessions; room for two.
SPECIFICATION Spec
CONSTANTS
    r1 = r1
    r2 = r2
    r3 = r3
    r4 = r4
    s1 = s1
    s2 = s2
    Requests = {r1, r2, r3, r4}
    OldIds = {s1, s2}
    MaxNumberOfActiveSessions = 2
    Absolute = 3
    Idle = 2
    TouchAfter = 1
    MaxTime = 4
SYMMETRY Symmetry
INVARIANTS
    TypeOK
    CapPlusOverlaps
    NoResurrection
    TouchKeepsUp
PROPERTIES
    DormantRefused
    EvictsLruUnlessTouched
    ExpiresDormantUnlessTouched
