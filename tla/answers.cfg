\* Two requests of any kind, answered in any order, with faults.
SPECIFICATION Spec
CONSTANTS
    r1 = r1
    r2 = r2
    s1 = s1
    Requests = {r1, r2}
    OldSessions = {s1}
    Faults = TRUE
SYMMETRY Tabs
INVARIANTS
    TypeOK
    RefusedChangesNothing
    SuccessIsReal
    HalvesAreErrors
PROPERTIES
    LoginSticks
    KeepsUsable
    StaleCleared
