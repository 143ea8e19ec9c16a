\* A user deactivated between GetSession and GetUserByID.
SPECIFICATION Spec
CONSTANTS
    r1 = r1
    r2 = r2
    r3 = r3
    s1 = s1
    t1 = t1
    t2 = t2
    u1 = u1
    u2 = u2
    e1 = e1
    e2 = e2
    p1 = p1
    p2 = p2
    OldIds = {s1, t1, t2}
    UserIds = {u1, u2}
    Emails = {e1, e2}
    Passwords = {p1, p2}
    InitialDB <- MCInitialDB
    Requests = {r1, r2}
    Ops = {"get_user", "deactivate"}
    MaxNumberOfActiveSessions = 2
    MaxConcurrentHashes = 2
    Faults = FALSE
INVARIANTS
    InactiveNeverInContext
