-------------------------- MODULE SessionLifecycle --------------------------
(***************************************************************************)
(* The life of the sessions of one user in time: CreateSession opens them  *)
(* and evicts the least recently used, the session middleware refuses the  *)
(* expired and touches the used, logout deletes one and a password or      *)
(* email reset deletes all.  Every statement is a step of its own, and     *)
(* each step reads the clock itself, so a request acts on a row it read    *)
(* some time ago.  Sessions of different users never meet: every statement *)
(* names a session or a user.  A statement may fail.  Go's clock and        *)
(* Postgres's are one.                                                     *)
(***************************************************************************)
EXTENDS Integers, FiniteSets

CONSTANTS
    Requests,      \* each opens a session, presents one or deletes all
    OldIds,        \* sessions opened before
    MaxNumberOfActiveSessions,
    Absolute,      \* SessionAbsoluteExpirationDays, in ticks
    Idle,          \* sessionIdleExpirationDays
    TouchAfter,    \* updateLastSeenAfterDurationMinutes
    MaxTime        \* bound: ticks that pass

ASSUME LifecycleAssumption ==
    /\ MaxNumberOfActiveSessions \in Nat \ {0}
    /\ IsFiniteSet(Requests)
    /\ IsFiniteSet(OldIds) /\ Cardinality(OldIds) <= MaxNumberOfActiveSessions
    /\ OldIds \cap Requests = {}
    /\ Absolute \in Nat /\ Idle \in Nat /\ TouchAfter \in Nat /\ MaxTime \in Nat

VARIABLES
    now,
    sessions,   \* the committed rows
    pc, row,    \* of a request: its step, and the session row it has read
    lastUse,    \* lastUse[i]: when a request with session i was last let through
    gone,       \* ids of deleted sessions
    unwritten,  \* ids of sessions whose last use a failing touch left unwritten
    overlaps    \* logins that counted the sessions while another login ran

vars == <<now, sessions, pc, row, lastUse, gone, unwritten, overlaps>>

Ids  == OldIds \cup Requests
Time == 0..MaxTime
Row  == [id : Ids, created_at : Time, last_seen_at : Time]
LoginSteps   == {"evict", "evicting", "insert"}
VisitSteps   == {"check", "drop", "touch", "write", "logout"}
Ended == {"opened", "served", "refused", "wiped", "failed"}
Steps == {"idle"} \cup Ended \cup LoginSteps \cup VisitSteps

TypeOK ==
    /\ now \in Time
    /\ sessions \subseteq Row
    /\ \A s, t \in sessions : s.id = t.id => s = t
    /\ \A s \in sessions : s.created_at <= s.last_seen_at /\ s.last_seen_at <= now
    /\ pc \in [Requests -> Steps]
    /\ row \in [Requests -> SUBSET Row]
    /\ lastUse \in [Ids -> Time]
    /\ gone \subseteq Ids
    /\ unwritten \subseteq Ids
    /\ overlaps \in 0..Cardinality(Requests)

Init ==
    /\ now = 0
    /\ sessions = [id : OldIds, created_at : {0}, last_seen_at : {0}]
    /\ pc = [r \in Requests |-> "idle"]
    /\ row = [r \in Requests |-> {}]
    /\ lastUse = [i \in Ids |-> 0]
    /\ gone = {}
    /\ unwritten = {}
    /\ overlaps = 0

Goto(r, step)  == pc' = [pc EXCEPT ![r] = step]
WithId(i)      == {s \in sessions : s.id = i}
DeleteById(i)  == sessions' = sessions \ WithId(i) /\ gone' = gone \cup {i}

-----------------------------------------------------------------------------
(***************************************************************************)
(* CreateSession.  DeleteLeastRecentlyUsedSessionForUser first finds the   *)
(* id with the oldest last_seen_at, then deletes that id.                  *)
(***************************************************************************)
CountTooLate(n) == n > MaxNumberOfActiveSessions
AtLimit(n)      == n >= MaxNumberOfActiveSessions

Count(r) ==
    /\ pc[r] = "idle"
    /\ Goto(r, IF AtLimit(Cardinality(sessions)) THEN "evict" ELSE "insert")
    /\ overlaps' = IF \E o \in Requests : pc[o] \in LoginSteps THEN overlaps + 1 ELSE overlaps
    /\ UNCHANGED <<now, sessions, row, lastUse, gone, unwritten>>

PickFirstOpened(r) ==
    /\ pc[r] = "evict"
    /\ \/ sessions = {} /\ Goto(r, "insert") /\ UNCHANGED row
       \/ \E s \in sessions :
            /\ \A t \in sessions : s.created_at <= t.created_at
            /\ row' = [row EXCEPT ![r] = {s}]
            /\ Goto(r, "evicting")
    /\ UNCHANGED <<now, sessions, lastUse, gone, unwritten, overlaps>>

PickLru(r) ==
    /\ pc[r] = "evict"
    /\ \/ sessions = {} /\ Goto(r, "insert") /\ UNCHANGED row
       \/ \E s \in sessions :
            /\ \A t \in sessions : s.last_seen_at <= t.last_seen_at
            /\ row' = [row EXCEPT ![r] = {s}]
            /\ Goto(r, "evicting")
    /\ UNCHANGED <<now, sessions, lastUse, gone, unwritten, overlaps>>

DeleteLru(r) ==
    /\ pc[r] = "evicting"
    /\ \E s \in row[r] : DeleteById(s.id)
    /\ Goto(r, "insert")
    /\ UNCHANGED <<now, row, lastUse, unwritten, overlaps>>

Insert(r) ==
    /\ pc[r] = "insert"
    /\ sessions' = sessions \cup {[id |-> r, created_at |-> now, last_seen_at |-> now]}
    /\ lastUse' = [lastUse EXCEPT ![r] = now]
    /\ Goto(r, "opened")
    /\ UNCHANGED <<now, row, gone, unwritten, overlaps>>

-----------------------------------------------------------------------------
(***************************************************************************)
(* CreateSessionMiddleware: GetSession, IsExpired, then DeleteSession or   *)
(* UpdateLastSeen.  A row is judged as it was read.  UpdateLastSeen of a   *)
(* row deleted meanwhile updates nothing.  A failing deletion or touch is  *)
(* logged and the request goes on: the row stays as it is.                 *)
(***************************************************************************)
Look(r) ==
    /\ pc[r] = "idle"
    /\ \/ \E s \in sessions : row' = [row EXCEPT ![r] = {s}] /\ Goto(r, "check")
       \/ Goto(r, "refused") /\ UNCHANGED row
    /\ UNCHANGED <<now, sessions, lastUse, gone, unwritten, overlaps>>

ExpiredByIdle(s) == s.last_seen_at + Idle < now
ExpiredEarly(s)  == s.created_at + Absolute <= now \/ s.last_seen_at + Idle <= now
IsExpired(s) == s.created_at + Absolute < now \/ s.last_seen_at + Idle < now

Check(r) ==
    /\ pc[r] = "check"
    /\ \E s \in row[r] : Goto(r, IF IsExpired(s) THEN "drop" ELSE "touch")
    /\ UNCHANGED <<now, sessions, row, lastUse, gone, unwritten, overlaps>>

Drop(r) ==
    /\ pc[r] = "drop"
    /\ \E s \in row[r] : DeleteById(s.id)
    /\ Goto(r, "refused")
    /\ UNCHANGED <<now, row, lastUse, unwritten, overlaps>>

TouchOnce(s) == s.created_at = s.last_seen_at /\ now - s.last_seen_at > TouchAfter
ShouldUpdateLastSeen(s) == now - s.last_seen_at > TouchAfter

\* A request let through either calls the handler or is a logout.
LetThrough(r) == Goto(r, "served") \/ Goto(r, "logout")
Use(s)        == lastUse' = [lastUse EXCEPT ![s.id] = now]

Touch(r) ==
    /\ pc[r] = "touch"
    /\ \E s \in row[r] :
         \/ ShouldUpdateLastSeen(s) /\ Goto(r, "write") /\ UNCHANGED <<lastUse, unwritten>>
         \/ ~ShouldUpdateLastSeen(s) /\ LetThrough(r) /\ Use(s) /\ unwritten' = unwritten \ {s.id}
    /\ UNCHANGED <<now, sessions, row, gone, overlaps>>

SecondRow(s) == sessions' = sessions \cup {[s EXCEPT !.last_seen_at = now]}
SaveRow(s) == sessions' = (sessions \ WithId(s.id)) \cup {[s EXCEPT !.last_seen_at = now]}
UpdateLastSeen(s) ==
    sessions' = (sessions \ WithId(s.id)) \cup
                {[t EXCEPT !.last_seen_at = now] : t \in WithId(s.id)}

Write(r) ==
    /\ pc[r] = "write"
    /\ \E s \in row[r] : UpdateLastSeen(s) /\ Use(s) /\ unwritten' = unwritten \ {s.id}
    /\ LetThrough(r)
    /\ UNCHANGED <<now, row, gone, overlaps>>

\* The touch fails: the request is let through all the same.
WriteFails(r) ==
    /\ pc[r] = "write"
    /\ \E s \in row[r] : Use(s) /\ unwritten' = unwritten \cup {s.id}
    /\ LetThrough(r)
    /\ UNCHANGED <<now, sessions, row, gone, overlaps>>

Logout(r) ==
    /\ pc[r] = "logout"
    /\ \E s \in row[r] : DeleteById(s.id)
    /\ Goto(r, "served")
    /\ UNCHANGED <<now, row, lastUse, unwritten, overlaps>>

\* Another statement fails: CreateSession ends in an error, a login that has
\* evicted a session included; a logout or a drop only leaves the row.
Fail(r) ==
    /\ \/ pc[r] \in LoginSteps /\ Goto(r, "failed")
       \/ pc[r] = "drop" /\ Goto(r, "refused")
       \/ pc[r] = "logout" /\ Goto(r, "served")
    /\ UNCHANGED <<now, sessions, row, lastUse, gone, unwritten, overlaps>>

\* A reset of the account: its transaction deletes every session it sees.
DeleteAllSessionsForUser(r) ==
    /\ pc[r] = "idle"
    /\ sessions' = {}
    /\ gone' = gone \cup {s.id : s \in sessions}
    /\ Goto(r, "wiped")
    /\ UNCHANGED <<now, row, lastUse, unwritten, overlaps>>

Tick ==
    /\ now < MaxTime
    /\ now' = now + 1
    /\ UNCHANGED <<sessions, pc, row, lastUse, gone, unwritten, overlaps>>

\* The bound on time is reached and nothing is in flight.
Done ==
    /\ now = MaxTime
    /\ \A r \in Requests : pc[r] \in Ended
    /\ UNCHANGED vars

Next ==
    \/ \E r \in Requests :
          \/ Count(r) \/ PickLru(r) \/ DeleteLru(r) \/ Insert(r)
          \/ Look(r) \/ Check(r) \/ Drop(r) \/ Touch(r) \/ Write(r) \/ WriteFails(r)
          \/ Logout(r) \/ Fail(r) \/ DeleteAllSessionsForUser(r)
    \/ Tick
    \/ Done

Spec == Init /\ [][Next]_vars

-----------------------------------------------------------------------------
\* The cap is off by at most the logins that overlapped another one; logins
\* one at a time keep MaxNumberOfActiveSessions exactly.
CapPlusOverlaps == Cardinality(sessions) <= MaxNumberOfActiveSessions + overlaps

\* A deleted session stays deleted: a touch by a request that read it before a
\* logout, an eviction, an expiry or a reset does not bring it back.
NoResurrection == \A s \in sessions : s.id \notin gone

\* However seldom it is written, last_seen_at lags the last use by no more than
\* TouchAfter, save for a session whose last touch failed: it has lost the use,
\* until the next request that is let through.
TouchKeepsUp ==
    \A s \in sessions : s.id \notin unwritten => lastUse[s.id] - s.last_seen_at <= TouchAfter

\* A session that nobody used for Idle, or older than Absolute, lets no request
\* in, although last_seen_at is written by requests that judged an older row.
DormantRefused ==
    [][\A r \in Requests : pc[r] = "check" /\ pc'[r] = "touch" =>
         \A s \in row[r] : now - lastUse[s.id] <= Idle /\ now <= s.created_at + Absolute]_vars

\* The eviction of a login deletes the least recently used session, unless that
\* one was used again between the subquery that picked it and the deletion of
\* its id: then it goes although others have been idle for longer.
EvictsLruUnlessTouched ==
    [][\A r \in Requests : pc[r] = "evicting" /\ pc'[r] = "insert" =>
         \A s \in sessions \ sessions', t \in sessions :
             \/ s.last_seen_at <= t.last_seen_at
             \/ \E picked \in row[r] : picked.last_seen_at < s.last_seen_at]_vars

\* The middleware deletes a session as expired only if it is too old or nobody
\* used it for Idle - TouchAfter, unless the touch of its last use failed, or
\* another request that had judged it in time touched it since this one read it:
\* then a session just used is deleted.
ExpiresDormantUnlessTouched ==
    [][\A r \in Requests : pc[r] = "drop" /\ pc'[r] = "refused" =>
         \A s \in sessions \ sessions' :
             \/ s.created_at + Absolute < now
             \/ now - lastUse[s.id] > Idle - TouchAfter
             \/ s.id \in unwritten
             \/ \E read \in row[r] : read.last_seen_at < s.last_seen_at]_vars
=============================================================================
