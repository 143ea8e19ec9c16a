----------------------- MODULE SessionLifecycleProofs -----------------------
(***************************************************************************)
(* Deleted sessions stay deleted, last_seen_at keeps up with the use of a  *)
(* session unless a touch failed, and dormant sessions let nobody in: for  *)
(* any number of requests, any expirations and any statement that fails.   *)
(*                                                                         *)
(* The three hold of rows read some time ago, so the invariant relates     *)
(* what a request has read to what the table holds now: last_seen_at only  *)
(* grows (Kept), and an id is not used before its session is inserted      *)
(* (Fresh).                                                                *)
(***************************************************************************)
EXTENDS SessionLifecycle, FiniteSetTheorems, TLAPS

LifeTypes ==
    /\ now \in Time
    /\ sessions \subseteq Row
    /\ pc \in [Requests -> Steps]
    /\ row \in [Requests -> SUBSET Row]
    /\ lastUse \in [Ids -> Time]
    /\ gone \subseteq Ids
    /\ unwritten \subseteq Ids

\* The primary key, of the table and of what a request has read of it.
Unique ==
    /\ \A s, t \in sessions : s.id = t.id => s = t
    /\ \A r \in Requests : \A s, t \in row[r] : s = t

\* The id a request is going to insert has not been seen before.
Fresh == \A r \in Requests : pc[r] \in {"idle"} \cup LoginSteps =>
    /\ r \notin gone
    /\ \A s \in sessions : s.id # r
    /\ \A o \in Requests : \A s \in row[o] : s.id # r

\* A row that was read is no younger than the table's, nor than its last use.
Kept ==
    /\ \A i \in Ids : lastUse[i] <= now
    /\ \A s \in sessions : s.last_seen_at <= lastUse[s.id]
    /\ \A r \in Requests : \A s \in row[r] :
          /\ s.last_seen_at <= lastUse[s.id]
          /\ \A t \in sessions : t.id = s.id => s.last_seen_at <= t.last_seen_at

\* The inductive invariant.
LifeInv == LifeTypes /\ Unique /\ Fresh /\ Kept /\ NoResurrection /\ TouchKeepsUp

\* The old sessions satisfy it, unused since time 0.
LEMMA InitLifeInv == Init => LifeInv
<1> SUFFICES ASSUME Init PROVE LifeInv
  OBVIOUS
<1>1. 0 \in Time
  BY LifecycleAssumption DEF Time
<1>2. /\ \A s \in sessions : /\ s.id \in OldIds /\ s.created_at = 0
                             /\ s.last_seen_at = 0 /\ lastUse[s.id] = 0
      /\ \A s, t \in sessions : s.id = t.id => s = t
  BY DEF Init, Ids
<1>3. LifeTypes
  BY <1>1 DEF Init, LifeTypes, Row, Ids, Steps
<1>4. Unique /\ Fresh
  BY <1>2, LifecycleAssumption DEF Init, Unique, Fresh
<1>5. Kept /\ NoResurrection /\ TouchKeepsUp
  BY <1>2, LifecycleAssumption DEF Init, Kept, NoResurrection, TouchKeepsUp, Ids
<1> QED BY <1>3, <1>4, <1>5 DEF LifeInv

\* A step of r that changes only what r does next and remembers, and remembers
\* nothing but a row of the table.
LEMMA ReadKeepsLifeInv ==
    ASSUME LifeInv, NEW r \in Requests, NEW step \in Steps, Goto(r, step),
           pc[r] \in {"idle"} \cup LoginSteps \/ step \notin {"idle"} \cup LoginSteps,
           row' = row \/ \E s \in sessions : row' = [row EXCEPT ![r] = {s}],
           UNCHANGED <<now, sessions, lastUse, gone, unwritten>>
    PROVE  LifeInv'
<1>1. LifeTypes'
  BY DEF LifeInv, LifeTypes, Goto
<1>2. Unique'
  BY DEF LifeInv, LifeTypes, Unique
<1>3. Fresh'
  BY DEF LifeInv, LifeTypes, Fresh, Goto
<1>4. Kept'
  <2>1. \A s, t \in sessions : s.id = t.id => s.last_seen_at <= t.last_seen_at
    BY DEF LifeInv, LifeTypes, Unique, Row, Time
  <2> QED BY <2>1 DEF LifeInv, LifeTypes, Kept
<1>5. NoResurrection' /\ TouchKeepsUp'
  BY DEF LifeInv, NoResurrection, TouchKeepsUp
<1> QED BY <1>1, <1>2, <1>3, <1>4, <1>5 DEF LifeInv

\* A step of r that deletes sessions, all of whose ids are in use.
LEMMA DeleteKeepsLifeInv ==
    ASSUME LifeInv, NEW r \in Requests, NEW step \in Steps, Goto(r, step),
           pc[r] \in {"idle"} \cup LoginSteps \/ step \notin {"idle"} \cup LoginSteps,
           NEW old \in SUBSET Ids,
           \A i \in old : \/ \E s \in sessions : i = s.id
                          \/ \E o \in Requests : \E s \in row[o] : i = s.id,
           sessions' = {s \in sessions : s.id \notin old},
           gone' = gone \cup old,
           UNCHANGED <<now, row, lastUse, unwritten>>
    PROVE  LifeInv'
<1>1. LifeTypes'
  BY DEF LifeInv, LifeTypes, Goto
<1>2. Unique'
  BY DEF LifeInv, Unique
<1>3. Fresh'
  BY DEF LifeInv, LifeTypes, Fresh, Goto
<1>4. Kept'
  BY DEF LifeInv, Kept
<1>5. NoResurrection' /\ TouchKeepsUp'
  BY DEF LifeInv, NoResurrection, TouchKeepsUp
<1> QED BY <1>1, <1>2, <1>3, <1>4, <1>5 DEF LifeInv

\* Deleting the row r has read.
LEMMA DropKeepsLifeInv ==
    ASSUME LifeInv, NEW r \in Requests, NEW step \in Steps, Goto(r, step),
           pc[r] \in {"idle"} \cup LoginSteps \/ step \notin {"idle"} \cup LoginSteps,
           \E s \in row[r] : DeleteById(s.id),
           UNCHANGED <<now, row, lastUse, unwritten>>
    PROVE  LifeInv'
<1>1. PICK s \in row[r] : DeleteById(s.id)
  OBVIOUS
<1>2. s.id \in Ids
  BY DEF LifeInv, LifeTypes, Row
<1>3. sessions' = {t \in sessions : t.id \notin {s.id}} /\ gone' = gone \cup {s.id}
  BY <1>1 DEF DeleteById, WithId
<1> QED BY <1>2, <1>3, DeleteKeepsLifeInv

\* The insert of CreateSession.
LEMMA InsertKeepsLifeInv ==
    ASSUME LifeInv, NEW r \in Requests, Insert(r)
    PROVE  LifeInv'
<1> DEFINE new == [id |-> r, created_at |-> now, last_seen_at |-> now]
<1>1. sessions' = sessions \cup {new} /\ new \in Row /\ r \in Ids /\ pc[r] = "insert"
  BY DEF Insert, LifeInv, LifeTypes, Row, Ids
<1>2. lastUse' = [lastUse EXCEPT ![r] = now] /\ pc' = [pc EXCEPT ![r] = "opened"]
  BY DEF Insert, Goto
<1>3. /\ r \notin gone
      /\ \A s \in sessions : s.id # r
      /\ \A o \in Requests : \A s \in row[o] : s.id # r
  BY <1>1 DEF LifeInv, Fresh, LoginSteps
<1>4. now' = now /\ row' = row /\ gone' = gone /\ unwritten' = unwritten
  BY DEF Insert
<1>5. LifeTypes'
  BY <1>1, <1>2, <1>4 DEF LifeInv, LifeTypes, Steps, Ended
<1>6. Unique'
  BY <1>1, <1>3, <1>4 DEF LifeInv, Unique
<1>7. Fresh'
  BY <1>1, <1>2, <1>3, <1>4 DEF LifeInv, LifeTypes, Fresh, LoginSteps
<1>8. \A s \in sessions : s.id \in Ids /\ lastUse'[s.id] = lastUse[s.id]
  BY <1>2, <1>3 DEF LifeInv, LifeTypes, Row
<1>9. \A o \in Requests : \A s \in row[o] : s.id \in Ids /\ lastUse'[s.id] = lastUse[s.id]
  BY <1>2, <1>3 DEF LifeInv, LifeTypes, Row
<1>10. lastUse'[r] = now /\ now \in Int
  BY <1>1, <1>2 DEF LifeInv, LifeTypes, Time
<1>11. Kept'
  <2>1. \A i \in Ids : lastUse'[i] <= now
    BY <1>2, <1>10 DEF LifeInv, LifeTypes, Kept
  <2>2. \A s \in sessions' : s.last_seen_at <= lastUse'[s.id]
    BY <1>1, <1>8, <1>10 DEF LifeInv, Kept
  <2>3. \A o \in Requests : \A s \in row[o] :
           /\ s.last_seen_at <= lastUse'[s.id]
           /\ \A t \in sessions' : t.id = s.id => s.last_seen_at <= t.last_seen_at
    BY <1>1, <1>3, <1>9 DEF LifeInv, Kept
  <2> QED BY <2>1, <2>2, <2>3, <1>4 DEF Kept
<1>12. NoResurrection'
  BY <1>1, <1>3, <1>4 DEF LifeInv, NoResurrection
<1>13. TouchKeepsUp'
  BY <1>1, <1>4, <1>8, <1>10, LifecycleAssumption DEF LifeInv, TouchKeepsUp
<1> QED BY <1>5, <1>6, <1>7, <1>11, <1>12, <1>13 DEF LifeInv

\* Letting a request through without a touch marks the use of its session: the
\* row it read is at most TouchAfter old, and the table's is no older, or else
\* the touch failed.
LEMMA LetThroughKeepsLifeInv ==
    ASSUME LifeInv, NEW r \in Requests, NEW s \in row[r], LetThrough(r), Use(s),
           UNCHANGED <<now, sessions, row, gone>>,
           \/ now - s.last_seen_at <= TouchAfter /\ unwritten' = unwritten \ {s.id}
           \/ unwritten' = unwritten \cup {s.id}
    PROVE  LifeInv'
<1>1. PICK step \in {"served", "logout"} : Goto(r, step)
  BY DEF LetThrough
<1>2. step \in Steps /\ step \notin {"idle"} \cup LoginSteps
  BY DEF Steps, Ended, VisitSteps, LoginSteps
<1>3. s \in Row /\ s.id \in Ids /\ s.last_seen_at \in Int /\ now \in Int
  BY DEF LifeInv, LifeTypes, Row, Time
<1>4. /\ \A i \in Ids : lastUse[i] <= lastUse'[i] /\ lastUse'[i] <= now
      /\ \A i \in Ids : lastUse'[i] = lastUse[i] \/ (i = s.id /\ lastUse'[i] = now)
      /\ \A i \in Ids : lastUse[i] \in Int /\ lastUse'[i] \in Int
  BY <1>3 DEF Use, LifeInv, LifeTypes, Kept, Time
<1>5. \A t \in Row : t.id \in Ids /\ t.last_seen_at \in Int
  BY DEF Row, Time
<1>6. LifeTypes'
  BY <1>1, <1>2, <1>3 DEF LifeInv, LifeTypes, Goto, Use
<1>7. Unique' /\ NoResurrection'
  BY DEF LifeInv, Unique, NoResurrection
<1>8. Fresh'
  BY <1>1, <1>2 DEF LifeInv, LifeTypes, Fresh, Goto
<1>9. Kept'
  <2>1. \A t \in sessions : t.last_seen_at <= lastUse'[t.id]
    BY <1>4, <1>5 DEF LifeInv, LifeTypes, Kept
  <2>2. \A o \in Requests : \A t \in row[o] : t.last_seen_at <= lastUse'[t.id]
    BY <1>4, <1>5 DEF LifeInv, LifeTypes, Kept
  <2> QED BY <1>4, <2>1, <2>2 DEF LifeInv, Kept
<1>10. TouchKeepsUp'
  <2>1. SUFFICES ASSUME NEW t \in sessions, t.id \notin unwritten'
                 PROVE  lastUse'[t.id] - t.last_seen_at <= TouchAfter
    BY DEF TouchKeepsUp
  <2>2. t.id \in Ids /\ t.last_seen_at \in Int
    BY <1>5 DEF LifeInv, LifeTypes
  <2>3. CASE t.id # s.id
    BY <1>4, <2>1, <2>2, <2>3 DEF LifeInv, TouchKeepsUp
  <2>4. CASE t.id = s.id
    <3>1. now - s.last_seen_at <= TouchAfter
      BY <2>1, <2>4
    <3>2. s.last_seen_at <= t.last_seen_at
      BY <2>4 DEF LifeInv, Kept
    <3> QED BY <1>3, <1>4, <2>2, <3>1, <3>2, LifecycleAssumption
  <2> QED BY <2>3, <2>4
<1> QED BY <1>6, <1>7, <1>8, <1>9, <1>10 DEF LifeInv

\* A request whose row is young enough, and one that has yet to write.
LEMMA TouchKeepsLifeInv ==
    ASSUME LifeInv, NEW r \in Requests, Touch(r)
    PROVE  LifeInv'
<1>1. PICK s \in row[r] :
         \/ ShouldUpdateLastSeen(s) /\ Goto(r, "write") /\ UNCHANGED <<lastUse, unwritten>>
         \/ ~ShouldUpdateLastSeen(s) /\ LetThrough(r) /\ Use(s) /\ unwritten' = unwritten \ {s.id}
  BY DEF Touch
<1>2. UNCHANGED <<now, sessions, row, gone>>
  BY DEF Touch
<1>3. CASE Goto(r, "write") /\ UNCHANGED <<lastUse, unwritten>>
  <2>1. "write" \in Steps /\ "write" \notin {"idle"} \cup LoginSteps
    BY DEF Steps, VisitSteps, LoginSteps
  <2> QED BY <1>2, <1>3, <2>1, ReadKeepsLifeInv
<1>4. CASE /\ ~ShouldUpdateLastSeen(s)
           /\ LetThrough(r) /\ Use(s) /\ unwritten' = unwritten \ {s.id}
  <2>1. s.last_seen_at \in Int /\ now \in Int
    BY DEF LifeInv, LifeTypes, Row, Time
  <2>2. now - s.last_seen_at <= TouchAfter
    BY <1>4, <2>1, LifecycleAssumption DEF ShouldUpdateLastSeen
  <2> QED BY <1>2, <1>4, <2>2, LetThroughKeepsLifeInv
<1> QED BY <1>1, <1>3, <1>4

\* UpdateLastSeen brings the row in the table, if it is still there, up to now.
LEMMA WriteKeepsLifeInv ==
    ASSUME LifeInv, NEW r \in Requests, Write(r)
    PROVE  LifeInv'
<1>1. PICK s \in row[r] : /\ UpdateLastSeen(s) /\ lastUse' = [lastUse EXCEPT ![s.id] = now]
                         /\ unwritten' = unwritten \ {s.id}
  BY DEF Write, Use
<1>2. UNCHANGED <<now, row, gone>>
  BY DEF Write
<1>3. PICK step \in {"served", "logout"} : Goto(r, step)
  BY DEF Write, LetThrough
<1>4. step \in Steps /\ step \notin {"idle"} \cup LoginSteps
  BY DEF Steps, Ended, VisitSteps, LoginSteps
<1>5. s \in Row /\ s.id \in Ids /\ now \in Int
  BY DEF LifeInv, LifeTypes, Row, Time
<1>6. \A t \in Row : t.id \in Ids /\ t.last_seen_at \in Int
  BY DEF Row, Time
<1>7. /\ \A i \in Ids : lastUse[i] <= lastUse'[i] /\ lastUse'[i] <= now
      /\ \A i \in Ids : i # s.id => lastUse'[i] = lastUse[i]
      /\ lastUse'[s.id] = now
      /\ \A i \in Ids : lastUse[i] \in Int /\ lastUse'[i] \in Int
  BY <1>1, <1>5 DEF LifeInv, LifeTypes, Kept, Time
\* What a row of the table was, and has become.
<1>8. ASSUME NEW t \in sessions'
      PROVE  \E u \in sessions :
                /\ t \in Row /\ u \in Row /\ t.id = u.id
                /\ \/ t.id = s.id /\ t = [u EXCEPT !.last_seen_at = now]
                                  /\ t.last_seen_at = now
                   \/ t.id # s.id /\ t = u
  <2>1. CASE t \in sessions \ WithId(s.id)
    BY <2>1 DEF LifeInv, LifeTypes, WithId
  <2>2. CASE \E u \in WithId(s.id) : t = [u EXCEPT !.last_seen_at = now]
    <3>1. PICK u \in sessions : u.id = s.id /\ t = [u EXCEPT !.last_seen_at = now]
      BY <2>2 DEF WithId
    <3>2. u \in Row /\ now \in Time
      BY DEF LifeInv, LifeTypes
    <3> QED BY <3>1, <3>2 DEF Row
  <2> QED BY <1>1, <2>1, <2>2 DEF UpdateLastSeen
<1>9. LifeTypes'
  BY <1>1, <1>2, <1>3, <1>4, <1>5, <1>8 DEF LifeInv, LifeTypes, Goto
<1>10. Unique'
  <2>1. SUFFICES ASSUME NEW t \in sessions', NEW v \in sessions', t.id = v.id
                 PROVE  t = v
    BY <1>2 DEF LifeInv, Unique
  <2>2. PICK a \in sessions :
          /\ t \in Row /\ a \in Row /\ t.id = a.id
          /\ \/ t.id = s.id /\ t = [a EXCEPT !.last_seen_at = now]
             \/ t.id # s.id /\ t = a
    BY <1>8
  <2>3. PICK b \in sessions :
          /\ v \in Row /\ b \in Row /\ v.id = b.id
          /\ \/ v.id = s.id /\ v = [b EXCEPT !.last_seen_at = now]
             \/ v.id # s.id /\ v = b
    BY <1>8
  <2>4. a = b
    BY <2>1, <2>2, <2>3 DEF LifeInv, Unique
  <2> QED BY <2>1, <2>2, <2>3, <2>4
<1>11. Fresh' /\ NoResurrection'
  <2>1. \A t \in sessions' : \E u \in sessions : t.id = u.id
    BY <1>8
  <2>2. Fresh'
    BY <1>2, <1>3, <1>4, <2>1 DEF LifeInv, LifeTypes, Fresh, Goto
  <2>3. NoResurrection'
    BY <1>2, <2>1 DEF LifeInv, NoResurrection
  <2> QED BY <2>2, <2>3
<1>12. Kept'
  <2>1. \A t \in sessions' : t.last_seen_at <= lastUse'[t.id]
    BY <1>5, <1>6, <1>7, <1>8 DEF LifeInv, Kept
  <2>2. \A o \in Requests : \A t \in row[o] :
           /\ t \in Row
           /\ t.last_seen_at <= lastUse'[t.id]
           /\ t.last_seen_at <= now
    BY <1>5, <1>6, <1>7 DEF LifeInv, LifeTypes, Kept
  <2>3. \A o \in Requests : \A t \in row[o] : \A v \in sessions' :
           v.id = t.id => t.last_seen_at <= v.last_seen_at
    BY <1>8, <2>2 DEF LifeInv, Kept
  <2> QED BY <1>2, <1>7, <2>1, <2>2, <2>3 DEF Kept
<1>13. TouchKeepsUp'
  <2>1. SUFFICES ASSUME NEW t \in sessions', t.id \notin unwritten'
                 PROVE  lastUse'[t.id] - t.last_seen_at <= TouchAfter
    BY DEF TouchKeepsUp
  <2>2. CASE t.id = s.id /\ t.last_seen_at = now
    BY <2>2, <1>5, <1>7, LifecycleAssumption
  <2>3. CASE t.id # s.id /\ t \in sessions /\ t \in Row
    BY <2>3, <1>1, <1>6, <1>7, <2>1 DEF LifeInv, TouchKeepsUp
  <2> QED BY <1>8, <2>2, <2>3
<1> QED BY <1>9, <1>10, <1>11, <1>12, <1>13 DEF LifeInv

\* Every step keeps the invariant.
LEMMA StepKeepsLifeInv == LifeInv /\ [Next]_vars => LifeInv'
<1> SUFFICES ASSUME LifeInv, [Next]_vars PROVE LifeInv'
  OBVIOUS
<1> USE DEF Steps, Ended, VisitSteps, LoginSteps
<1>1. ASSUME NEW r \in Requests, Count(r) PROVE LifeInv'
  <2>1. PICK step \in {"evict", "insert"} : Goto(r, step)
    BY <1>1 DEF Count
  <2> QED BY <1>1, <2>1, ReadKeepsLifeInv DEF Count
<1>2. ASSUME NEW r \in Requests, PickLru(r) PROVE LifeInv'
  <2>1. PICK step \in {"evicting", "insert"} : Goto(r, step)
    BY <1>2 DEF PickLru
  <2> QED BY <1>2, <2>1, ReadKeepsLifeInv DEF PickLru
<1>3. ASSUME NEW r \in Requests, DeleteLru(r) PROVE LifeInv'
  BY <1>3, DropKeepsLifeInv DEF DeleteLru
<1>4. ASSUME NEW r \in Requests, Insert(r) PROVE LifeInv'
  BY <1>4, InsertKeepsLifeInv
<1>5. ASSUME NEW r \in Requests, Look(r) PROVE LifeInv'
  <2>1. PICK step \in {"check", "refused"} : Goto(r, step)
    BY <1>5 DEF Look
  <2> QED BY <1>5, <2>1, ReadKeepsLifeInv DEF Look
<1>6. ASSUME NEW r \in Requests, Check(r) PROVE LifeInv'
  <2>1. PICK step \in {"drop", "touch"} : Goto(r, step)
    BY <1>6 DEF Check
  <2> QED BY <1>6, <2>1, ReadKeepsLifeInv DEF Check
<1>7. ASSUME NEW r \in Requests, Drop(r) PROVE LifeInv'
  BY <1>7, DropKeepsLifeInv DEF Drop
<1>8. ASSUME NEW r \in Requests, Logout(r) PROVE LifeInv'
  BY <1>8, DropKeepsLifeInv DEF Logout
<1>9. ASSUME NEW r \in Requests, DeleteAllSessionsForUser(r) PROVE LifeInv'
  <2> DEFINE old == {s.id : s \in sessions}
  <2>1. old \in SUBSET Ids
    BY DEF LifeInv, LifeTypes, Row
  <2>2. sessions' = {s \in sessions : s.id \notin old} /\ gone' = gone \cup old
    BY <1>9 DEF DeleteAllSessionsForUser
  <2>3. Goto(r, "wiped") /\ pc[r] = "idle" /\ UNCHANGED <<now, row, lastUse, unwritten>>
    BY <1>9 DEF DeleteAllSessionsForUser
  <2>4. \A i \in old : \E s \in sessions : i = s.id
    OBVIOUS
  <2> HIDE DEF old
  <2> QED BY <2>1, <2>2, <2>3, <2>4, DeleteKeepsLifeInv
<1>10. CASE Tick
  <2>1. now \in Int /\ now' = now + 1 /\ now' \in Time
    BY <1>10, LifecycleAssumption DEF Tick, LifeInv, LifeTypes, Time
  <2>2. UNCHANGED <<sessions, pc, row, lastUse, gone, unwritten>>
    BY <1>10 DEF Tick
  <2>3. \A i \in Ids : lastUse[i] \in Int /\ lastUse[i] <= now'
    BY <2>1 DEF LifeInv, LifeTypes, Kept, Time
  <2> QED BY <2>1, <2>2, <2>3
          DEF LifeInv, LifeTypes, Unique, Fresh, Kept, NoResurrection, TouchKeepsUp
<1>11. ASSUME NEW r \in Requests, WriteFails(r) PROVE LifeInv'
  BY <1>11, LetThroughKeepsLifeInv DEF WriteFails
<1>12. ASSUME NEW r \in Requests, Fail(r) PROVE LifeInv'
  <2>1. PICK step \in {"failed", "refused", "served"} : Goto(r, step)
    BY <1>12 DEF Fail
  <2> QED BY <1>12, <2>1, ReadKeepsLifeInv DEF Fail
<1>13. CASE UNCHANGED vars
  BY <1>13 DEF vars, LifeInv, LifeTypes, Unique, Fresh, Kept, NoResurrection, TouchKeepsUp
<1> QED
  BY <1>1, <1>2, <1>3, <1>4, <1>5, <1>6, <1>7, <1>8, <1>9, <1>10, <1>11, <1>12, <1>13,
     TouchKeepsLifeInv, WriteKeepsLifeInv DEF Next, Done

\* What a request has read, and what the table holds, in every reachable state.
THEOREM AlwaysLifeInv == Spec => []LifeInv
<1> QED BY InitLifeInv, StepKeepsLifeInv, PTL DEF Spec

\* A touch never brings a deleted session back.
THEOREM NoResurrectionHolds == Spec => []NoResurrection
<1>1. LifeInv => NoResurrection
  BY DEF LifeInv
<1> QED BY <1>1, AlwaysLifeInv, PTL

\* last_seen_at lags the last use of a session by at most TouchAfter, unless the
\* touch of that use failed.
THEOREM TouchKeepsUpHolds == Spec => []TouchKeepsUp
<1>1. LifeInv => TouchKeepsUp
  BY DEF LifeInv
<1> QED BY <1>1, AlwaysLifeInv, PTL

\* A request that passes the expiration check carries a session that was used
\* within Idle and is not older than Absolute.
THEOREM DormantRefusedHolds == Spec => DormantRefused
<1> DEFINE Refuses == \A r \in Requests : pc[r] = "check" /\ pc'[r] = "touch" =>
         \A s \in row[r] : now - lastUse[s.id] <= Idle /\ now <= s.created_at + Absolute
<1>1. LifeInv /\ [Next]_vars => [Refuses]_vars
  <2> SUFFICES ASSUME LifeInv, Next, NEW r \in Requests, pc[r] = "check", pc'[r] = "touch",
                      NEW s \in row[r]
               PROVE  now - lastUse[s.id] <= Idle /\ now <= s.created_at + Absolute
    OBVIOUS
  <2>1. \A o \in Requests, step \in Steps : Goto(o, step) => o = r \/ pc'[r] = pc[r]
    BY DEF Goto, LifeInv, LifeTypes
  <2>2. Check(r)
    BY <2>1 DEF Next, Done, Count, PickLru, DeleteLru, Insert, Look, Check, Drop, Touch,
       Write, WriteFails, Fail, Logout, LetThrough, DeleteAllSessionsForUser, Tick, vars, Goto,
       LifeInv, LifeTypes
  <2>3. PICK t \in row[r] : Goto(r, IF IsExpired(t) THEN "drop" ELSE "touch")
    BY <2>2 DEF Check
  <2>4. ~IsExpired(t) /\ t = s
    BY <2>3 DEF Goto, LifeInv, LifeTypes, Unique
  <2>5. /\ s.created_at \in Int /\ s.last_seen_at \in Int /\ now \in Int
        /\ lastUse[s.id] \in Int /\ s.last_seen_at <= lastUse[s.id]
    BY DEF LifeInv, LifeTypes, Kept, Row, Time
  <2> QED BY <2>4, <2>5, LifecycleAssumption DEF IsExpired
<1> QED BY <1>1, AlwaysLifeInv, PTL DEF Spec, DormantRefused

-----------------------------------------------------------------------------
\* The invariant behind the cap.  A login that has counted will insert a row of
\* its own, so rows and logins are counted together (Total).  They exceed the
\* cap by the overlaps and by one more only while some login still has a row to
\* delete: once none has, or the row it picked is gone already, there is room.
EvictSteps == {"evict", "evicting"}
Logins     == {r \in Requests : pc[r] \in LoginSteps}
Total      == Cardinality(sessions) + Cardinality(Logins)
Roomy      == Total <= MaxNumberOfActiveSessions + overlaps
Stale(r)   == \A s \in row[r], t \in sessions : t.id # s.id

CapInv ==
    /\ IsFiniteSet(sessions) /\ IsFiniteSet(Logins) /\ overlaps \in Nat
    /\ Total <= MaxNumberOfActiveSessions + overlaps + 1
    /\ Cardinality(Logins) <= overlaps + 1
    /\ Roomy \/ \E r \in Requests : pc[r] \in EvictSteps
    /\ \A r \in Requests : pc[r] = "evicting" /\ Stale(r) => Roomy

\* As many rows as old ids, and no login yet.
LEMMA InitCapInv == Init => CapInv
<1> SUFFICES ASSUME Init PROVE CapInv
  OBVIOUS
<1>1. IsFiniteSet(sessions) /\ Cardinality(sessions) <= MaxNumberOfActiveSessions
  <2> DEFINE Opened == [i \in OldIds |-> [id |-> i, created_at |-> 0, last_seen_at |-> 0]]
  <2>1. Opened \in Surjection(OldIds, sessions)
    BY DEF Init, Surjection
  <2> HIDE DEF Opened
  <2>2. IsFiniteSet(sessions) /\ Cardinality(sessions) <= Cardinality(OldIds)
    BY <2>1, FS_Surjection, LifecycleAssumption
  <2>3. Cardinality(sessions) \in Nat /\ Cardinality(OldIds) \in Nat
    BY <2>2, FS_CardinalityType, LifecycleAssumption
  <2> QED BY <2>2, <2>3, LifecycleAssumption
<1>2. Logins = {}
  BY DEF Init, Logins, LoginSteps
<1>3. IsFiniteSet(Logins) /\ Cardinality(Logins) = 0
  BY <1>2, FS_EmptySet
<1>4. overlaps = 0 /\ \A r \in Requests : pc[r] = "idle"
  BY DEF Init
<1>5. Cardinality(sessions) \in Nat
  BY <1>1, FS_CardinalityType
<1> QED BY <1>1, <1>3, <1>4, <1>5, LifecycleAssumption DEF CapInv, Total, Roomy

\* What CapInv says of numbers.
LEMMA CapNumbers ==
    ASSUME CapInv
    PROVE  /\ Cardinality(sessions) \in Nat /\ Cardinality(Logins) \in Nat
           /\ overlaps \in Nat /\ MaxNumberOfActiveSessions \in Nat
           /\ MaxNumberOfActiveSessions > 0
<1> QED BY FS_CardinalityType, LifecycleAssumption DEF CapInv

\* Deleting an id removes its one row, or nothing.
LEMMA DeletedRow ==
    ASSUME LifeInv, CapInv, NEW i, DeleteById(i)
    PROVE  /\ IsFiniteSet(sessions')
           /\ \/ sessions' = sessions /\ \A t \in sessions : t.id # i
              \/ Cardinality(sessions') = Cardinality(sessions) - 1
<1>1. CASE \A t \in sessions : t.id # i
  BY <1>1 DEF DeleteById, WithId, CapInv
<1>2. CASE \E t \in sessions : t.id = i
  <2>1. PICK t \in sessions : t.id = i
    BY <1>2
  <2>2. sessions' = sessions \ {t}
    BY <2>1 DEF DeleteById, WithId, LifeInv, Unique
  <2> QED BY <2>1, <2>2, FS_RemoveElement DEF CapInv
<1> QED BY <1>1, <1>2

\* A touched row is counted once, before and after.
LEMMA TouchedRow ==
    ASSUME LifeInv, CapInv, NEW s, UpdateLastSeen(s)
    PROVE  /\ IsFiniteSet(sessions') /\ Cardinality(sessions') = Cardinality(sessions)
           /\ \A t \in sessions : \E u \in sessions' : u.id = t.id
<1>1. CASE WithId(s.id) = {}
  <2>1. sessions' = sessions
    BY <1>1 DEF UpdateLastSeen
  <2> QED BY <2>1 DEF CapInv
<1>2. CASE WithId(s.id) # {}
  <2>1. PICK t \in sessions : t.id = s.id
    BY <1>2 DEF WithId
  <2>2. WithId(s.id) = {t}
    BY <2>1 DEF WithId, LifeInv, Unique
  <2> DEFINE rest == sessions \ {t}
             new  == [t EXCEPT !.last_seen_at = now]
  <2>3. sessions' = rest \cup {new}
    BY <2>2 DEF UpdateLastSeen
  <2>4. new.id = t.id
    BY <2>1 DEF LifeInv, LifeTypes, Row
  <2>5. new \notin rest
    BY <2>1, <2>4 DEF LifeInv, Unique
  <2>6. IsFiniteSet(rest) /\ Cardinality(rest) = Cardinality(sessions) - 1
    BY <2>1, FS_RemoveElement DEF CapInv
  <2>7. \A u \in sessions : u = t \/ u \in rest
    OBVIOUS
  <2> HIDE DEF new, rest
  <2>8. /\ IsFiniteSet(rest \cup {new})
        /\ Cardinality(rest \cup {new}) = Cardinality(rest) + 1
    BY <2>5, <2>6, FS_AddElement
  <2>9. Cardinality(sessions) \in Nat
    BY FS_CardinalityType DEF CapInv
  <2>10. Cardinality(sessions') = Cardinality(sessions)
    BY <2>3, <2>6, <2>8, <2>9
  <2> QED BY <2>3, <2>4, <2>7, <2>8, <2>10
<1> QED BY <1>1, <1>2

\* A step of r that is no part of a login, or moves r from one step of its
\* eviction to the next, and makes room or keeps the ids of the table.
LEMMA OthersKeepCapInv ==
    ASSUME LifeInv, CapInv, NEW r \in Requests, NEW step \in Steps, Goto(r, step),
           pc[r] \in LoginSteps <=> step \in LoginSteps,
           UNCHANGED overlaps, IsFiniteSet(sessions'),
           \/ Cardinality(sessions') + Cardinality(Logins)
                <= MaxNumberOfActiveSessions + overlaps
           \/ /\ Cardinality(sessions') = Cardinality(sessions)
              /\ \A t \in sessions : \E u \in sessions' : u.id = t.id
              /\ pc[r] \in EvictSteps => step \in EvictSteps
              /\ step = "evicting" => \E s \in row'[r], t \in sessions' : t.id = s.id
              /\ \A o \in Requests \ {r} : row'[o] = row[o]
    PROVE  CapInv'
<1>1. pc' \in [Requests -> Steps] /\ pc'[r] = step /\ \A o \in Requests \ {r} : pc'[o] = pc[o]
  BY DEF Goto, LifeInv, LifeTypes
<1>2. Logins' = Logins
  BY <1>1 DEF Logins
<1>3. CASE Cardinality(sessions') + Cardinality(Logins)
             <= MaxNumberOfActiveSessions + overlaps
  <2>1. Roomy' /\ Cardinality(sessions') \in Nat
    BY <1>2, <1>3, FS_CardinalityType DEF Roomy, Total
  <2>2. (Total <= MaxNumberOfActiveSessions + overlaps + 1)'
    BY <1>2, <1>3, <2>1, CapNumbers DEF Total
  <2> QED BY <1>2, <2>1, <2>2 DEF CapInv
<1>4. CASE /\ Cardinality(sessions') = Cardinality(sessions)
           /\ \A t \in sessions : \E u \in sessions' : u.id = t.id
           /\ pc[r] \in EvictSteps => step \in EvictSteps
           /\ step = "evicting" => \E s \in row'[r], t \in sessions' : t.id = s.id
           /\ \A o \in Requests \ {r} : row'[o] = row[o]
  <2>1. Total' = Total /\ (Roomy' <=> Roomy)
    BY <1>2, <1>4 DEF Total, Roomy
  <2>2. Roomy' \/ \E o \in Requests : pc'[o] \in EvictSteps
    <3>1. ASSUME NEW o \in Requests, pc[o] \in EvictSteps PROVE pc'[o] \in EvictSteps
      BY <1>1, <1>4, <3>1
    <3> QED BY <2>1, <3>1 DEF CapInv
  <2>3. ASSUME NEW o \in Requests, pc'[o] = "evicting", Stale(o)' PROVE Roomy'
    <3>1. o # r
      BY <1>1, <1>4, <2>3 DEF Stale
    <3>2. pc[o] = "evicting" /\ Stale(o)
      BY <1>1, <1>4, <2>3, <3>1 DEF Stale
    <3> QED BY <2>1, <3>2 DEF CapInv
  <2> QED BY <1>2, <2>1, <2>2, <2>3 DEF CapInv
<1> QED BY <1>3, <1>4

\* A login that counts the rows: alone it finds room or evicts, and otherwise
\* it adds one to the overlaps as well as to the logins.
LEMMA CountKeepsCapInv ==
    ASSUME LifeInv, CapInv, NEW r \in Requests, Count(r)
    PROVE  CapInv'
<1> DEFINE step == IF AtLimit(Cardinality(sessions)) THEN "evict" ELSE "insert"
<1>1. /\ pc[r] = "idle" /\ pc'[r] = step
      /\ \A o \in Requests \ {r} : pc'[o] = pc[o]
      /\ sessions' = sessions /\ row' = row
  BY DEF Count, Goto, LifeInv, LifeTypes
<1>2. r \notin Logins /\ Logins' = Logins \cup {r}
  BY <1>1 DEF Logins, LoginSteps
<1>3. IsFiniteSet(Logins') /\ Cardinality(Logins') = Cardinality(Logins) + 1
  BY <1>2, FS_AddElement DEF CapInv
<1>4. CASE Logins = {}
  <2>1. overlaps' = overlaps /\ Cardinality(Logins) = 0
    BY <1>4, FS_EmptySet DEF Count, Logins
  <2>2. \A o \in Requests : pc[o] \notin EvictSteps
    BY <1>4 DEF Logins, LoginSteps, EvictSteps
  <2>3. Cardinality(sessions) <= MaxNumberOfActiveSessions + overlaps
    BY <2>1, <2>2, CapNumbers DEF CapInv, Roomy, Total
  <2>4. Roomy' \/ pc'[r] = "evict"
    <3>1. CASE Cardinality(sessions) < MaxNumberOfActiveSessions
      BY <1>1, <1>3, <2>1, <3>1, CapNumbers DEF Roomy, Total
    <3>2. CASE ~(Cardinality(sessions) < MaxNumberOfActiveSessions)
      BY <1>1, <3>2, CapNumbers DEF AtLimit
    <3> QED BY <3>1, <3>2
  <2>5. \A o \in Requests : pc'[o] # "evicting"
    BY <1>1, <2>2 DEF EvictSteps
  <2>6. /\ Cardinality(Logins') <= overlaps' + 1
        /\ (Total <= MaxNumberOfActiveSessions + overlaps + 1)'
    BY <1>1, <1>3, <2>1, <2>3, CapNumbers DEF Total
  <2> QED BY <1>1, <1>3, <2>1, <2>4, <2>5, <2>6 DEF CapInv, EvictSteps
<1>5. CASE Logins # {}
  <2>1. overlaps' = overlaps + 1
    BY <1>5 DEF Count, Logins
  <2>2. Total' = Total + 1 /\ (Roomy => Roomy')
    BY <1>1, <1>3, <2>1, CapNumbers DEF Total, Roomy
  <2>3. Roomy' \/ \E o \in Requests : pc'[o] \in EvictSteps
    <3>1. ASSUME NEW o \in Requests, pc[o] \in EvictSteps PROVE pc'[o] \in EvictSteps
      BY <1>1, <3>1 DEF EvictSteps
    <3> QED BY <2>2, <3>1 DEF CapInv
  <2>4. ASSUME NEW o \in Requests, pc'[o] = "evicting", Stale(o)' PROVE Roomy'
    <3>1. pc[o] = "evicting" /\ Stale(o)
      BY <1>1, <2>4 DEF Stale
    <3> QED BY <2>2, <3>1 DEF CapInv
  <2>5. /\ overlaps' \in Nat
        /\ Cardinality(Logins') <= overlaps' + 1
        /\ (Total <= MaxNumberOfActiveSessions + overlaps + 1)'
    BY <1>3, <2>1, <2>2, CapNumbers DEF CapInv, Total
  <2> QED BY <1>1, <1>3, <2>3, <2>4, <2>5 DEF CapInv
<1> QED BY <1>4, <1>5

\* The insert of a login turns the login into a row.
LEMMA InsertKeepsCapInv ==
    ASSUME LifeInv, CapInv, NEW r \in Requests, Insert(r)
    PROVE  CapInv'
<1> DEFINE new == [id |-> r, created_at |-> now, last_seen_at |-> now]
<1>1. /\ pc[r] = "insert" /\ pc'[r] = "opened"
      /\ \A o \in Requests \ {r} : pc'[o] = pc[o]
      /\ sessions' = sessions \cup {new} /\ row' = row /\ overlaps' = overlaps
  BY DEF Insert, Goto, LifeInv, LifeTypes
<1>2. r \in Logins /\ Logins' = Logins \ {r}
  BY <1>1 DEF Logins, LoginSteps
<1>3. new \notin sessions
  BY <1>1 DEF LifeInv, Fresh, LoginSteps
<1> HIDE DEF new
<1>4. IsFiniteSet(Logins') /\ Cardinality(Logins') = Cardinality(Logins) - 1
  BY <1>2, FS_RemoveElement DEF CapInv
<1>5. IsFiniteSet(sessions') /\ Cardinality(sessions') = Cardinality(sessions) + 1
  BY <1>1, <1>3, FS_AddElement DEF CapInv
<1>6. Total' = Total /\ (Roomy' <=> Roomy) /\ Cardinality(Logins') <= overlaps' + 1
  BY <1>1, <1>4, <1>5, CapNumbers DEF Total, Roomy, CapInv
<1>7. Roomy' \/ \E o \in Requests : pc'[o] \in EvictSteps
  <2>1. ASSUME NEW o \in Requests, pc[o] \in EvictSteps PROVE pc'[o] \in EvictSteps
    BY <1>1, <2>1 DEF EvictSteps
  <2> QED BY <1>6, <2>1 DEF CapInv
<1>8. ASSUME NEW o \in Requests, pc'[o] = "evicting", Stale(o)' PROVE Roomy'
  <2>1. pc[o] = "evicting" /\ Stale(o)
    BY <1>1, <1>8 DEF Stale
  <2> QED BY <1>6, <2>1 DEF CapInv
<1> QED BY <1>1, <1>4, <1>5, <1>6, <1>7, <1>8 DEF CapInv

\* Every step keeps the cap's invariant.
LEMMA StepKeepsCapInv == LifeInv /\ CapInv /\ [Next]_vars => CapInv'
<1> SUFFICES ASSUME LifeInv, CapInv, [Next]_vars PROVE CapInv'
  OBVIOUS
<1> USE DEF Steps, Ended, VisitSteps, LoginSteps, EvictSteps
\* Deleting the row that was read, at the end of an eviction or of a visit.
<1>1. ASSUME NEW r \in Requests, NEW step \in Steps, Goto(r, step),
             pc[r] \in LoginSteps <=> step \in LoginSteps,
             UNCHANGED <<row, overlaps>>, \E s \in row[r] : DeleteById(s.id),
             pc[r] \in EvictSteps => pc[r] = "evicting",
             step \notin EvictSteps
      PROVE  CapInv'
  <2>1. PICK s \in row[r] : DeleteById(s.id)
    BY <1>1
  <2>2. CASE sessions' = sessions /\ \A t \in sessions : t.id # s.id
    <3>1. pc[r] = "evicting" => Stale(r)
      BY <2>1, <2>2 DEF Stale, LifeInv, Unique
    <3>2. CASE pc[r] = "evicting"
      <4>1. Cardinality(sessions') + Cardinality(Logins)
              <= MaxNumberOfActiveSessions + overlaps
        BY <2>2, <3>1, <3>2 DEF CapInv, Roomy, Total
      <4> QED BY <1>1, <2>2, <4>1, OthersKeepCapInv DEF CapInv
    <3>3. CASE pc[r] # "evicting"
      BY <1>1, <2>2, <3>3, OthersKeepCapInv DEF CapInv
    <3> QED BY <3>2, <3>3
  <2>3. CASE Cardinality(sessions') = Cardinality(sessions) - 1
    <3>1. Cardinality(sessions') + Cardinality(Logins)
            <= MaxNumberOfActiveSessions + overlaps
      BY <2>3, CapNumbers DEF CapInv, Total
    <3>2. IsFiniteSet(sessions')
      BY <2>1, DeletedRow
    <3> QED BY <1>1, <3>1, <3>2, OthersKeepCapInv
  <2> QED BY <2>1, <2>2, <2>3, DeletedRow
<1>2. ASSUME NEW r \in Requests, PickLru(r) PROVE CapInv'
  <2>1. CASE sessions = {} /\ Goto(r, "insert") /\ UNCHANGED row
    <3>1. Cardinality(sessions') = 0 /\ IsFiniteSet(sessions')
      BY <1>2, <2>1, FS_EmptySet DEF PickLru
    <3>2. Cardinality(sessions') + Cardinality(Logins)
            <= MaxNumberOfActiveSessions + overlaps
      BY <3>1, CapNumbers DEF CapInv
    <3> QED BY <1>2, <2>1, <3>1, <3>2, OthersKeepCapInv DEF PickLru
  <2>2. CASE \E s \in sessions : row' = [row EXCEPT ![r] = {s}] /\ Goto(r, "evicting")
    <3>1. PICK s \in sessions : row' = [row EXCEPT ![r] = {s}] /\ Goto(r, "evicting")
      BY <2>2
    <3>2. /\ row'[r] = {s} /\ \A o \in Requests \ {r} : row'[o] = row[o]
          /\ sessions' = sessions /\ overlaps' = overlaps /\ pc[r] = "evict"
      BY <1>2, <3>1 DEF PickLru, LifeInv, LifeTypes
    <3> QED BY <3>1, <3>2, OthersKeepCapInv DEF CapInv
  <2> QED BY <1>2, <2>1, <2>2 DEF PickLru
<1>3. ASSUME NEW r \in Requests, DeleteLru(r) PROVE CapInv'
  BY <1>1, <1>3 DEF DeleteLru
<1>4. ASSUME NEW r \in Requests, Drop(r) PROVE CapInv'
  BY <1>1, <1>4 DEF Drop
<1>5. ASSUME NEW r \in Requests, Logout(r) PROVE CapInv'
  BY <1>1, <1>5 DEF Logout
<1>6. ASSUME NEW r \in Requests, Look(r) \/ Check(r) \/ Touch(r) PROVE CapInv'
  <2>1. PICK step \in {"check", "refused", "drop", "touch", "write", "served", "logout"} :
           Goto(r, step)
    BY <1>6 DEF Look, Check, Touch, LetThrough
  <2>2. /\ sessions' = sessions /\ overlaps' = overlaps
        /\ pc[r] \in {"idle", "check", "touch"}
        /\ \A o \in Requests \ {r} : row'[o] = row[o]
    BY <1>6 DEF Look, Check, Touch, LifeInv, LifeTypes
  <2> QED BY <2>1, <2>2, OthersKeepCapInv DEF CapInv
<1>7. ASSUME NEW r \in Requests, Write(r) PROVE CapInv'
  <2>1. PICK s \in row[r] : UpdateLastSeen(s)
    BY <1>7 DEF Write
  <2>2. PICK step \in {"served", "logout"} : Goto(r, step)
    BY <1>7 DEF Write, LetThrough
  <2>3. pc[r] = "write" /\ row' = row /\ overlaps' = overlaps
    BY <1>7 DEF Write
  <2>4. /\ IsFiniteSet(sessions') /\ Cardinality(sessions') = Cardinality(sessions)
        /\ \A t \in sessions : \E u \in sessions' : u.id = t.id
    BY <2>1, TouchedRow
  <2> QED BY <2>2, <2>3, <2>4, OthersKeepCapInv
<1>8. ASSUME NEW r \in Requests, DeleteAllSessionsForUser(r) PROVE CapInv'
  <2>1. Cardinality(sessions') = 0 /\ IsFiniteSet(sessions')
    BY <1>8, FS_EmptySet DEF DeleteAllSessionsForUser
  <2>2. Cardinality(sessions') + Cardinality(Logins)
          <= MaxNumberOfActiveSessions + overlaps
    BY <2>1, CapNumbers DEF CapInv
  <2>3. /\ Goto(r, "wiped") /\ pc[r] = "idle" /\ overlaps' = overlaps
    BY <1>8 DEF DeleteAllSessionsForUser
  <2> QED BY <2>1, <2>2, <2>3, OthersKeepCapInv
<1>9. ASSUME NEW r \in Requests, WriteFails(r) PROVE CapInv'
  <2>1. PICK step \in {"served", "logout"} : Goto(r, step)
    BY <1>9 DEF WriteFails, LetThrough
  <2>2. sessions' = sessions /\ row' = row /\ overlaps' = overlaps /\ pc[r] = "write"
    BY <1>9 DEF WriteFails
  <2> QED BY <2>1, <2>2, OthersKeepCapInv DEF CapInv
\* A login that fails inserts no row, so it leaves room.
<1>10. ASSUME NEW r \in Requests, Fail(r) PROVE CapInv'
  <2>1. sessions' = sessions /\ row' = row /\ overlaps' = overlaps
    BY <1>10 DEF Fail
  <2>2. CASE pc[r] \in LoginSteps /\ Goto(r, "failed")
    <3>1. /\ pc'[r] = "failed" /\ \A o \in Requests \ {r} : pc'[o] = pc[o]
      BY <2>2 DEF Goto, LifeInv, LifeTypes
    <3>2. r \in Logins /\ Logins' = Logins \ {r}
      BY <2>2, <3>1 DEF Logins
    <3>3. IsFiniteSet(Logins') /\ Cardinality(Logins') = Cardinality(Logins) - 1
      BY <3>2, FS_RemoveElement DEF CapInv
    <3>4. Roomy' /\ (Total <= MaxNumberOfActiveSessions + overlaps + 1)'
      BY <2>1, <3>3, CapNumbers DEF Roomy, Total, CapInv
    <3>5. Cardinality(Logins') <= overlaps' + 1
      BY <2>1, <3>3, CapNumbers DEF CapInv
    <3> QED BY <2>1, <3>3, <3>4, <3>5 DEF CapInv
  <2>3. CASE pc[r] \notin LoginSteps
    <3>1. PICK step \in {"refused", "served"} : Goto(r, step)
      BY <1>10, <2>3 DEF Fail
    <3> QED BY <2>1, <2>3, <3>1, OthersKeepCapInv DEF CapInv
  <2> QED BY <1>10, <2>2, <2>3 DEF Fail
<1>11. CASE Tick \/ UNCHANGED vars
  BY <1>11 DEF Tick, vars, CapInv, Roomy, Total, Logins, Stale
<1> QED
  BY <1>2, <1>3, <1>4, <1>5, <1>6, <1>7, <1>8, <1>9, <1>10, <1>11, CountKeepsCapInv,
     InsertKeepsCapInv DEF Next, Done

\* The rows exceed the cap by no more than the overlaps, for any number of
\* requests and any cap: with a login under way Total counts one more than the
\* rows, and without one there is room.
THEOREM CapPlusOverlapsHolds == Spec => []CapPlusOverlaps
<1>1. LifeInv /\ CapInv => CapPlusOverlaps
  <2> SUFFICES ASSUME LifeInv, CapInv PROVE CapPlusOverlaps
    OBVIOUS
  <2>1. CASE Logins = {}
    <3>1. \A r \in Requests : pc[r] \notin EvictSteps
      BY <2>1 DEF Logins, LoginSteps, EvictSteps
    <3>2. Roomy
      BY <3>1 DEF CapInv
    <3> QED BY <3>2, CapNumbers DEF Roomy, Total, CapPlusOverlaps
  <2>2. CASE Logins # {}
    <3>1. Cardinality(Logins) # 0
      BY <2>2, FS_EmptySet DEF CapInv
    <3> QED BY <3>1, CapNumbers DEF CapInv, Total, CapPlusOverlaps
  <2> QED BY <2>1, <2>2
<1> QED BY <1>1, InitCapInv, StepKeepsCapInv, AlwaysLifeInv, PTL DEF Spec

-----------------------------------------------------------------------------
\* The session a login picked was used, as it read it, no later than any that is
\* in the table now.
Picked == \A r \in Requests : pc[r] = "evicting" =>
    \A s \in row[r], t \in sessions : s.last_seen_at <= t.last_seen_at

\* New rows and touched ones are later; nothing else enters the table.
LEMMA StepKeepsPicked == LifeInv /\ Picked /\ [Next]_vars => Picked'
<1> SUFFICES ASSUME LifeInv, Picked, [Next]_vars,
                    NEW r \in Requests, pc'[r] = "evicting",
                    NEW s \in row'[r], NEW t \in sessions'
             PROVE  s.last_seen_at <= t.last_seen_at
  BY DEF Picked
<1>1. CASE PickLru(r) /\ pc[r] # "evicting"
  BY <1>1 DEF PickLru, Goto, LifeInv, LifeTypes
<1>2. CASE pc[r] = "evicting"
  <2>1. row'[r] = row[r]
    BY <1>2 DEF Next, Done, Count, PickLru, DeleteLru, Insert, Look, Check, Drop, Touch,
       Write, WriteFails, Fail, Logout, DeleteAllSessionsForUser, Tick, vars, LifeInv, LifeTypes
  <2>2. t \in sessions \/ t.last_seen_at = now \/ \E u \in sessions : t = [u EXCEPT !.last_seen_at = now]
    BY DEF Next, Done, Count, PickLru, DeleteLru, Insert, Look, Check, Drop, Touch,
       Write, WriteFails, Fail, Logout, DeleteAllSessionsForUser, Tick, vars, DeleteById, UpdateLastSeen, WithId
  <2>3. s \in row[r] /\ s.last_seen_at \in Int /\ s.last_seen_at <= now
    BY <2>1 DEF LifeInv, LifeTypes, Kept, Row, Time
  <2>4. \A u \in sessions : [u EXCEPT !.last_seen_at = now].last_seen_at = now
    BY DEF LifeInv, LifeTypes, Row
  <2> QED BY <1>2, <2>2, <2>3, <2>4 DEF Picked
<1>3. pc[r] = "evicting" \/ PickLru(r)
  BY DEF Next, Done, Count, PickLru, DeleteLru, Insert, Look, Check, Drop, Touch, Write,
     WriteFails, Fail, Logout, LetThrough, DeleteAllSessionsForUser, Tick, vars, Goto, LifeInv, LifeTypes
<1> QED BY <1>1, <1>2, <1>3

\* An eviction takes the least recently used session, or one touched since the
\* login picked it.
THEOREM EvictsLruHolds == Spec => EvictsLruUnlessTouched
<1> DEFINE Evicts == \A r \in Requests : pc[r] = "evicting" /\ pc'[r] = "insert" =>
         \A s \in sessions \ sessions', t \in sessions :
             \/ s.last_seen_at <= t.last_seen_at
             \/ \E picked \in row[r] : picked.last_seen_at < s.last_seen_at
<1>1. Init => Picked
  BY DEF Init, Picked
<1>2. LifeInv /\ Picked /\ [Next]_vars => [Evicts]_vars
  <2> SUFFICES ASSUME LifeInv, Picked, Next,
                      NEW r \in Requests, pc[r] = "evicting", pc'[r] = "insert",
                      NEW s \in sessions \ sessions', NEW t \in sessions
               PROVE  \/ s.last_seen_at <= t.last_seen_at
                      \/ \E picked \in row[r] : picked.last_seen_at < s.last_seen_at
    OBVIOUS
  <2>1. DeleteLru(r)
    BY DEF Next, Done, Count, PickLru, DeleteLru, Insert, Look, Check, Drop, Touch, Write,
       WriteFails, Fail, Logout, LetThrough, DeleteAllSessionsForUser, Tick, vars, Goto, LifeInv, LifeTypes
  <2>2. PICK p \in row[r] : DeleteById(p.id)
    BY <2>1 DEF DeleteLru
  <2>3. /\ p.last_seen_at <= t.last_seen_at
        /\ p.last_seen_at \in Int /\ s.last_seen_at \in Int /\ t.last_seen_at \in Int
    BY DEF Picked, LifeInv, LifeTypes, Row, Time
  <2> QED BY <2>2, <2>3
<1> QED BY <1>1, <1>2, StepKeepsPicked, AlwaysLifeInv, PTL DEF Spec, EvictsLruUnlessTouched

-----------------------------------------------------------------------------
\* What type correctness needs besides LifeInv: rows are touched after they are
\* opened, and each overlap is a request that has left idle.
Busy == {r \in Requests : pc[r] # "idle"}

OrderInv ==
    /\ \A s \in sessions : s.created_at <= s.last_seen_at /\ s.last_seen_at <= now
    /\ overlaps <= Cardinality(Busy)

\* Every step keeps it.
LEMMA StepKeepsOrderInv == LifeInv /\ CapInv /\ OrderInv /\ [Next]_vars => OrderInv'
<1> SUFFICES ASSUME LifeInv, CapInv, OrderInv, [Next]_vars PROVE OrderInv'
  OBVIOUS
<1>1. (\A s \in sessions : s.created_at <= s.last_seen_at /\ s.last_seen_at <= now)'
  <2>1. SUFFICES ASSUME NEW s \in sessions'
                 PROVE  s.created_at <= s.last_seen_at /\ s.last_seen_at <= now'
    OBVIOUS
  <2>2. now \in Int /\ now' \in Int /\ now <= now'
    BY DEF Next, Done, Count, PickLru, DeleteLru, Insert, Look, Check, Drop, Touch,
       Write, WriteFails, Fail, Logout, DeleteAllSessionsForUser, Tick, vars, LifeInv, LifeTypes, Time
  <2>3. \/ s \in sessions
        \/ now' = now /\ s.created_at = now /\ s.last_seen_at = now
        \/ now' = now /\ \E u \in sessions : s = [u EXCEPT !.last_seen_at = now]
    BY DEF Next, Done, Count, PickLru, DeleteLru, Insert, Look, Check, Drop, Touch,
       Write, WriteFails, Fail, Logout, DeleteAllSessionsForUser, Tick, vars, DeleteById, UpdateLastSeen, WithId
  <2>4. \A u \in sessions : /\ u \in Row /\ u.created_at \in Int /\ u.last_seen_at \in Int
                            /\ u.created_at <= u.last_seen_at /\ u.last_seen_at <= now
    BY DEF OrderInv, LifeInv, LifeTypes, Row, Time
  <2>5. ASSUME NEW u \in sessions, s = [u EXCEPT !.last_seen_at = now]
        PROVE  s.last_seen_at = now /\ s.created_at = u.created_at
    BY <2>4, <2>5 DEF Row
  <2>6. CASE s \in sessions
    BY <2>2, <2>4, <2>6
  <2>7. CASE now' = now /\ s.created_at = now /\ s.last_seen_at = now
    BY <2>2, <2>7
  <2>8. CASE now' = now /\ \E u \in sessions : s = [u EXCEPT !.last_seen_at = now]
    <3>1. PICK u \in sessions : s = [u EXCEPT !.last_seen_at = now]
      BY <2>8
    <3>2. s.last_seen_at = now /\ s.created_at = u.created_at
      BY <2>5, <3>1
    <3>3. /\ u.created_at \in Int /\ u.last_seen_at \in Int
          /\ u.created_at <= u.last_seen_at /\ u.last_seen_at <= now
      BY <2>4
    <3> QED BY <2>2, <2>8, <3>2, <3>3
  <2> QED BY <2>3, <2>6, <2>7, <2>8
<1>2. (overlaps <= Cardinality(Busy))'
  <2>1. IsFiniteSet(Requests)
    BY LifecycleAssumption
  <2>2. Busy \in SUBSET Requests /\ Busy' \in SUBSET Requests
    BY DEF Busy
  <2>3. /\ IsFiniteSet(Busy) /\ Cardinality(Busy) \in Nat
        /\ IsFiniteSet(Busy') /\ Cardinality(Busy') \in Nat
    BY <2>1, <2>2, FS_Subset, FS_CardinalityType
  <2>4. CASE \E r \in Requests : Count(r)
    <3>1. PICK r \in Requests : Count(r)
      BY <2>4
    <3>2. r \notin Busy /\ Busy' = Busy \cup {r}
      BY <3>1 DEF Count, Goto, Busy, LifeInv, LifeTypes
    <3>3. Cardinality(Busy') = Cardinality(Busy) + 1
      BY <2>3, <3>2, FS_AddElement
    <3>4. overlaps \in Nat /\ overlaps' \in {overlaps, overlaps + 1}
      BY <3>1 DEF Count, CapInv
    <3> QED BY <2>3, <3>3, <3>4 DEF OrderInv
  <2>5. CASE ~ \E r \in Requests : Count(r)
    <3>1. overlaps' = overlaps
      BY <2>5 DEF Next, Done, PickLru, DeleteLru, Insert, Look, Check, Drop, Touch,
         Write, WriteFails, Fail, Logout, DeleteAllSessionsForUser, Tick, vars
    <3>2. Busy \subseteq Busy'
      BY DEF Next, Done, Count, PickLru, DeleteLru, Insert, Look, Check, Drop, Touch,
         Write, WriteFails, Fail, Logout, LetThrough, DeleteAllSessionsForUser, Tick, vars, Goto, Busy,
         LifeInv, LifeTypes
    <3>3. Cardinality(Busy) <= Cardinality(Busy')
      BY <2>3, <3>2, FS_Subset
    <3> QED BY <2>3, <3>1, <3>3 DEF OrderInv, CapInv
  <2> QED BY <2>4, <2>5
<1> QED BY <1>1, <1>2 DEF OrderInv

\* Every variable keeps its type, overlaps stays within the number of requests,
\* and rows keep the order of their timestamps.
THEOREM LifeTypeCorrect == Spec => []TypeOK
<1>1. Init => OrderInv
  <2> SUFFICES ASSUME Init PROVE OrderInv
    OBVIOUS
  <2>1. Busy = {}
    BY DEF Init, Busy
  <2>2. Cardinality(Busy) = 0
    BY <2>1, FS_EmptySet
  <2> QED BY <2>2 DEF Init, OrderInv
<1>2. LifeInv /\ CapInv /\ OrderInv => TypeOK
  <2> SUFFICES ASSUME LifeInv, CapInv, OrderInv PROVE TypeOK
    OBVIOUS
  <2>1. IsFiniteSet(Requests) /\ Busy \in SUBSET Requests
    BY LifecycleAssumption DEF Busy
  <2>2. /\ Cardinality(Busy) <= Cardinality(Requests)
        /\ Cardinality(Busy) \in Nat /\ Cardinality(Requests) \in Nat
    BY <2>1, FS_Subset, FS_CardinalityType
  <2>3. overlaps \in 0..Cardinality(Requests)
    BY <2>2 DEF OrderInv, CapInv
  <2> QED BY <2>3 DEF TypeOK, LifeInv, LifeTypes, Unique, OrderInv
<1> QED
  BY <1>1, <1>2, InitCapInv, StepKeepsCapInv, StepKeepsOrderInv, AlwaysLifeInv, PTL DEF Spec

-----------------------------------------------------------------------------
\* A session is as old as a request has read it, and a request about to delete
\* one as expired has read a row that still is.
DropInv == \A r \in Requests : \A s \in row[r] :
    /\ \A t \in sessions : t.id = s.id => t.created_at = s.created_at
    /\ pc[r] = "drop" => IsExpired(s)

\* A row of the table after a step is one of before, a touched one, or one that a
\* login inserts.
LEMMA RowsAfter ==
    ASSUME LifeInv, [Next]_vars, NEW t \in sessions'
    PROVE  \/ \E u \in sessions : u.id = t.id /\ u.created_at = t.created_at
           \/ \E r \in Requests : pc[r] = "insert" /\ t.id = r
<1>1. CASE t \in sessions
  BY <1>1
<1>2. ASSUME NEW r \in Requests, Insert(r), t \notin sessions
      PROVE  pc[r] = "insert" /\ t.id = r
  BY <1>2 DEF Insert
<1>3. ASSUME NEW r \in Requests, Write(r), t \notin sessions
      PROVE  \E u \in sessions : u.id = t.id /\ u.created_at = t.created_at
  <2>1. PICK u \in sessions : t = [u EXCEPT !.last_seen_at = now]
    BY <1>3 DEF Write, UpdateLastSeen, WithId
  <2>2. u \in Row
    BY DEF LifeInv, LifeTypes
  <2> QED BY <2>1, <2>2 DEF Row
<1>4. CASE ~\E r \in Requests : Insert(r) \/ Write(r)
  <2>1. sessions' \subseteq sessions
    BY <1>4 DEF Next, Done, Count, PickLru, DeleteLru, Look, Check, Drop, Touch, WriteFails, Fail, Logout,
       DeleteAllSessionsForUser, Tick, vars, DeleteById
  <2> QED BY <2>1
<1> QED BY <1>1, <1>2, <1>3, <1>4

\* A request remembers what it had read, or reads a row of the table; it comes to
\* drop a session only by its check, and the clock does not go back.
LEMMA ReadsAfter ==
    ASSUME LifeInv, [Next]_vars, NEW r \in Requests, NEW s \in row'[r]
    PROVE  /\ s \in row[r] \/ (s \in sessions /\ sessions' = sessions /\ pc'[r] # "drop")
           /\ pc'[r] = "drop" => pc[r] = "drop" \/ (IsExpired(s) /\ now' = now)
           /\ now \in Int /\ now' \in Int /\ now <= now'
<1>1. now \in Int /\ now' \in Int /\ now <= now'
  BY DEF Next, Done, Count, PickLru, DeleteLru, Insert, Look, Check, Drop, Touch,
     Write, WriteFails, Fail, Logout, DeleteAllSessionsForUser, Tick, vars, LifeInv, LifeTypes, Time
<1>2. ASSUME NEW o \in Requests, Look(o) \/ PickLru(o)
      PROVE  /\ s \in row[r] \/ (s \in sessions /\ sessions' = sessions /\ pc'[r] # "drop")
             /\ pc'[r] = "drop" => pc[r] = "drop"
  BY <1>2 DEF Look, PickLru, Goto, LifeInv, LifeTypes
<1>3. ASSUME NEW o \in Requests, Check(o)
      PROVE  s \in row[r] /\ (pc'[r] = "drop" => pc[r] = "drop" \/ (IsExpired(s) /\ now' = now))
  <2>1. row' = row /\ now' = now /\ s \in row[r]
    BY <1>3 DEF Check
  <2>2. CASE o # r
    BY <1>3, <2>1, <2>2 DEF Check, Goto, LifeInv, LifeTypes
  <2>3. CASE o = r
    <3>1. PICK u \in row[r] : Goto(r, IF IsExpired(u) THEN "drop" ELSE "touch")
      BY <1>3, <2>3 DEF Check
    <3>2. u = s
      BY <2>1 DEF LifeInv, Unique
    <3>3. pc'[r] = "drop" => IsExpired(s)
      BY <3>1, <3>2 DEF Goto, LifeInv, LifeTypes
    <3> QED BY <2>1, <3>3
  <2> QED BY <2>2, <2>3
<1>4. CASE ~\E o \in Requests : Look(o) \/ PickLru(o) \/ Check(o)
  <2>1. row' = row
    BY <1>4 DEF Next, Done, Count, DeleteLru, Insert, Drop, Touch, Write, WriteFails, Fail, Logout,
       DeleteAllSessionsForUser, Tick, vars
  <2>2. pc'[r] = "drop" => pc[r] = "drop"
    BY <1>4 DEF Next, Done, Count, DeleteLru, Insert, Drop, Touch, Write, WriteFails, Fail, Logout, LetThrough,
       DeleteAllSessionsForUser, Tick, vars, Goto, LifeInv, LifeTypes
  <2> QED BY <1>1, <2>1, <2>2
<1> QED BY <1>1, <1>2, <1>3, <1>4

LEMMA StepKeepsDropInv == LifeInv /\ DropInv /\ [Next]_vars => DropInv'
<1> SUFFICES ASSUME LifeInv, DropInv, [Next]_vars, NEW r \in Requests, NEW s \in row'[r]
             PROVE  /\ \A t \in sessions' : t.id = s.id => t.created_at = s.created_at
                    /\ pc'[r] = "drop" => IsExpired(s)'
  BY DEF DropInv
<1>1. /\ s \in row[r] \/ (s \in sessions /\ sessions' = sessions /\ pc'[r] # "drop")
      /\ pc'[r] = "drop" => pc[r] = "drop" \/ (IsExpired(s) /\ now' = now)
      /\ now \in Int /\ now' \in Int /\ now <= now'
  BY ReadsAfter
<1>2. s.created_at \in Int /\ s.last_seen_at \in Int
  BY <1>1 DEF LifeInv, LifeTypes, Row, Time
<1>3. ASSUME NEW t \in sessions', t.id = s.id PROVE t.created_at = s.created_at
  <2>1. CASE s \in row[r]
    <3>1. ASSUME NEW o \in Requests, pc[o] = "insert" PROVE s.id # o
      BY <2>1, <3>1 DEF LifeInv, Fresh, LoginSteps
    <3>2. PICK u \in sessions : u.id = t.id /\ u.created_at = t.created_at
      BY <1>3, <3>1, RowsAfter
    <3> QED BY <1>3, <2>1, <3>2 DEF DropInv
  <2>2. CASE s \in sessions /\ sessions' = sessions
    BY <1>3, <2>2 DEF LifeInv, Unique
  <2> QED BY <1>1, <2>1, <2>2
<1>4. ASSUME pc'[r] = "drop" PROVE IsExpired(s)'
  <2>1. s \in row[r] /\ IsExpired(s)
    BY <1>1, <1>4 DEF DropInv
  <2> QED BY <1>1, <1>2, <2>1, LifecycleAssumption DEF IsExpired
<1> QED BY <1>3, <1>4

\* A session goes as expired only if it is, or if it was touched after the request
\* that deletes it read it.
THEOREM ExpiresDormantHolds == Spec => ExpiresDormantUnlessTouched
<1> DEFINE Expires == \A r \in Requests : pc[r] = "drop" /\ pc'[r] = "refused" =>
         \A s \in sessions \ sessions' :
             \/ s.created_at + Absolute < now
             \/ now - lastUse[s.id] > Idle - TouchAfter
             \/ s.id \in unwritten
             \/ \E read \in row[r] : read.last_seen_at < s.last_seen_at
<1>1. Init => DropInv
  BY DEF Init, DropInv
<1>2. LifeInv /\ DropInv /\ [Next]_vars => [Expires]_vars
  <2> SUFFICES ASSUME LifeInv, DropInv, Next,
                      NEW r \in Requests, pc[r] = "drop", pc'[r] = "refused",
                      NEW s \in sessions \ sessions'
               PROVE  \/ s.created_at + Absolute < now
                      \/ now - lastUse[s.id] > Idle - TouchAfter
                      \/ s.id \in unwritten
                      \/ \E read \in row[r] : read.last_seen_at < s.last_seen_at
    OBVIOUS
  <2>1. Drop(r)
    BY DEF Next, Done, Count, PickLru, DeleteLru, Insert, Look, Check, Drop, Touch, Write,
       WriteFails, Fail, Logout, LetThrough, DeleteAllSessionsForUser, Tick, vars, Goto, LifeInv, LifeTypes
  <2>2. PICK p \in row[r] : DeleteById(p.id)
    BY <2>1 DEF Drop
  <2>3. s.id = p.id /\ s.created_at = p.created_at /\ IsExpired(p)
    BY <2>2 DEF DeleteById, WithId, DropInv
  <2>4. /\ p.last_seen_at <= s.last_seen_at
        /\ s.id \notin unwritten => lastUse[s.id] - s.last_seen_at <= TouchAfter
    BY <2>3 DEF LifeInv, Kept, TouchKeepsUp
  <2>5. /\ p.last_seen_at \in Int /\ s.last_seen_at \in Int /\ s.created_at \in Int
        /\ lastUse[s.id] \in Int /\ now \in Int
    BY DEF LifeInv, LifeTypes, Row, Time
  <2>6. CASE p.last_seen_at < s.last_seen_at
    BY <2>6
  <2>7. CASE p.last_seen_at = s.last_seen_at
    <3>1. s.created_at + Absolute < now \/ s.last_seen_at + Idle < now
      BY <2>3, <2>7 DEF IsExpired
    <3> QED BY <2>4, <2>5, <3>1, LifecycleAssumption
  <2> QED BY <2>4, <2>5, <2>6, <2>7
<1> QED BY <1>1, <1>2, StepKeepsDropInv, AlwaysLifeInv, PTL DEF Spec, ExpiresDormantUnlessTouched
=============================================================================
