------------------------ MODULE AccountServiceProofs ------------------------
(***************************************************************************)
(* AccountService keeps its types, and the semaphore that bounds argon2    *)
(* hashes is exact, for any finite set of requests and any database.  The  *)
(* two are proved together: that releasing a slot leaves hashSlots in      *)
(* 0..MaxConcurrentHashes holds because the releasing request is one of    *)
(* those hashSlots counts.  What resets and unique emails guarantee rests  *)
(* on these types and follows further down.                                *)
(***************************************************************************)
EXTENDS AccountService, FiniteSetTheorems, TLAPS

\* Replacing a transaction, or one part of it, keeps tx a function to TxState.
LEMMA TxFields ==
    ASSUME tx \in [Requests -> TxState], NEW r \in Requests
    PROVE  /\ \A R \in TxState : [tx EXCEPT ![r] = R] \in [Requests -> TxState]
           /\ \A R \in UserRow : [tx EXCEPT ![r].wrote = {R}] \in [Requests -> TxState]
           /\ \A S \in SUBSET SessionRow : [tx EXCEPT ![r].sess = S] \in [Requests -> TxState]
           /\ \A S \in SUBSET PwReqRow : [tx EXCEPT ![r].pw = S] \in [Requests -> TxState]
           /\ \A S \in SUBSET EmReqRow : [tx EXCEPT ![r].em = S] \in [Requests -> TxState]
  BY DEF TxState

\* TypeOK but for the range of hashSlots.
DataTypeOK ==
    /\ DbTypeOK
    /\ pc \in [Requests -> Steps]
    /\ op \in [Requests -> AllOps \cup {"none"}]
    /\ account \in [Requests -> SUBSET UserRow]
    /\ held \in [Requests -> SUBSET SessionRow]
    /\ newEmail \in [Requests -> SUBSET Emails]
    /\ sent \subseteq Mail
    /\ token \in [Requests -> SUBSET Ids]
    /\ raced \in [Requests -> BOOLEAN]
    /\ committed \subseteq Requests

\* Every step of a request after its arrival keeps the types.
LEMMA WorkKeepsTypes ==
    ASSUME DataTypeOK, NEW r \in Requests, Work(r)
    PROVE  DataTypeOK'
<1> USE DEF DataTypeOK, DbTypeOK, Goto, At, db, rest, Steps, TxSteps
<1>1. CASE FindSession(r)
  BY <1>1 DEF FindSession, GetSession
<1>2. CASE FetchAccount(r)
  BY <1>2 DEF FetchAccount, GetUserByID, AfterAccount
<1>3. CASE DropSession(r)
  BY <1>3 DEF DropSession, DeleteSession
<1>4. CASE FindUser(r)
  BY <1>4 DEF FindUser, GetUserByEmail
<1>5. CASE BeginHash(r)
  BY <1>5 DEF BeginHash, AcquireSlot
<1>6. CASE HashingBusy(r)
  BY <1>6 DEF HashingBusy, Rollback, NoTx, TxState
<1>7. CASE EndVerify(r)
  BY <1>7 DEF EndVerify, ReleaseSlot, AfterVerify
<1>8. CASE EndHash(r)
  BY <1>8 DEF EndHash, ReleaseSlot
<1>9. CASE CreateUser(r)
  <2>1. CASE UNCHANGED <<users, account>>
    BY <1>9, <2>1 DEF CreateUser
  <2>2. CASE ~UNCHANGED <<users, account>>
    <3>1. PICK u \in UserIds, e \in Emails, p \in Passwords :
            LET row == [id |-> u, email |-> e, hash |-> p, active |-> TRUE]
            IN  users' = users \cup {row} /\ account' = [account EXCEPT ![r] = {row}]
      BY <1>9, <2>2 DEF CreateUser
    <3>2. [id |-> u, email |-> e, hash |-> p, active |-> TRUE] \in UserRow
      BY DEF UserRow
    <3>3. users' \subseteq UserRow /\ account' \in [Requests -> SUBSET UserRow]
      BY <3>1, <3>2
    <3>4. pc' \in [Requests -> Steps]
      BY <1>9 DEF CreateUser
    <3>5. UNCHANGED <<sessions, pwReqs, emReqs, tx, op, held, newEmail, hashSlots, sent,
                      token, raced, committed>>
      BY <1>9 DEF CreateUser
    <3> QED BY <3>3, <3>4, <3>5
  <2> QED BY <2>1, <2>2
<1>10. CASE CountSessions(r)
  BY <1>10 DEF CountSessions
<1>11. CASE PickLru(r)
  BY <1>11 DEF PickLru, OfUser
<1>12. CASE DeleteLru(r)
  BY <1>12 DEF DeleteLru, DeleteSession
<1>13. CASE InsertSession(r)
  <2>1. PICK w \in account[r] : sessions' = sessions \cup
            {[id |-> r, user |-> w.id, via |-> w.hash,
              raced |-> Overtaken(r, w.id, {"del_pw", "del_em", "commit"})]}
    BY <1>13 DEF InsertSession
  <2>2. w \in UserRow
    OBVIOUS
  <2>3. Overtaken(r, w.id, {"del_pw", "del_em", "commit"}) \in BOOLEAN
    BY DEF Overtaken
  <2>4. sessions' \subseteq SessionRow
    BY <2>1, <2>2, <2>3 DEF SessionRow, UserRow, Ids
  <2> QED BY <1>13, <2>4 DEF InsertSession
<1>14. CASE InsertPwReq(r)
  <2>1. PICK w \in account[r] : pwReqs' = pwReqs \cup
            {[id |-> r, user |-> w.id, addr |-> w.email,
              raced |-> Overtaken(r, w.id, {"del_em", "commit"})]}
    BY <1>14 DEF InsertPwReq
  <2>2. w \in UserRow
    OBVIOUS
  <2>3. Overtaken(r, w.id, {"del_em", "commit"}) \in BOOLEAN
    BY DEF Overtaken
  <2>4. pwReqs' \subseteq PwReqRow
    BY <2>1, <2>2, <2>3 DEF PwReqRow, UserRow, Ids
  <2> QED BY <1>14, <2>4 DEF InsertPwReq
<1>15. CASE CheckEmail(r)
  BY <1>15 DEF CheckEmail
<1>16. CASE InsertEmReq(r)
  <2>1. PICK w \in account[r], e \in newEmail[r] : emReqs' = emReqs \cup
            {[id |-> r, user |-> w.id, newEmail |-> e, via |-> w.hash,
              raced |-> Overtaken(r, w.id, {"commit"})]}
    BY <1>16 DEF InsertEmReq
  <2>2. w \in UserRow /\ e \in Emails
    OBVIOUS
  <2>3. Overtaken(r, w.id, {"commit"}) \in BOOLEAN
    BY DEF Overtaken
  <2>4. emReqs' \subseteq EmReqRow
    BY <2>1, <2>2, <2>3 DEF EmReqRow, UserRow, Ids
  <2> QED BY <1>16, <2>4 DEF InsertEmReq
<1>17. CASE MailLink(r)
  BY <1>17 DEF MailLink, Mail, UserRow
<1>18. CASE MailWarning(r)
  BY <1>18 DEF MailWarning, Mail, UserRow
<1>19. CASE ConsumePw(r)
  <2>1. PICK t \in pwReqs : /\ tx' = [tx EXCEPT ![r].pw = {t}]
                         /\ token' = [token EXCEPT ![r] = {t.id}]
                         /\ account' = [account EXCEPT ![r] = GetUserByID(t.user)]
    BY <1>19 DEF ConsumePw
  <2>2. {t} \in SUBSET PwReqRow /\ t.id \in Ids
    BY DEF PwReqRow
  <2>3. tx' \in [Requests -> TxState]
    BY <2>1, <2>2, TxFields
  <2>4. /\ token' \in [Requests -> SUBSET Ids]
        /\ account' \in [Requests -> SUBSET UserRow]
    BY <2>1, <2>2 DEF GetUserByID
  <2> QED BY <1>19, <2>3, <2>4 DEF ConsumePw
<1>20. CASE ConsumeEm(r)
  <2>1. PICK t \in emReqs : /\ tx' = [tx EXCEPT ![r].em = {t}]
                         /\ token' = [token EXCEPT ![r] = {t.id}]
                         /\ account' = [account EXCEPT ![r] = GetUserByID(t.user)]
    BY <1>20 DEF ConsumeEm
  <2>2. {t} \in SUBSET EmReqRow /\ t.id \in Ids
    BY DEF EmReqRow
  <2>3. tx' \in [Requests -> TxState]
    BY <2>1, <2>2, TxFields
  <2>4. /\ token' \in [Requests -> SUBSET Ids]
        /\ account' \in [Requests -> SUBSET UserRow]
    BY <2>1, <2>2 DEF GetUserByID
  <2> QED BY <1>20, <2>3, <2>4 DEF ConsumeEm
<1>21. CASE RefuseToken(r)
  BY <1>21 DEF RefuseToken
<1>22. CASE Update(r)
  <2>1. tx' \in [Requests -> TxState]
    <3>1. PICK x \in users :
            \/ \E p \in Passwords : tx' = [tx EXCEPT ![r].wrote = {[x EXCEPT !.hash = p]}]
            \/ tx' = [tx EXCEPT ![r] = NoTx]
            \/ \E t \in tx[r].em :
                  tx' = [tx EXCEPT ![r].wrote = {[x EXCEPT !.email = t.newEmail]}]
      BY <1>22 DEF Update, GetUserByID
    <3>2. x \in UserRow /\ tx[r].em \subseteq EmReqRow
      BY DEF TxState
    <3>3. ASSUME NEW p \in Passwords
          PROVE  [x EXCEPT !.hash = p] \in UserRow
      BY <3>2 DEF UserRow
    <3>4. ASSUME NEW t \in tx[r].em
          PROVE  [x EXCEPT !.email = t.newEmail] \in UserRow
      BY <3>2 DEF UserRow, EmReqRow
    <3>5. NoTx \in TxState
      BY DEF NoTx, TxState
    <3>6. ASSUME NEW p \in Passwords, tx' = [tx EXCEPT ![r].wrote = {[x EXCEPT !.hash = p]}]
          PROVE  tx' \in [Requests -> TxState]
      BY <3>3, <3>6, TxFields
    <3>7. ASSUME NEW t \in tx[r].em,
                 tx' = [tx EXCEPT ![r].wrote = {[x EXCEPT !.email = t.newEmail]}]
          PROVE  tx' \in [Requests -> TxState]
      BY <3>4, <3>7, TxFields
    <3>8. ASSUME tx' = [tx EXCEPT ![r] = NoTx]
          PROVE  tx' \in [Requests -> TxState]
      BY <3>5, <3>8, TxFields
    <3> QED BY <3>1, <3>6, <3>7, <3>8
  <2> QED BY <1>22, <2>1 DEF Update
<1>23. CASE DeleteSessions(r)
  <2>1. PICK w \in account[r] : tx' = [tx EXCEPT ![r].sess = OfUser(sessions, w.id)]
    BY <1>23 DEF DeleteSessions
  <2>2. OfUser(sessions, w.id) \in SUBSET SessionRow
    BY DEF OfUser, TxState
  <2>3. tx' \in [Requests -> TxState]
    BY <2>1, <2>2, TxFields
  <2> QED BY <1>23, <2>3 DEF DeleteSessions
<1>24. CASE DeletePwReqs(r)
  <2>1. PICK w \in account[r] : tx' = [tx EXCEPT ![r].pw = (tx[r].pw \cup OfUser(pwReqs, w.id))]
    BY <1>24 DEF DeletePwReqs
  <2>2. (tx[r].pw \cup OfUser(pwReqs, w.id)) \in SUBSET PwReqRow
    BY DEF OfUser, TxState
  <2>3. tx' \in [Requests -> TxState]
    BY <2>1, <2>2, TxFields
  <2> QED BY <1>24, <2>3 DEF DeletePwReqs
<1>25. CASE DeleteEmReqs(r)
  <2>1. PICK w \in account[r] : tx' = [tx EXCEPT ![r].em = (tx[r].em \cup OfUser(emReqs, w.id))]
    BY <1>25 DEF DeleteEmReqs
  <2>2. (tx[r].em \cup OfUser(emReqs, w.id)) \in SUBSET EmReqRow
    BY DEF OfUser, TxState
  <2>3. tx' \in [Requests -> TxState]
    BY <2>1, <2>2, TxFields
  <2> QED BY <1>25, <2>3 DEF DeleteEmReqs
<1>26. CASE CommitReset(r)
  BY <1>26 DEF CommitReset, Commit, NoTx, TxState
<1>27. CASE Notify(r)
  BY <1>27 DEF Notify, Mail, UserRow, GetUserByID
<1>28. CASE Deactivate(r)
  BY <1>28 DEF Deactivate, UserRow
<1>29. CASE DeadlockVictim(r)
  BY <1>29 DEF DeadlockVictim, Rollback, NoTx, TxState
<1> QED
  BY <1>1, <1>2, <1>3, <1>4, <1>5, <1>6, <1>7, <1>8, <1>9, <1>10, <1>11, <1>12, <1>13, <1>14,
     <1>15, <1>16, <1>17, <1>18, <1>19, <1>20, <1>21, <1>22, <1>23, <1>24, <1>25, <1>26,
     <1>27, <1>28, <1>29 DEF Work

\* The initial database and the idle requests have their types.
LEMMA InitTypes == Init => DataTypeOK
<1> SUFFICES ASSUME Init PROVE DataTypeOK
  OBVIOUS
<1>1. DbTypeOK
  BY DatabaseAssumption DEF Init, DbInit, DbTypeOK, NoTx, TxState
<1> QED
  BY <1>1 DEF Init, DataTypeOK, Steps

\* Arrivals, work, failures and stuttering keep the types.
LEMMA StepKeepsTypes == DataTypeOK /\ [Next]_vars => DataTypeOK'
<1> SUFFICES ASSUME DataTypeOK, [Next]_vars PROVE DataTypeOK'
  OBVIOUS
<1> USE DEF DataTypeOK, DbTypeOK
<1>1. ASSUME NEW r \in Requests, Arrive(r) PROVE DataTypeOK'
  BY <1>1, OpsAssumption DEF Arrive, Goto, FirstStep, AllOps, Authenticated, Steps, db
<1>2. ASSUME NEW r \in Requests, Work(r) PROVE DataTypeOK'
  BY <1>2, WorkKeepsTypes
<1>3. ASSUME NEW r \in Requests, Fail(r) PROVE DataTypeOK'
  BY <1>3 DEF Fail, Rollback, NoTx, TxState, Goto, Steps
<1>4. CASE UNCHANGED vars
  BY <1>4 DEF vars, rest, db
<1> QED
  BY <1>1, <1>2, <1>3, <1>4 DEF Next, Quiesced

-----------------------------------------------------------------------------
\* The requests computing a hash, and the semaphore's invariant.
HashSteps == {"verifying", "hashing"}
Hashing == {r \in Requests : pc[r] \in HashSteps}
SlotsOK == hashSlots \in 0..MaxConcurrentHashes /\ HashSlotsExact

\* A request that neither starts nor ends a computation leaves the count alone.
LEMMA OutsideHashing ==
    ASSUME pc \in [Requests -> Steps], SlotsOK, NEW r \in Requests, NEW step \in Steps,
           Goto(r, step), UNCHANGED hashSlots, pc[r] \notin HashSteps, step \notin HashSteps
    PROVE  SlotsOK'
<1>1. Hashing' = Hashing
  BY DEF Hashing, Goto
<1> QED BY <1>1 DEF SlotsOK, HashSlotsExact, Hashing, HashSteps

\* TryAcquire before a computation starts counts one more.
LEMMA AcquireExact ==
    ASSUME pc \in [Requests -> Steps], SlotsOK, NEW r \in Requests, NEW step \in HashSteps,
           Goto(r, step), AcquireSlot, pc[r] \notin HashSteps
    PROVE  SlotsOK'
<1>1. Hashing' = Hashing \cup {r} /\ r \notin Hashing
  BY DEF Hashing, Goto, HashSteps
<1>2. IsFiniteSet(Hashing)
  BY DatabaseAssumption, FS_Subset DEF Hashing
<1>3. Cardinality(Hashing') = Cardinality(Hashing) + 1
  BY <1>1, <1>2, FS_AddElement
<1> QED BY <1>3, ServiceAssumption DEF SlotsOK, HashSlotsExact, Hashing, HashSteps, AcquireSlot

\* The deferred Release at its end counts one less, and there was one.
LEMMA ReleaseExact ==
    ASSUME pc \in [Requests -> Steps], SlotsOK, NEW r \in Requests, NEW step \in Steps \ HashSteps,
           Goto(r, step), hashSlots' = hashSlots - 1, pc[r] \in HashSteps
    PROVE  SlotsOK'
<1>1. Hashing' = Hashing \ {r} /\ r \in Hashing
  BY DEF Hashing, Goto, HashSteps
<1>2. IsFiniteSet(Hashing)
  BY DatabaseAssumption, FS_Subset DEF Hashing
<1>3. Cardinality(Hashing') = Cardinality(Hashing) - 1
  BY <1>1, <1>2, FS_RemoveElement
<1>4. Cardinality(Hashing') \in Nat
  BY <1>1, <1>2, FS_RemoveElement, FS_CardinalityType
<1> QED BY <1>3, <1>4, ServiceAssumption DEF SlotsOK, HashSlotsExact, Hashing, HashSteps

\* Every step of a request keeps the semaphore exact.
LEMMA WorkKeepsSlots ==
    ASSUME DataTypeOK, SlotsOK, NEW r \in Requests, Work(r)
    PROVE  SlotsOK'
<1> USE DEF DataTypeOK
<1>1. CASE BeginHash(r)
  BY <1>1, AcquireExact DEF BeginHash, At, HashSteps
<1>2. CASE EndVerify(r)
  <2>1. PICK step \in Steps \ HashSteps : Goto(r, step) /\ hashSlots' = hashSlots - 1
    BY <1>2 DEF EndVerify, AfterVerify, ReleaseSlot, Steps, TxSteps, HashSteps
  <2> QED BY <1>2, <2>1, ReleaseExact DEF EndVerify, At, HashSteps
<1>3. CASE EndHash(r)
  <2>1. PICK step \in Steps \ HashSteps : Goto(r, step) /\ hashSlots' = hashSlots - 1
    BY <1>3 DEF EndHash, ReleaseSlot, Steps, TxSteps, HashSteps
  <2> QED BY <1>3, <2>1, ReleaseExact DEF EndHash, At, HashSteps
<1>4. CASE ~(BeginHash(r) \/ EndVerify(r) \/ EndHash(r))
  <2>1. /\ UNCHANGED hashSlots
        /\ pc[r] \notin HashSteps
        /\ \E step \in Steps \ HashSteps : Goto(r, step)
    BY <1>4 DEF Work, FindSession, FetchAccount, DropSession, FindUser, HashingBusy,
       CreateUser, CountSessions, PickLru, DeleteLru, InsertSession, InsertPwReq,
       CheckEmail, InsertEmReq, MailLink, MailWarning, ConsumePw, ConsumeEm, RefuseToken,
       Update, DeleteSessions, DeletePwReqs, DeleteEmReqs, CommitReset, Notify, Deactivate,
       DeadlockVictim,
          At, Steps, TxSteps, HashSteps, rest, AfterAccount,
          Deadlocked, WaitsFor
  <2> QED BY <2>1, OutsideHashing
<1> QED BY <1>1, <1>2, <1>3, <1>4

\* So do arrivals, failures at any point, and stuttering.
LEMMA StepKeepsSlots == DataTypeOK /\ SlotsOK /\ [Next]_vars => SlotsOK'
<1> SUFFICES ASSUME DataTypeOK, SlotsOK, [Next]_vars PROVE SlotsOK'
  OBVIOUS
<1> USE DEF DataTypeOK
<1>1. ASSUME NEW r \in Requests, Arrive(r) PROVE SlotsOK'
  <2>1. /\ UNCHANGED hashSlots /\ pc[r] \notin HashSteps
        /\ \E step \in Steps \ HashSteps : Goto(r, step)
    BY <1>1, OpsAssumption
       DEF Arrive, At, FirstStep, AllOps, Authenticated, Steps, TxSteps, HashSteps
  <2> QED BY <2>1, OutsideHashing
<1>2. ASSUME NEW r \in Requests, Work(r) PROVE SlotsOK'
  BY <1>2, WorkKeepsSlots
<1>3. ASSUME NEW r \in Requests, Fail(r) PROVE SlotsOK'
  <2>1. PICK step \in Steps \ HashSteps : Goto(r, step)
    BY <1>3 DEF Fail, Steps, TxSteps, HashSteps
  <2>2. CASE pc[r] \in HashSteps
    BY <1>3, <2>1, <2>2, ReleaseExact DEF Fail, ReleaseSlot, HashSteps
  <2>3. CASE pc[r] \notin HashSteps
    BY <1>3, <2>1, <2>3, OutsideHashing DEF Fail, HashSteps
  <2> QED BY <2>2, <2>3
<1>4. CASE UNCHANGED vars
  BY <1>4 DEF vars, rest, SlotsOK, HashSlotsExact
<1> QED
  BY <1>1, <1>2, <1>3, <1>4 DEF Next, Quiesced

\* No slot is taken when the server starts.
LEMMA InitSlots == Init => SlotsOK
<1> SUFFICES ASSUME Init PROVE SlotsOK
  OBVIOUS
<1>1. Hashing = {}
  BY DEF Init, Hashing, HashSteps
<1> QED BY <1>1, FS_EmptySet, ServiceAssumption
        DEF Init, SlotsOK, HashSlotsExact, Hashing, HashSteps

\* The types and the semaphore together are an inductive invariant.
LEMMA TypesAndSlots == Spec => [](DataTypeOK /\ SlotsOK)
<1>1. Init => DataTypeOK /\ SlotsOK
  BY InitTypes, InitSlots
<1>2. DataTypeOK /\ SlotsOK /\ [Next]_vars => (DataTypeOK /\ SlotsOK)'
  BY StepKeepsTypes, StepKeepsSlots
<1> QED BY <1>1, <1>2, PTL DEF Spec

\* Type correctness; in particular at most MaxConcurrentHashes argon2
\* computations run at once, and Release is never called without an Acquire.
THEOREM TypeCorrect == Spec => []TypeOK
<1>1. DataTypeOK /\ SlotsOK => TypeOK
  BY DEF DataTypeOK, SlotsOK, TypeOK, ServiceTypeOK
<1> QED BY <1>1, TypesAndSlots, PTL

\* createPasswordHash and verifyPassword leak no slot on any path, whatever
\* fails and however requests interleave.
THEOREM SlotsExact == Spec => []HashSlotsExact
<1>1. DataTypeOK /\ SlotsOK => HashSlotsExact
  BY DEF SlotsOK
<1> QED BY <1>1, TypesAndSlots, PTL

-----------------------------------------------------------------------------
(***************************************************************************)
(* Resets do what they promise to sessions and reset requests that no      *)
(* reset overlapped, and users.email stays unique, for any number of       *)
(* requests and any database that satisfies the schema.                    *)
(*                                                                         *)
(* UnracedCurrent is not inductive.  A commit keeps it because the         *)
(* statements before it claimed every row it is about (Claims); an insert  *)
(* keeps it because the account a request read is still current unless a   *)
(* reset raced it (Snapshots), which needs every transaction to write the  *)
(* account of its own request (Writes); and that a row of users is one     *)
(* account needs the ids and emails written by open transactions to be     *)
(* apart (Locks).                                                          *)
(***************************************************************************)

\* Where the transaction of a request has updated users.
WroteSteps == {"del_sessions", "del_pw", "del_em", "commit"}

\* A transaction writes at most one row, that of its account, after "update".
Writes ==
    /\ \A r \in Requests : tx[r].wrote # {} => pc[r] \in WroteSteps
    /\ \A r \in Requests : \A w, v \in tx[r].wrote : w = v
    /\ \A r \in Requests : \A w \in tx[r].wrote : \E v \in account[r] : v.id = w.id
    /\ \A r \in Requests : \A w \in tx[r].wrote : \E x \in users : x.id = w.id

\* No open transaction writes an email or an id another row or transaction has.
Locks ==
    /\ \A r \in Requests : \A w \in tx[r].wrote : \A x \in users :
           x.email = w.email => x.id = w.id
    /\ \A r, o \in Requests : r # o =>
           \A w \in tx[r].wrote, v \in tx[o].wrote : w.id # v.id /\ w.email # v.email

\* The one row a request read is current, in what resets change, unless raced.
Snapshots ==
    /\ \A r \in Requests : \A w, v \in account[r] : w = v
    /\ \A r \in Requests : \A w \in account[r] : \E x \in users : x.id = w.id
    /\ \A r \in Requests : ~raced[r] => \A w \in account[r] : \A x \in users :
           x.id = w.id => x.hash = w.hash /\ x.email = w.email

\* What the DELETEs of a reset have claimed by the step it is at.
Claims == \A r \in Requests : \A w \in account[r] :
    /\ pc[r] \in {"del_pw", "del_em", "commit"} =>
           \A s \in sessions : s.user = w.id /\ ~s.raced => s \in tx[r].sess
    /\ pc[r] \in {"del_em", "commit"} =>
           \A p \in pwReqs : p.user = w.id /\ ~p.raced => p \in tx[r].pw
    /\ pc[r] = "commit" =>
           \A e \in emReqs : e.user = w.id /\ ~e.raced => e \in tx[r].em

\* The inductive invariant.
ResetInv ==
    /\ DataTypeOK
    /\ OneUserPerEmail
    /\ Writes
    /\ Locks
    /\ Snapshots
    /\ Claims
    /\ ForeignKeys(users, sessions, pwReqs, emReqs)
    /\ UnracedCurrent

\* The schema and an idle server satisfy it.
LEMMA InitResetInv == Init => ResetInv
<1> SUFFICES ASSUME Init PROVE ResetInv
  OBVIOUS
<1>1. DataTypeOK
  BY InitTypes
<1>2. OneUserPerEmail /\ ForeignKeys(users, sessions, pwReqs, emReqs) /\ UnracedCurrent
  BY DatabaseAssumption DEF Init, DbInit, OneUserPerEmail, UnracedCurrent
<1>3. Writes /\ Locks
  BY DEF Init, DbInit, Writes, Locks, NoTx
<1>4. Snapshots /\ Claims
  BY DEF Init, Snapshots, Claims
<1> QED BY <1>1, <1>2, <1>3, <1>4 DEF ResetInv

\* Steps of r that leave the tables, the transactions and the snapshots alone.
LEMMA QuietStep ==
    ASSUME ResetInv, DataTypeOK', NEW r \in Requests, UNCHANGED <<db, account, raced>>,
           pc[r] \notin WroteSteps, NEW step \in Steps \ WroteSteps, Goto(r, step)
    PROVE  ResetInv'
<1> USE DEF ResetInv, db
<1>1. Writes' /\ Locks'
  BY DEF Writes, Locks, Goto, DataTypeOK
<1>2. Snapshots' /\ Claims'
  BY DEF Snapshots, Claims, Goto, DataTypeOK, WroteSteps
<1> QED BY <1>1, <1>2 DEF OneUserPerEmail, UnracedCurrent

\* A step that only reads the account: GetUserByEmail, GetUserByID, and the
\* consumption of a token.
LEMMA ReadStep ==
    ASSUME ResetInv, DataTypeOK', NEW r \in Requests, UNCHANGED <<users, sessions, pwReqs, emReqs, raced>>,
           pc[r] \notin WroteSteps, NEW step \in Steps \ WroteSteps, Goto(r, step),
           NEW R \in SUBSET users, \A w, v \in R : w = v,
           account' = [account EXCEPT ![r] = R],
           \A o \in Requests : tx'[o].wrote = tx[o].wrote,
           \A o \in Requests : o # r => tx'[o] = tx[o]
    PROVE  ResetInv'
<1> USE DEF ResetInv, db
<1>0. tx[r].wrote = {}
  BY DEF Writes
<1>1. Writes' /\ Locks'
  <2>1. Locks'
    BY DEF Locks
  <2>2. ASSUME NEW o \in Requests, o # r
        PROVE  account'[o] = account[o] /\ pc'[o] = pc[o]
    BY <2>2 DEF DataTypeOK, Goto
  <2>3. Writes'
    BY <1>0, <2>2 DEF Writes
  <2> QED BY <2>1, <2>3
<1>2. Snapshots'
  BY DEF Snapshots, OneUserPerEmail, UniqueUsers, DataTypeOK
<1>3. Claims'
  BY DEF Claims, Goto, DataTypeOK, WroteSteps
<1> QED BY <1>1, <1>2, <1>3 DEF OneUserPerEmail, UnracedCurrent

\* A step that only deletes sessions: logout, expiry, the LRU eviction.
LEMMA DropStep ==
    ASSUME ResetInv, DataTypeOK', NEW r \in Requests, UNCHANGED <<users, pwReqs, emReqs, tx, account, raced>>,
           pc[r] \notin WroteSteps, NEW step \in Steps \ WroteSteps, Goto(r, step),
           sessions' \subseteq sessions
    PROVE  ResetInv'
<1> USE DEF ResetInv, db
<1>1. Writes' /\ Locks'
  BY DEF Writes, Locks, Goto, DataTypeOK, DbTypeOK
<1>2. Snapshots'
  BY DEF Snapshots
<1>3. Claims'
  BY DEF Claims, Goto, DataTypeOK, WroteSteps
<1>4. ForeignKeys(users, sessions, pwReqs, emReqs)'
  BY DEF ForeignKeys
<1>5. UnracedCurrent'
  BY DEF UnracedCurrent, CurrentRows
<1> QED BY <1>1, <1>2, <1>3, <1>4, <1>5 DEF OneUserPerEmail, UnracedCurrent

\* A step that drops the transaction of r.
LEMMA RollbackStep ==
    ASSUME ResetInv, DataTypeOK', NEW r \in Requests, UNCHANGED <<users, sessions, pwReqs, emReqs, account, raced>>,
           tx' = [tx EXCEPT ![r] = NoTx],
           NEW step \in Steps \ WroteSteps, Goto(r, step)
    PROVE  ResetInv'
<1> USE DEF ResetInv, db
<1>0. tx'[r].wrote = {} /\ \A o \in Requests : o # r => tx'[o] = tx[o]
  BY DEF DataTypeOK, DbTypeOK, NoTx
<1>1. Writes' /\ Locks'
  BY <1>0 DEF Writes, Locks, Goto, DataTypeOK, DbTypeOK
<1>2. Snapshots'
  BY DEF Snapshots
<1>3. Claims'
  BY <1>0 DEF Claims, Goto, DataTypeOK, WroteSteps
<1> QED BY <1>1, <1>2, <1>3 DEF OneUserPerEmail, UnracedCurrent

\* A sign-up, whose email no row and no open transaction has.
LEMMA CreateStep ==
    ASSUME ResetInv, DataTypeOK', NEW r \in Requests, CreateUser(r)
    PROVE  ResetInv'
<1> USE DEF ResetInv
<1>1. tx[r].wrote = {}
  BY DEF CreateUser, Writes, At, WroteSteps
<1>2. PICK e \in Emails : EmailHolders(e, r) = {} /\
        \/ UNCHANGED <<users, account>> /\ Goto(r, "failed")
        \/ /\ GetUserByEmail(e) = {}
           /\ Goto(r, "count")
           /\ \E u \in UserIds, p \in Passwords :
                LET row == [id |-> u, email |-> e, hash |-> p, active |-> TRUE]
                IN  /\ GetUserByID(u) = {}
                    /\ users' = users \cup {row}
                    /\ account' = [account EXCEPT ![r] = {row}]
  BY DEF CreateUser
<1>3. CASE UNCHANGED <<users, account>> /\ Goto(r, "failed")
  BY <1>3, QuietStep DEF CreateUser, At, WroteSteps, Steps, TxSteps, db
<1>4. CASE ~(UNCHANGED <<users, account>> /\ Goto(r, "failed"))
  <2>1. PICK row \in UserRow :
           /\ \A x \in users : x.id # row.id /\ x.email # row.email
           /\ row.email = e
           /\ users' = users \cup {row}
           /\ account' = [account EXCEPT ![r] = {row}]
           /\ Goto(r, "count")
    <3>1. PICK u \in UserIds, p \in Passwords :
                LET row == [id |-> u, email |-> e, hash |-> p, active |-> TRUE]
                IN  /\ GetUserByID(u) = {}
                    /\ users' = users \cup {row}
                    /\ account' = [account EXCEPT ![r] = {row}]
      BY <1>2, <1>4
    <3>2. [id |-> u, email |-> e, hash |-> p, active |-> TRUE] \in UserRow
      BY DEF UserRow
    <3>3. GetUserByEmail(e) = {} /\ Goto(r, "count")
      BY <1>2, <1>4
    <3> QED BY <3>1, <3>2, <3>3 DEF GetUserByID, GetUserByEmail
  <2>2. UNCHANGED <<sessions, pwReqs, emReqs, tx, raced>> /\ pc[r] = "create_user"
    BY DEF CreateUser, At
  <2>3. \A o \in Requests : \A w \in tx[o].wrote : w.email # e
    BY <1>1, <1>2 DEF EmailHolders, Others
  <2>4. ASSUME NEW o \in Requests, o # r
        PROVE  account'[o] = account[o] /\ pc'[o] = pc[o]
    BY <2>1, <2>4 DEF DataTypeOK, Goto
  <2>5. account'[r] = {row} /\ pc'[r] = "count"
    BY <2>1 DEF DataTypeOK, Goto
  <2>6. OneUserPerEmail'
    BY <2>1 DEF OneUserPerEmail, UniqueUsers
  <2>7. Writes'
    BY <1>1, <2>1, <2>2, <2>4 DEF Writes
  <2>8. Locks'
    BY <2>1, <2>2, <2>3 DEF Locks
  <2>9. Snapshots'
    BY <2>1, <2>2, <2>4, <2>5 DEF Snapshots
  <2>10. Claims'
    BY <2>2, <2>4, <2>5 DEF Claims
  <2>11. ForeignKeys(users, sessions, pwReqs, emReqs)'
    BY <2>1, <2>2 DEF ForeignKeys
  <2>12. UnracedCurrent'
    BY <2>1, <2>2 DEF UnracedCurrent, CurrentRows, ForeignKeys
  <2> QED BY <2>6, <2>7, <2>8, <2>9, <2>10, <2>11, <2>12
<1> QED BY <1>3, <1>4

\* An INSERT of a session or reset request with what r knows of the account w.
LEMMA InsertStep ==
    ASSUME ResetInv, DataTypeOK', NEW r \in Requests, UNCHANGED <<users, tx, account, raced>>,
           pc[r] \notin WroteSteps, NEW step \in Steps \ WroteSteps, Goto(r, step),
           sessions \subseteq sessions', pwReqs \subseteq pwReqs', emReqs \subseteq emReqs',
           NEW w \in account[r],
           \A s \in sessions' \ sessions :
               /\ s.user = w.id /\ s.via = w.hash
               /\ Overtaken(r, w.id, {"del_pw", "del_em", "commit"}) => s.raced,
           \A p \in pwReqs' \ pwReqs :
               /\ p.user = w.id /\ p.addr = w.email
               /\ Overtaken(r, w.id, {"del_em", "commit"}) => p.raced,
           \A e \in emReqs' \ emReqs :
               /\ e.user = w.id /\ e.via = w.hash
               /\ Overtaken(r, w.id, {"commit"}) => e.raced
    PROVE  ResetInv'
<1> USE DEF ResetInv
<1>1. Writes' /\ Locks'
  BY DEF Writes, Locks, Goto, DataTypeOK, DbTypeOK
<1>2. Snapshots'
  BY DEF Snapshots
<1>3. Claims'
  <2> SUFFICES ASSUME NEW o \in Requests, NEW v \in account[o], o # r
               PROVE  /\ pc[o] \in {"del_pw", "del_em", "commit"} =>
                           \A s \in sessions' : s.user = v.id /\ ~s.raced => s \in tx[o].sess
                      /\ pc[o] \in {"del_em", "commit"} =>
                           \A p \in pwReqs' : p.user = v.id /\ ~p.raced => p \in tx[o].pw
                      /\ pc[o] = "commit" =>
                           \A e \in emReqs' : e.user = v.id /\ ~e.raced => e \in tx[o].em
    BY DEF Claims, Goto, DataTypeOK, WroteSteps
  <2>1. v.id = w.id /\ pc[o] \in {"del_pw", "del_em", "commit"} => o \in ResetsOf(w.id)
    BY DEF ResetsOf, TxSteps
  <2> QED BY <2>1 DEF Claims, Overtaken
<1>4. ForeignKeys(users, sessions, pwReqs, emReqs)'
  BY DEF ForeignKeys, Snapshots
<1>5. UnracedCurrent'
  <2>1. CASE raced[r]
    <3>1. \A past : Overtaken(r, w.id, past)
      BY <2>1 DEF Overtaken
    <3> QED BY <3>1 DEF UnracedCurrent, CurrentRows
  <2>2. CASE ~raced[r]
    <3>1. \A x \in users : x.id = w.id => x.hash = w.hash /\ x.email = w.email
      BY <2>2 DEF Snapshots
    <3> QED BY <3>1 DEF UnracedCurrent, CurrentRows
  <2> QED BY <2>1, <2>2
<1> QED BY <1>1, <1>2, <1>3, <1>4, <1>5 DEF OneUserPerEmail

\* The UPDATE of users: the row lock keeps other writers of the row out, and
\* the unique index other writers of the email.
LEMMA UpdateStep ==
    ASSUME ResetInv, DataTypeOK', NEW r \in Requests, Update(r)
    PROVE  ResetInv'
<1> USE DEF ResetInv
<1>1. UNCHANGED <<users, sessions, pwReqs, emReqs, account, raced>> /\ pc[r] = "update"
  BY DEF Update, rest, At
<1>2. CASE tx' = [tx EXCEPT ![r] = NoTx] /\ Goto(r, "failed")
  BY <1>1, <1>2, RollbackStep DEF Steps, TxSteps, WroteSteps
<1>3. CASE ~(tx' = [tx EXCEPT ![r] = NoTx] /\ Goto(r, "failed"))
  <2>1. PICK w \in account[r] : \E x \in users : x.id = w.id /\
           \/ /\ \E p \in Passwords : tx' = [tx EXCEPT ![r].wrote = {[x EXCEPT !.hash = p]}]
              /\ Goto(r, "del_sessions")
           \/ \E t \in tx[r].em :
                /\ ~Taken(t.newEmail, x.id)
                /\ tx' = [tx EXCEPT ![r].wrote = {[x EXCEPT !.email = t.newEmail]}]
                /\ Goto(r, "del_sessions")
    BY <1>3 DEF Update, GetUserByID
  <2>2. PICK x \in users : x.id = w.id /\
           \/ /\ \E p \in Passwords : tx' = [tx EXCEPT ![r].wrote = {[x EXCEPT !.hash = p]}]
              /\ Goto(r, "del_sessions")
           \/ \E t \in tx[r].em :
                /\ ~Taken(t.newEmail, x.id)
                /\ tx' = [tx EXCEPT ![r].wrote = {[x EXCEPT !.email = t.newEmail]}]
                /\ Goto(r, "del_sessions")
    BY <2>1
  <2>3. \A o \in Requests \ {r} : \A v \in tx[o].wrote : v.id # x.id
    BY <2>2 DEF Update, UserWaits, UserHolders, Others
  <2>4. PICK y : /\ tx' = [tx EXCEPT ![r].wrote = {y}]
                 /\ y.id = x.id
                 /\ \A z \in users : z.email = y.email => z.id = y.id
                 /\ \A o \in Requests \ {r} : \A v \in tx[o].wrote : v.email # y.email
    <3>1. ASSUME NEW p \in Passwords, tx' = [tx EXCEPT ![r].wrote = {[x EXCEPT !.hash = p]}]
          PROVE  /\ [x EXCEPT !.hash = p].id = x.id
                 /\ \A z \in users : z.email = [x EXCEPT !.hash = p].email => z.id = x.id
                 /\ \A o \in Requests \ {r} : \A v \in tx[o].wrote :
                       v.email # [x EXCEPT !.hash = p].email
      <4>1. [x EXCEPT !.hash = p].id = x.id /\ [x EXCEPT !.hash = p].email = x.email
        BY DEF DataTypeOK, DbTypeOK, UserRow
      <4> QED BY <4>1, <2>3 DEF OneUserPerEmail, UniqueUsers, Locks
    <3>2. ASSUME NEW t \in tx[r].em, ~Taken(t.newEmail, x.id),
                 tx' = [tx EXCEPT ![r].wrote = {[x EXCEPT !.email = t.newEmail]}]
          PROVE  /\ [x EXCEPT !.email = t.newEmail].id = x.id
                 /\ \A z \in users : z.email = [x EXCEPT !.email = t.newEmail].email => z.id = x.id
                 /\ \A o \in Requests \ {r} : \A v \in tx[o].wrote :
                       v.email # [x EXCEPT !.email = t.newEmail].email
      <4>1. /\ [x EXCEPT !.email = t.newEmail].id = x.id
            /\ [x EXCEPT !.email = t.newEmail].email = t.newEmail
        BY DEF DataTypeOK, DbTypeOK, UserRow
      <4>2. EmailHolders(t.newEmail, r) = {}
        BY DEF Update, EmailWaits
      <4> QED BY <4>1, <4>2, <3>2 DEF Taken, EmailHolders, Others
    <3> QED BY <2>2, <3>1, <3>2
  <2>5. pc' = [pc EXCEPT ![r] = "del_sessions"]
    BY <2>2 DEF Goto
  <2>6. /\ tx'[r].wrote = {y} /\ pc'[r] = "del_sessions"
        /\ \A o \in Requests \ {r} : tx'[o] = tx[o] /\ pc'[o] = pc[o]
    BY <2>4, <2>5 DEF DataTypeOK, DbTypeOK, TxState
  <2>7. Writes'
    BY <1>1, <2>1, <2>2, <2>4, <2>6 DEF Writes, WroteSteps
  <2>8. Locks'
    BY <1>1, <2>2, <2>3, <2>4, <2>6 DEF Locks
  <2>9. Snapshots' /\ Claims'
    BY <1>1, <2>6 DEF Snapshots, Claims
  <2> QED BY <1>1, <2>7, <2>8, <2>9 DEF OneUserPerEmail, UnracedCurrent
<1> QED BY <1>2, <1>3

\* The three DELETEs claim all the rows of the account.
LEMMA ClaimStep ==
    ASSUME ResetInv, DataTypeOK', NEW r \in Requests,
           DeleteSessions(r) \/ DeletePwReqs(r) \/ DeleteEmReqs(r)
    PROVE  ResetInv'
<1> USE DEF ResetInv
<1>1. UNCHANGED <<users, sessions, pwReqs, emReqs, account, raced>>
  BY DEF DeleteSessions, DeletePwReqs, DeleteEmReqs, rest
<1>2. /\ tx'[r].wrote = tx[r].wrote
      /\ \A o \in Requests \ {r} : tx'[o] = tx[o] /\ pc'[o] = pc[o]
      /\ pc[r] \in WroteSteps /\ pc'[r] \in WroteSteps
  BY DEF DeleteSessions, DeletePwReqs, DeleteEmReqs, DataTypeOK, DbTypeOK, TxState, At, Goto,
         WroteSteps
<1>3. Writes' /\ Locks'
  <2>1. \A o \in Requests : tx'[o].wrote = tx[o].wrote
    BY <1>2
  <2> QED BY <1>1, <1>2, <2>1 DEF Writes, Locks
<1>4. Claims'
  <2> SUFFICES ASSUME NEW w \in account[r]
               PROVE  /\ pc'[r] \in {"del_pw", "del_em", "commit"} =>
                           \A s \in sessions : s.user = w.id /\ ~s.raced => s \in tx'[r].sess
                      /\ pc'[r] \in {"del_em", "commit"} =>
                           \A p \in pwReqs : p.user = w.id /\ ~p.raced => p \in tx'[r].pw
                      /\ pc'[r] = "commit" =>
                           \A e \in emReqs : e.user = w.id /\ ~e.raced => e \in tx'[r].em
    BY <1>1, <1>2 DEF Claims
  <2>0. \A v \in account[r] : v = w
    BY DEF Snapshots
  <2>1. CASE DeleteSessions(r)
    <3>1. tx'[r].sess = OfUser(sessions, w.id) /\ pc'[r] = "del_pw"
      BY <2>0, <2>1 DEF DeleteSessions, DataTypeOK, DbTypeOK, TxState, Goto
    <3> QED BY <3>1 DEF OfUser
  <2>2. CASE DeletePwReqs(r)
    <3>1. /\ tx'[r].pw = tx[r].pw \cup OfUser(pwReqs, w.id) /\ tx'[r].sess = tx[r].sess
          /\ pc[r] = "del_pw" /\ pc'[r] = "del_em"
      BY <2>0, <2>2 DEF DeletePwReqs, DataTypeOK, DbTypeOK, TxState, Goto, At
    <3> QED BY <3>1 DEF OfUser, Claims
  <2>3. CASE DeleteEmReqs(r)
    <3>1. /\ tx'[r].em = tx[r].em \cup OfUser(emReqs, w.id) /\ tx'[r].sess = tx[r].sess
          /\ tx'[r].pw = tx[r].pw /\ pc[r] = "del_em" /\ pc'[r] = "commit"
      BY <2>0, <2>3 DEF DeleteEmReqs, DataTypeOK, DbTypeOK, TxState, Goto, At
    <3> QED BY <3>1 DEF OfUser, Claims
  <2> QED BY <2>1, <2>2, <2>3
<1> QED BY <1>1, <1>3, <1>4 DEF Snapshots, OneUserPerEmail, UnracedCurrent

\* What is left of the account's rows after a commit is raced.
LEMMA CommitWipes ==
    ASSUME ResetInv, NEW r \in Requests, CommitReset(r), NEW w \in account[r]
    PROVE  \A row \in OfUser(sessions', w.id) \cup OfUser(pwReqs', w.id) \cup OfUser(emReqs', w.id) :
               row.raced
BY DEF ResetInv, Claims, CommitReset, Commit, OfUser, At

\* The commit of a reset.
LEMMA CommitStep ==
    ASSUME ResetInv, DataTypeOK', NEW r \in Requests, CommitReset(r)
    PROVE  ResetInv'
<1> USE DEF ResetInv
<1>1. /\ users' = {x \in users : \A w \in tx[r].wrote : w.id # x.id} \cup tx[r].wrote
      /\ sessions' \subseteq sessions /\ pwReqs' \subseteq pwReqs /\ emReqs' \subseteq emReqs
      /\ tx' = [tx EXCEPT ![r] = NoTx] /\ UNCHANGED account
      /\ raced' = [x \in Requests |->
                     raced[x] \/ \E w \in account[r], v \in account[x] : w.id = v.id]
  BY DEF CommitReset, Commit
<1>2. PICK step \in Steps \ WroteSteps : Goto(r, step)
  BY DEF CommitReset, Steps, WroteSteps, TxSteps
<1>3. /\ tx'[r].wrote = {} /\ pc'[r] \notin WroteSteps
      /\ \A o \in Requests \ {r} : tx'[o] = tx[o] /\ pc'[o] = pc[o]
  BY <1>1, <1>2 DEF DataTypeOK, DbTypeOK, NoTx, Goto
<1>4. \A x \in users : \E y \in users' : y.id = x.id
  BY <1>1
<1>5. OneUserPerEmail'
  BY <1>1 DEF OneUserPerEmail, UniqueUsers, Writes, Locks
<1>6. Writes'
  BY <1>1, <1>3, <1>4 DEF Writes
<1>7. Locks'
  BY <1>1, <1>3 DEF Locks
<1>8. Snapshots'
  <2>1. ASSUME NEW o \in Requests, ~raced'[o], NEW v \in account[o], NEW x \in users', x.id = v.id
        PROVE  x.hash = v.hash /\ x.email = v.email
    <3>1. ~raced[o] /\ \A w \in account[r] : w.id # v.id
      BY <1>1, <2>1
    <3>2. x \in users
      BY <1>1, <2>1, <3>1 DEF Writes
    <3> QED BY <2>1, <3>1, <3>2 DEF Snapshots
  <2> QED BY <1>1, <1>4, <2>1 DEF Snapshots
<1>9. Claims'
  BY <1>1, <1>3 DEF Claims, WroteSteps
<1>10. ForeignKeys(users, sessions, pwReqs, emReqs)'
  BY <1>1, <1>4 DEF ForeignKeys
<1>11. UnracedCurrent'
  <2>1. ASSUME NEW x \in users', x \notin users
        PROVE  \E w \in account[r] : w.id = x.id
    BY <1>1, <2>1 DEF Writes
  <2>2. ASSUME NEW x \in users', x \notin users
        PROVE  /\ \A s \in sessions' : s.user = x.id => s.raced
               /\ \A p \in pwReqs' : p.user = x.id => p.raced
               /\ \A e \in emReqs' : e.user = x.id => e.raced
    BY <2>1, <2>2, CommitWipes DEF OfUser
  <2> QED BY <1>1, <2>2 DEF UnracedCurrent, CurrentRows
<1> QED BY <1>5, <1>6, <1>7, <1>8, <1>9, <1>10, <1>11

\* Deactivation leaves id, email and password alone.
LEMMA DeactivateStep ==
    ASSUME ResetInv, DataTypeOK', NEW r \in Requests, Deactivate(r)
    PROVE  ResetInv'
<1> USE DEF ResetInv
<1>1. PICK x \in users : users' = (users \ {x}) \cup {[x EXCEPT !.active = FALSE]}
  BY DEF Deactivate
<1>2. PICK y \in users' : /\ users' = (users \ {x}) \cup {y}
                          /\ y.id = x.id /\ y.email = x.email /\ y.hash = x.hash
  <2>1. /\ [x EXCEPT !.active = FALSE].id = x.id
        /\ [x EXCEPT !.active = FALSE].email = x.email
        /\ [x EXCEPT !.active = FALSE].hash = x.hash
    BY DEF DataTypeOK, DbTypeOK, UserRow
  <2> QED BY <1>1, <2>1
<1>3. UNCHANGED <<sessions, pwReqs, emReqs, tx, account, raced>>
  BY DEF Deactivate, rest
<1>4. \A v \in users' : \E z \in users : v.id = z.id /\ v.email = z.email /\ v.hash = z.hash
  BY <1>2
<1>5. \A z \in users : \E v \in users' : v.id = z.id
  BY <1>2
<1>6. OneUserPerEmail'
  BY <1>2 DEF OneUserPerEmail, UniqueUsers
<1>7. /\ pc[r] \notin WroteSteps /\ pc'[r] \notin WroteSteps
      /\ \A o \in Requests \ {r} : pc'[o] = pc[o]
  BY DEF Deactivate, At, Goto, DataTypeOK, WroteSteps
<1>8. Writes'
  BY <1>3, <1>5, <1>7 DEF Writes
<1>9. Locks'
  BY <1>3, <1>4 DEF Locks
<1>10. Snapshots'
  BY <1>3, <1>4, <1>5 DEF Snapshots
<1>11. Claims'
  BY <1>3, <1>7 DEF Claims, WroteSteps
<1>12. ForeignKeys(users, sessions, pwReqs, emReqs)'
  BY <1>3, <1>5 DEF ForeignKeys
<1>13. UnracedCurrent'
  BY <1>3, <1>4 DEF UnracedCurrent, CurrentRows
<1> QED BY <1>6, <1>8, <1>9, <1>10, <1>11, <1>12, <1>13

\* Each step of a request is one of the kinds above.
LEMMA WorkKeepsResetInv ==
    ASSUME ResetInv, NEW r \in Requests, Work(r)
    PROVE  ResetInv'
<1> DataTypeOK /\ DataTypeOK'
  BY WorkKeepsTypes DEF ResetInv
<1> USE DEF Steps, TxSteps, WroteSteps, At
<1>1. CASE \/ FindSession(r) \/ BeginHash(r) \/ EndVerify(r) \/ EndHash(r) \/ CountSessions(r)
           \/ PickLru(r) \/ CheckEmail(r) \/ MailLink(r) \/ MailWarning(r) \/ RefuseToken(r)
           \/ Notify(r)
  <2>1. /\ UNCHANGED <<db, account, raced>>
        /\ pc[r] \notin WroteSteps
        /\ \E step \in Steps \ WroteSteps : Goto(r, step)
    BY <1>1 DEF FindSession, BeginHash, EndVerify, EndHash, CountSessions, PickLru, CheckEmail,
                MailLink, MailWarning, RefuseToken, Notify, AfterVerify, rest, db
  <2> QED BY <2>1, QuietStep
<1>2. CASE FindUser(r)
  <2>1. CASE UNCHANGED account
    BY <1>2, <2>1, QuietStep DEF FindUser, rest, db
  <2>2. CASE ~UNCHANGED account
    <3>1. PICK e \in Emails : account' = [account EXCEPT ![r] = GetUserByEmail(e)]
      BY <1>2, <2>2 DEF FindUser
    <3>2. GetUserByEmail(e) \in SUBSET users /\ \A w, v \in GetUserByEmail(e) : w = v
      BY DEF GetUserByEmail, ResetInv, OneUserPerEmail, UniqueUsers
    <3>3. \E step \in Steps \ WroteSteps : Goto(r, step)
      BY <1>2 DEF FindUser
    <3>4. UNCHANGED <<users, sessions, pwReqs, emReqs, tx, raced>> /\ pc[r] \notin WroteSteps
      BY <1>2 DEF FindUser, db
    <3> QED BY <3>1, <3>2, <3>3, <3>4, ReadStep
  <2> QED BY <2>1, <2>2
<1>3. CASE FetchAccount(r)
  <2>1. PICK s \in held[r] : account' = [account EXCEPT ![r] = GetUserByID(s.user)]
    BY <1>3 DEF FetchAccount
  <2>2. GetUserByID(s.user) \in SUBSET users /\ \A w, v \in GetUserByID(s.user) : w = v
    BY DEF GetUserByID, ResetInv, OneUserPerEmail, UniqueUsers
  <2>3. \E step \in Steps \ WroteSteps : Goto(r, step)
    BY <1>3 DEF FetchAccount, AfterAccount
  <2>4. UNCHANGED <<users, sessions, pwReqs, emReqs, tx, raced>> /\ pc[r] \notin WroteSteps
    BY <1>3 DEF FetchAccount, db
  <2> QED BY <2>1, <2>2, <2>3, <2>4, ReadStep
<1>4. CASE DropSession(r) \/ DeleteLru(r)
  <2>1. /\ UNCHANGED <<users, pwReqs, emReqs, tx, account, raced>>
        /\ pc[r] \notin WroteSteps
        /\ \E step \in Steps \ WroteSteps : Goto(r, step)
        /\ sessions' \subseteq sessions
    BY <1>4 DEF DropSession, DeleteLru, DeleteSession
  <2> QED BY <2>1, DropStep
<1>5. CASE HashingBusy(r) \/ DeadlockVictim(r)
  BY <1>5, RollbackStep DEF HashingBusy, DeadlockVictim, Rollback, rest
<1>6. CASE CreateUser(r)
  BY <1>6, CreateStep
<1>7. CASE InsertSession(r)
  <2>1. PICK w \in account[r] : sessions' = sessions \cup
            {[id |-> r, user |-> w.id, via |-> w.hash,
              raced |-> Overtaken(r, w.id, {"del_pw", "del_em", "commit"})]}
    BY <1>7 DEF InsertSession
  <2>2. \A s \in sessions' \ sessions :
           /\ s.user = w.id /\ s.via = w.hash
           /\ Overtaken(r, w.id, {"del_pw", "del_em", "commit"}) => s.raced
    BY <2>1
  <2>3. /\ UNCHANGED <<users, pwReqs, emReqs, tx, account, raced>>
        /\ pc[r] \notin WroteSteps /\ Goto(r, "ok")
    BY <1>7 DEF InsertSession
  <2> QED BY <2>1, <2>2, <2>3, InsertStep
<1>8. CASE InsertPwReq(r)
  <2>1. PICK w \in account[r] : pwReqs' = pwReqs \cup
            {[id |-> r, user |-> w.id, addr |-> w.email,
              raced |-> Overtaken(r, w.id, {"del_em", "commit"})]}
    BY <1>8 DEF InsertPwReq
  <2>2. \A p \in pwReqs' \ pwReqs :
           /\ p.user = w.id /\ p.addr = w.email
           /\ Overtaken(r, w.id, {"del_em", "commit"}) => p.raced
    BY <2>1
  <2>3. /\ UNCHANGED <<users, sessions, emReqs, tx, account, raced>>
        /\ pc[r] \notin WroteSteps /\ Goto(r, "mail_link")
    BY <1>8 DEF InsertPwReq
  <2> QED BY <2>1, <2>2, <2>3, InsertStep
<1>9. CASE InsertEmReq(r)
  <2>1. PICK w \in account[r], a \in newEmail[r] : emReqs' = emReqs \cup
            {[id |-> r, user |-> w.id, newEmail |-> a, via |-> w.hash,
              raced |-> Overtaken(r, w.id, {"commit"})]}
    BY <1>9 DEF InsertEmReq
  <2>2. \A e \in emReqs' \ emReqs :
           /\ e.user = w.id /\ e.via = w.hash
           /\ Overtaken(r, w.id, {"commit"}) => e.raced
    BY <2>1
  <2>3. /\ UNCHANGED <<users, sessions, pwReqs, tx, account, raced>>
        /\ pc[r] \notin WroteSteps /\ Goto(r, "mail_link")
    BY <1>9 DEF InsertEmReq
  <2> QED BY <2>1, <2>2, <2>3, InsertStep
<1>10. CASE ConsumePw(r) \/ ConsumeEm(r)
  <2>1. PICK u : account' = [account EXCEPT ![r] = GetUserByID(u)]
    BY <1>10 DEF ConsumePw, ConsumeEm
  <2>2. GetUserByID(u) \in SUBSET users /\ \A w, v \in GetUserByID(u) : w = v
    BY DEF GetUserByID, ResetInv, OneUserPerEmail, UniqueUsers
  <2>3. /\ UNCHANGED <<users, sessions, pwReqs, emReqs, raced>>
        /\ pc[r] \notin WroteSteps
        /\ \E step \in Steps \ WroteSteps : Goto(r, step)
    BY <1>10 DEF ConsumePw, ConsumeEm
  <2>4. /\ \A o \in Requests : tx'[o].wrote = tx[o].wrote
        /\ \A o \in Requests : o # r => tx'[o] = tx[o]
    <3>1. \/ \E t \in pwReqs : tx' = [tx EXCEPT ![r].pw = {t}]
          \/ \E t \in emReqs : tx' = [tx EXCEPT ![r].em = {t}]
      BY <1>10 DEF ConsumePw, ConsumeEm
    <3>2. tx \in [Requests -> TxState]
      BY DEF DataTypeOK, DbTypeOK
    <3>3. ASSUME NEW t, tx' = [tx EXCEPT ![r].pw = {t}] \/ tx' = [tx EXCEPT ![r].em = {t}]
          PROVE  tx'[r].wrote = tx[r].wrote /\ \A o \in Requests : o # r => tx'[o] = tx[o]
      <4>1. tx[r] \in TxState
        BY <3>2
      <4> QED BY <3>2, <3>3, <4>1 DEF TxState
    <3>4. /\ tx'[r].wrote = tx[r].wrote
          /\ \A o \in Requests : o # r => tx'[o] = tx[o]
      BY <3>1, <3>3
    <3> QED BY <3>4
  <2> QED BY <2>1, <2>2, <2>3, <2>4, ReadStep
<1>11. CASE Update(r)
  BY <1>11, UpdateStep
<1>12. CASE DeleteSessions(r) \/ DeletePwReqs(r) \/ DeleteEmReqs(r)
  BY <1>12, ClaimStep
<1>13. CASE CommitReset(r)
  BY <1>13, CommitStep
<1>14. CASE Deactivate(r)
  BY <1>14, DeactivateStep
<1> QED
  BY <1>1, <1>2, <1>3, <1>4, <1>5, <1>6, <1>7, <1>8, <1>9, <1>10, <1>11, <1>12, <1>13, <1>14
     DEF Work

\* Arrivals and failures change no account and no row.
LEMMA StepKeepsResetInv == ResetInv /\ [Next]_vars => ResetInv'
<1> SUFFICES ASSUME ResetInv, [Next]_vars PROVE ResetInv'
  OBVIOUS
<1> DataTypeOK /\ DataTypeOK'
  BY StepKeepsTypes DEF ResetInv
<1>1. ASSUME NEW r \in Requests, Arrive(r) PROVE ResetInv'
  <2>1. \E step \in Steps \ WroteSteps : Goto(r, step)
    BY <1>1, OpsAssumption DEF Arrive, FirstStep, AllOps, Authenticated, Steps, WroteSteps
  <2> QED BY <1>1, <2>1, QuietStep DEF Arrive, At, WroteSteps
<1>2. ASSUME NEW r \in Requests, Work(r) PROVE ResetInv'
  BY <1>2, WorkKeepsResetInv
<1>3. ASSUME NEW r \in Requests, Fail(r) PROVE ResetInv'
  <2>1. \E step \in Steps \ WroteSteps : Goto(r, step)
    BY <1>3 DEF Fail, Steps, TxSteps, WroteSteps
  <2> QED BY <1>3, <2>1, RollbackStep DEF Fail, Rollback
<1>4. CASE UNCHANGED vars
  BY <1>4 DEF vars, rest, db, ResetInv, Writes, Locks, Snapshots, Claims, OneUserPerEmail,
              UnracedCurrent
<1> QED
  BY <1>1, <1>2, <1>3, <1>4 DEF Next, Quiesced

-----------------------------------------------------------------------------
\* The inductive invariant holds always.
THEOREM AlwaysResetInv == Spec => []ResetInv
  BY InitResetInv, StepKeepsResetInv, PTL DEF Spec

\* After any reset, whatever no reset overlapped was obtained with the password
\* and mailed to the address the account has now.
THEOREM UnracedCurrentHolds == Spec => []UnracedCurrent
<1>1. ResetInv => UnracedCurrent
  BY DEF ResetInv
<1> QED BY <1>1, AlwaysResetInv, PTL

\* No interleaving of sign-ups and email resets gives two users one email.
THEOREM OneUserPerEmailHolds == Spec => []OneUserPerEmail
<1>1. ResetInv => OneUserPerEmail
  BY DEF ResetInv
<1> QED BY <1>1, AlwaysResetInv, PTL

\* The commit of a reset leaves of the account's sessions and reset requests
\* only rows of requests it overlapped.
THEOREM ResetWipesHolds == Spec => ResetWipes
<1> DEFINE Wipes == \A r \in committed' \ committed : \A w \in account[r] :
         \A row \in OfUser(sessions', w.id) \cup OfUser(pwReqs', w.id) \cup OfUser(emReqs', w.id) :
             row.raced
<1>1. ASSUME ResetInv, [Next]_vars PROVE [Wipes]_vars
  <2>1. ASSUME NEW o \in committed' \ committed PROVE CommitReset(o) /\ o \in Requests
    <3>1. CASE UNCHANGED vars
      BY <2>1, <3>1 DEF vars, rest
    <3>2. ASSUME NEW r \in Requests, Arrive(r) \/ Fail(r) PROVE FALSE
      BY <2>1, <3>2 DEF Arrive, Fail
    <3>3. ASSUME NEW r \in Requests, Work(r) PROVE CommitReset(r) /\ o = r
      BY <2>1, <3>3 DEF Work, FindSession, FetchAccount, DropSession, FindUser, BeginHash,
         HashingBusy, EndVerify, EndHash, CreateUser, CountSessions, PickLru, DeleteLru,
         InsertSession, InsertPwReq, CheckEmail, InsertEmReq, MailLink, MailWarning,
         ConsumePw, ConsumeEm, RefuseToken, Update, DeleteSessions, DeletePwReqs,
         DeleteEmReqs, Notify, Deactivate, DeadlockVictim, CommitReset, rest
    <3> QED BY <1>1, <3>1, <3>2, <3>3 DEF Next, Quiesced
  <2> QED BY <1>1, <2>1, CommitWipes
<1> QED BY <1>1, AlwaysResetInv, PTL DEF Spec, ResetWipes
=============================================================================
