------------------------ MODULE AccountRefinementProofs ------------------------
(***************************************************************************)
(* AccountService implements AccountPromise.  A commit maps to the one     *)
(* step that replaces an account: it wrote what it should (Written, and    *)
(* HeldBy for the address of an email token), it removes rows of its       *)
(* account only (OwnRows), what it leaves is raced (CommitWipes), and the  *)
(* token it spends was there until now (TokenHeld).  Every other step adds *)
(* or removes one row, or maps to a stutter.                               *)
(***************************************************************************)
EXTENDS AccountTokenProofs, AccountRefinement

\* A request acts on one sessions row at most.
HeldOne == \A r \in Requests : \A s, z \in held[r] : s = z

LEMMA InitHeldOne == Init => HeldOne
  BY DEF Init, HeldOne

\* held is only ever set to one row.
LEMMA StepKeepsHeldOne == DataTypeOK /\ HeldOne /\ [Next]_vars => HeldOne'
<1> SUFFICES ASSUME DataTypeOK, HeldOne, [Next]_vars PROVE HeldOne'
  OBVIOUS
<1>1. UNCHANGED held \/ \E r \in Requests, s \in sessions : held' = [held EXCEPT ![r] = {s}]
  <2>1. ASSUME NEW r \in Requests, Arrive(r) \/ Fail(r) PROVE UNCHANGED held
    BY <2>1 DEF Arrive, Fail
  <2>2. ASSUME NEW r \in Requests, FindSession(r) \/ PickLru(r)
        PROVE  UNCHANGED held \/ \E s \in sessions : held' = [held EXCEPT ![r] = {s}]
    BY <2>2 DEF FindSession, PickLru, OfUser
  <2>3. ASSUME NEW r \in Requests, Work(r), ~(FindSession(r) \/ PickLru(r)) PROVE UNCHANGED held
    BY <2>3 DEF Work, FetchAccount, DropSession, FindUser, BeginHash, HashingBusy, EndVerify,
       EndHash, CreateUser, CountSessions, DeleteLru, InsertSession, InsertPwReq, CheckEmail,
       InsertEmReq, MailLink, MailWarning, ConsumePw, ConsumeEm, RefuseToken, Update,
       DeleteSessions, DeletePwReqs, DeleteEmReqs, CommitReset, Notify, Deactivate,
       DeadlockVictim, rest
  <2>4. CASE UNCHANGED vars
    BY <2>4 DEF vars, rest
  <2> QED BY <2>1, <2>2, <2>3, <2>4 DEF Next, Quiesced
<1> QED BY <1>1 DEF HeldOne, DataTypeOK

-----------------------------------------------------------------------------
\* The database a server starts with keeps the promise.
LEMMA InitPromise == Init => Promise!Init
<1> SUFFICES ASSUME Init PROVE Promise!Init
  OBVIOUS
<1>1. SpentTokens = {}
  BY DEF Init, SpentTokens
<1>2. /\ UniqueUsers(users) /\ CurrentRows(users, sessions, pwReqs, emReqs)
      /\ ForeignKeys(users, sessions, pwReqs, emReqs)
  BY DatabaseAssumption DEF Init, DbInit
<1>3. Promise!Unique
  BY <1>2 DEF Promise!Unique, UniqueUsers
<1>4. Promise!Owned
  BY <1>2 DEF Promise!Owned, AllGrants, Wrap, ForeignKeys
<1>5. Promise!FreshUnlessRaced
  BY <1>2 DEF Promise!FreshUnlessRaced, Promise!Of, Promise!Fresh, AllGrants, Wrap, CurrentRows
<1>6. Promise!SpentGone
  BY <1>1 DEF Promise!SpentGone
<1> QED BY <1>1, <1>3, <1>4, <1>5, <1>6 DEF Promise!Init, Promise!Kept

\* Steps that change no table and commit nothing are not seen.
LEMMA Unseen ==
    ASSUME UNCHANGED <<users, sessions, pwReqs, emReqs, committed>>,
           \A r \in committed : token'[r] = token[r]
    PROVE  UNCHANGED Promise!vars
BY DEF Promise!vars, SpentTokens

\* Logout, an expired session, the least recently used session.
LEMMA ClosePromise ==
    ASSUME HeldOne, NEW r \in Requests, UNCHANGED <<users, pwReqs, emReqs, token, committed>>,
           sessions' = sessions \ held[r]
    PROVE  [Promise!Next]_(Promise!vars)
<1>1. SpentTokens' = SpentTokens
  BY DEF SpentTokens
<1>2. CASE sessions' = sessions
  BY <1>2, Unseen
<1>3. CASE sessions' # sessions
  <2>1. PICK s \in sessions : sessions' = sessions \ {s}
    BY <1>3 DEF HeldOne
  <2> DEFINE g == [kind |-> "session", row |-> s]
  <2>2. g \in AllGrants(sessions, pwReqs, emReqs) /\ g.kind = "session"
    BY DEF AllGrants, Wrap
  <2>3. AllGrants(sessions, pwReqs, emReqs)' = AllGrants(sessions, pwReqs, emReqs) \ {g}
    BY <2>1 DEF AllGrants, Wrap
  <2>4. Promise!Close(g)
    BY <1>1, <2>2, <2>3 DEF Promise!Close
  <2> QED BY <2>2, <2>4 DEF Promise!Next
<1> QED BY <1>2, <1>3

\* A login or a reset request: what its row says is current unless raced.
LEMMA OpenPromise ==
    ASSUME TokenInv, DataTypeOK, NEW r \in Requests, UNCHANGED <<users, token, committed>>,
           ~Settled(r),
           NEW x \in users, NEW kind, NEW row, row.id = r, row.user = x.id,
           row.raced \/ IF kind = "pw" THEN row.addr = x.email ELSE row.via = x.hash,
           AllGrants(sessions, pwReqs, emReqs)' =
               AllGrants(sessions, pwReqs, emReqs) \cup {[kind |-> kind, row |-> row]}
    PROVE  Promise!Next
<1> DEFINE g == [kind |-> kind, row |-> row]
<1>1. SpentTokens' = SpentTokens
  BY DEF SpentTokens
<1>2. r \notin SpentTokens
  BY DEF SpentTokens, TokenInv, IdInv, FreshIds, DataTypeOK
<1>3. g.row = row /\ g.kind = kind
  OBVIOUS
<1>4. Promise!Open(x, g)
  BY <1>1, <1>2, <1>3 DEF Promise!Open, Promise!Fresh
<1> QED BY <1>4 DEF Promise!Next

\* A commit replaces the account it has written.
LEMMA CommitPromise ==
    ASSUME ResetInv, TokenInv, TokenInv', NEW r \in Requests, CommitReset(r)
    PROVE  Promise!Next
<1> DEFINE before == AllGrants(sessions, pwReqs, emReqs)
           after  == AllGrants(sessions', pwReqs', emReqs')
<1>1. /\ UNCHANGED <<op, account, token>> /\ pc[r] = "commit"
      /\ users' = {z \in users : \A v \in tx[r].wrote : v.id # z.id} \cup tx[r].wrote
      /\ sessions' = sessions \ tx[r].sess
      /\ pwReqs' = pwReqs \ tx[r].pw /\ emReqs' = emReqs \ tx[r].em
      /\ committed' = committed \cup {r}
  BY DEF CommitReset, Commit, At
<1>2. PICK w \in tx[r].wrote, x \in users :
        /\ x.id = w.id /\ x.active = w.active
        /\ op[r] # "email_token" => w.email = x.email
        /\ op[r] = "email_token" => w.hash = x.hash /\ token[r] # {}
  BY <1>1 DEF TokenInv, TxInv, Written, WroteSteps
<1>3. PICK a \in account[r] : a.id = x.id /\ \A v \in account[r] : v = a
  BY <1>2 DEF ResetInv, Writes, Snapshots
<1>4. /\ tx[r].wrote = {w}
      /\ \A z \in users : z.id = x.id => z = x
  BY <1>2 DEF ResetInv, Writes, OneUserPerEmail, UniqueUsers
<1>5. users' = (users \ {x}) \cup {w} /\ w \in users'
  BY <1>1, <1>2, <1>4
<1>6. \A z \in users \ {x} : z.email # w.email
  BY <1>2, <1>4 DEF ResetInv, Locks
<1>7. after \subseteq before
  BY <1>1 DEF AllGrants, Wrap
<1>8. \A g \in after : g.row.user = x.id => g.row.raced
  BY <1>3, CommitWipes DEF AllGrants, Wrap, OfUser
<1>9. \A g \in before \ after : g.row.user = x.id
  <2>1. \A row \in tx[r].sess \cup tx[r].pw \cup tx[r].em : row.user = x.id
    BY <1>3 DEF TokenInv, TxInv, OwnRows
  <2> QED BY <1>1, <2>1 DEF AllGrants, Wrap
<1>10. Promise!Replace(x, w)
  BY <1>2, <1>5, <1>6, <1>7, <1>8, <1>9 DEF Promise!Replace
<1>11. SpentTokens' = SpentTokens \cup token[r]
  BY <1>1 DEF SpentTokens
<1>12. CASE token[r] = {}
  <2>1. Promise!ChangePassword(x, w)
    BY <1>2, <1>10, <1>11, <1>12 DEF Promise!ChangePassword
  <2> QED BY <1>5, <2>1 DEF Promise!Next
<1>13. CASE token[r] # {}
  <2>1. HeldBy(r)
    BY <1>1, <1>13 DEF TokenInv, IdInv, TokenHeld, WroteSteps
  <2>2. PICK kind \in {"pw", "em"}, t \in pwReqs \cup emReqs :
          /\ token[r] = {t.id} /\ [kind |-> kind, row |-> t] \in before
          /\ t \in tx[r].pw \cup tx[r].em
          /\ \/ kind = "pw" /\ op[r] = "password_token"
             \/ kind = "em" /\ op[r] = "email_token" /\ w.email = t.newEmail
    BY <1>2, <2>1 DEF HeldBy, AllGrants, Wrap
  <2> DEFINE g == [kind |-> kind, row |-> t]
  <2>3. t.user = x.id
    BY <1>3, <2>2 DEF TokenInv, TxInv, OwnRows
  <2>4. g \in Promise!Of(x)
    BY <2>2, <2>3 DEF Promise!Of
  <2>5. \A h \in after : h.row.id # t.id
    <3>1. \A row \in pwReqs' \cup emReqs' : row.id # t.id
      BY <1>1, <2>2 DEF TokenInv, IdInv, Ended
    <3>2. \A row \in sessions' : row.id # t.id
      BY <1>1, <2>2 DEF TokenInv, IdInv, FreshIds, DistinctIds
    <3> QED BY <3>1, <3>2 DEF AllGrants, Wrap
  <2>6. Promise!SpendToken(x, w, g)
    BY <1>2, <1>10, <1>11, <2>2, <2>4, <2>5 DEF Promise!SpendToken
  <2> QED BY <1>5, <2>2, <2>6 DEF Promise!Next
<1> QED BY <1>12, <1>13

\* The other steps that change a table.
LEMMA RowPromise ==
    ASSUME ResetInv, TokenInv, HeldOne, NEW r \in Requests,
           \/ CreateUser(r) \/ InsertSession(r) \/ InsertPwReq(r) \/ InsertEmReq(r)
           \/ DropSession(r) \/ DeleteLru(r) \/ Deactivate(r)
    PROVE  [Promise!Next]_(Promise!vars)
<1>0. DataTypeOK
  BY DEF ResetInv
<1>1. CASE CreateUser(r)
  <2>1. UNCHANGED <<sessions, pwReqs, emReqs, token, committed>>
    BY <1>1 DEF CreateUser
  <2>2. CASE UNCHANGED users
    BY <2>1, <2>2, Unseen
  <2>3. CASE ~UNCHANGED users
    <3>1. PICK e \in Emails, u \in UserIds, p \in Passwords :
             LET row == [id |-> u, email |-> e, hash |-> p, active |-> TRUE]
             IN  /\ GetUserByEmail(e) = {} /\ GetUserByID(u) = {}
                 /\ users' = users \cup {row}
      BY <1>1, <2>3 DEF CreateUser
    <3> DEFINE x == [id |-> u, email |-> e, hash |-> p, active |-> TRUE]
    <3>2. Promise!SignUp(x)
      BY <2>1, <3>1 DEF Promise!SignUp, GetUserByID, GetUserByEmail, SpentTokens
    <3> QED BY <3>1, <3>2 DEF Promise!Next
  <2> QED BY <2>2, <2>3
<1>2. CASE InsertSession(r) \/ InsertPwReq(r) \/ InsertEmReq(r)
  <2>1. /\ UNCHANGED <<users, token, committed>> /\ ~Settled(r)
        /\ \E w \in account[r] : TRUE
    BY <1>2 DEF InsertSession, InsertPwReq, InsertEmReq, At, Settled, After
  <2>2. PICK w \in account[r] : \A v \in account[r] : v = w
    BY <2>1 DEF ResetInv, Snapshots
  <2>3. PICK x \in users : x.id = w.id
    BY <2>2 DEF ResetInv, Snapshots
  <2>4. ~raced[r] => x.hash = w.hash /\ x.email = w.email
    BY <2>2, <2>3 DEF ResetInv, Snapshots
  <2>5. CASE InsertSession(r)
    <3> DEFINE row == [id |-> r, user |-> w.id, via |-> w.hash,
                       raced |-> Overtaken(r, w.id, {"del_pw", "del_em", "commit"})]
    <3>1. sessions' = sessions \cup {row} /\ UNCHANGED <<pwReqs, emReqs>>
      BY <2>2, <2>5 DEF InsertSession
    <3>2. /\ row.id = r /\ row.user = x.id
          /\ row.raced \/ IF "session" = "pw" THEN row.addr = x.email ELSE row.via = x.hash
      BY <2>3, <2>4 DEF Overtaken
    <3>3. AllGrants(sessions, pwReqs, emReqs)' =
             AllGrants(sessions, pwReqs, emReqs) \cup {[kind |-> "session", row |-> row]}
      BY <3>1 DEF AllGrants, Wrap
    <3> HIDE DEF row
    <3> QED BY <1>0, <2>1, <3>2, <3>3, OpenPromise
  <2>6. CASE InsertPwReq(r)
    <3> DEFINE row == [id |-> r, user |-> w.id, addr |-> w.email,
                       raced |-> Overtaken(r, w.id, {"del_em", "commit"})]
    <3>1. pwReqs' = pwReqs \cup {row} /\ UNCHANGED <<sessions, emReqs>>
      BY <2>2, <2>6 DEF InsertPwReq
    <3>2. /\ row.id = r /\ row.user = x.id
          /\ row.raced \/ IF "pw" = "pw" THEN row.addr = x.email ELSE row.via = x.hash
      BY <2>3, <2>4 DEF Overtaken
    <3>3. AllGrants(sessions, pwReqs, emReqs)' =
             AllGrants(sessions, pwReqs, emReqs) \cup {[kind |-> "pw", row |-> row]}
      BY <3>1 DEF AllGrants, Wrap
    <3> HIDE DEF row
    <3> QED BY <1>0, <2>1, <3>2, <3>3, OpenPromise
  <2>7. CASE InsertEmReq(r)
    <3>1. PICK e \in newEmail[r] : emReqs' = emReqs \cup
             {[id |-> r, user |-> w.id, newEmail |-> e, via |-> w.hash,
               raced |-> Overtaken(r, w.id, {"commit"})]}
      BY <2>2, <2>7 DEF InsertEmReq
    <3> DEFINE row == [id |-> r, user |-> w.id, newEmail |-> e, via |-> w.hash,
                       raced |-> Overtaken(r, w.id, {"commit"})]
    <3>2. UNCHANGED <<sessions, pwReqs>>
      BY <2>7 DEF InsertEmReq
    <3>3. /\ row.id = r /\ row.user = x.id
          /\ row.raced \/ IF "em" = "pw" THEN row.addr = x.email ELSE row.via = x.hash
      BY <2>3, <2>4 DEF Overtaken
    <3>4. AllGrants(sessions, pwReqs, emReqs)' =
             AllGrants(sessions, pwReqs, emReqs) \cup {[kind |-> "em", row |-> row]}
      BY <3>1, <3>2 DEF AllGrants, Wrap
    <3> HIDE DEF row
    <3> QED BY <1>0, <2>1, <3>3, <3>4, OpenPromise
  <2> QED BY <1>2, <2>5, <2>6, <2>7
<1>3. CASE DropSession(r) \/ DeleteLru(r)
  BY <1>3, ClosePromise DEF DropSession, DeleteLru, DeleteSession
<1>4. CASE Deactivate(r)
  <2>1. UNCHANGED <<sessions, pwReqs, emReqs, token, committed>>
    BY <1>4 DEF Deactivate, rest
  <2>2. PICK x \in users : users' = (users \ {x}) \cup {[x EXCEPT !.active = FALSE]}
    BY <1>4 DEF Deactivate
  <2> DEFINE y == [x EXCEPT !.active = FALSE]
  <2>3. y.id = x.id /\ y.email = x.email /\ y.hash = x.hash /\ ~y.active
    BY <1>0 DEF DataTypeOK, DbTypeOK, UserRow
  <2>4. Promise!Deactivate(x, y)
    BY <2>1, <2>2, <2>3 DEF Promise!Deactivate, SpentTokens
  <2>5. y \in users'
    BY <2>2
  <2> QED BY <2>4, <2>5 DEF Promise!Next
<1> QED BY <1>1, <1>2, <1>3, <1>4

\* Every step is a step of the promise or is not seen.
LEMMA StepPromise ==
    ASSUME ResetInv, TokenInv, TokenInv', HeldOne, [Next]_vars
    PROVE  [Promise!Next]_(Promise!vars)
<1>1. ASSUME NEW r \in Requests, Work(r),
             \/ CreateUser(r) \/ InsertSession(r) \/ InsertPwReq(r) \/ InsertEmReq(r)
             \/ DropSession(r) \/ DeleteLru(r) \/ Deactivate(r) \/ CommitReset(r)
      PROVE  [Promise!Next]_(Promise!vars)
  BY <1>1, RowPromise, CommitPromise
<1>2. ASSUME NEW r \in Requests, ConsumePw(r) \/ ConsumeEm(r)
      PROVE  [Promise!Next]_(Promise!vars)
  <2>1. /\ UNCHANGED <<users, sessions, pwReqs, emReqs, committed>> /\ pc[r] = "consume"
        /\ \A o \in Requests \ {r} : token'[o] = token[o]
    BY <1>2 DEF ConsumePw, ConsumeEm, At, ResetInv, DataTypeOK
  <2>2. \A o \in committed : o # r /\ token'[o] = token[o]
    BY <2>1 DEF TokenInv, IdInv, Ended, ResetInv, DataTypeOK
  <2> QED BY <2>1, <2>2, Unseen
<1>3. ASSUME NEW r \in Requests,
             \/ Arrive(r) \/ Fail(r) \/ FindSession(r) \/ FetchAccount(r) \/ FindUser(r)
             \/ BeginHash(r) \/ HashingBusy(r) \/ EndVerify(r) \/ EndHash(r)
             \/ CountSessions(r) \/ PickLru(r) \/ CheckEmail(r) \/ MailLink(r)
             \/ MailWarning(r) \/ RefuseToken(r) \/ Update(r) \/ DeleteSessions(r)
             \/ DeletePwReqs(r) \/ DeleteEmReqs(r) \/ Notify(r) \/ DeadlockVictim(r)
      PROVE  [Promise!Next]_(Promise!vars)
  <2>1. UNCHANGED <<users, sessions, pwReqs, emReqs, token, committed>>
    BY <1>3 DEF Arrive, Fail, FindSession, FetchAccount, FindUser, BeginHash, HashingBusy,
       EndVerify, EndHash, CountSessions, PickLru, CheckEmail, MailLink, MailWarning,
       RefuseToken, Update, DeleteSessions, DeletePwReqs, DeleteEmReqs, Notify,
       DeadlockVictim, Rollback, rest, db
  <2> QED BY <2>1, Unseen
<1>4. CASE UNCHANGED vars
  BY <1>4, Unseen DEF vars, rest, db
<1> QED BY <1>1, <1>2, <1>3, <1>4 DEF Next, Quiesced, Work

-----------------------------------------------------------------------------
\* Whatever requests interleave, fail or deadlock, a reset is one step.
THEOREM KeepsPromiseHolds == Spec => KeepsPromise
<1>1. DataTypeOK /\ HeldOne /\ [Next]_vars => HeldOne'
  BY StepKeepsHeldOne
<1>2. ResetInv => DataTypeOK
  BY DEF ResetInv
<1>3. Spec => [](ResetInv /\ TokenInv /\ HeldOne)
  BY <1>1, <1>2, InitHeldOne, AlwaysTokenInv, PTL DEF Spec
<1>4. ResetInv /\ TokenInv /\ TokenInv' /\ HeldOne /\ [Next]_vars
        => [Promise!Next]_(Promise!vars)
  BY StepPromise
<1> QED BY <1>3, <1>4, InitPromise, PTL DEF Spec, KeepsPromise, Promise!Spec

-----------------------------------------------------------------------------
\* The grants of the promise.
Grants == AllGrants(sessions, pwReqs, emReqs)

\* A reset leaves of the account's grants raced ones only, and no grant of
\* another account changes.
LEMMA PromiseReplaceKeeps ==
    ASSUME Promise!Kept, NEW x \in users, NEW y, Promise!Replace(x, y)
    PROVE  (Promise!Unique /\ Promise!Owned /\ Promise!FreshUnlessRaced)'
<1> USE DEF Promise!Kept, Promise!Replace, Grants
<1>1. Promise!Unique'
  BY DEF Promise!Unique
<1>2. Promise!Owned'
  BY DEF Promise!Owned
<1>3. Promise!FreshUnlessRaced'
  BY DEF Promise!FreshUnlessRaced, Promise!Of, Promise!Fresh
<1> QED BY <1>1, <1>2, <1>3

\* Every step of the promise keeps what it promises.
LEMMA PromiseStepKeeps == Promise!Kept /\ [Promise!Next]_(Promise!vars) => Promise!Kept'
<1> SUFFICES ASSUME Promise!Kept, [Promise!Next]_(Promise!vars) PROVE Promise!Kept'
  OBVIOUS
<1> USE DEF Promise!Kept, Grants
<1>1. ASSUME NEW x \in users', Promise!SignUp(x) PROVE Promise!Kept'
  <2>1. Promise!Unique'
    BY <1>1 DEF Promise!SignUp, Promise!Unique
  <2>2. Promise!Owned' /\ Promise!SpentGone'
    BY <1>1 DEF Promise!SignUp, Promise!Owned, Promise!SpentGone
  <2>3. Promise!FreshUnlessRaced'
    BY <1>1 DEF Promise!SignUp, Promise!FreshUnlessRaced, Promise!Of, Promise!Fresh,
       Promise!Owned
  <2> QED BY <2>1, <2>2, <2>3
<1>2. ASSUME NEW g \in Grants', NEW x \in users, Promise!Open(x, g)
      PROVE  Promise!Kept'
  <2>1. Promise!Unique' /\ Promise!Owned' /\ Promise!SpentGone'
    BY <1>2 DEF Promise!Open, Promise!Unique, Promise!Owned, Promise!SpentGone
  <2>2. Promise!FreshUnlessRaced'
    BY <1>2 DEF Promise!Open, Promise!FreshUnlessRaced, Promise!Of, Promise!Fresh,
       Promise!Unique
  <2> QED BY <2>1, <2>2
<1>3. ASSUME NEW g \in Grants, Promise!Close(g) PROVE Promise!Kept'
  BY <1>3 DEF Promise!Close, Promise!Unique, Promise!Owned, Promise!SpentGone,
     Promise!FreshUnlessRaced, Promise!Of, Promise!Fresh
<1>4. ASSUME NEW x \in users, NEW y \in users', Promise!ChangePassword(x, y) PROVE Promise!Kept'
  <2>1. Promise!SpentGone'
    BY <1>4 DEF Promise!ChangePassword, Promise!Replace, Promise!SpentGone
  <2> QED BY <1>4, <2>1, PromiseReplaceKeeps DEF Promise!ChangePassword
<1>5. ASSUME NEW x \in users, NEW y \in users', NEW t \in Grants,
             Promise!SpendToken(x, y, t)
      PROVE  Promise!Kept'
  <2>1. Promise!SpentGone'
    BY <1>5 DEF Promise!SpendToken, Promise!Replace, Promise!SpentGone
  <2> QED BY <1>5, <2>1, PromiseReplaceKeeps DEF Promise!SpendToken
<1>6. ASSUME NEW x \in users, NEW y \in users', Promise!Deactivate(x, y) PROVE Promise!Kept'
  <2>1. Promise!Unique' /\ Promise!Owned' /\ Promise!SpentGone'
    BY <1>6 DEF Promise!Deactivate, Promise!Unique, Promise!Owned, Promise!SpentGone
  <2>2. Promise!FreshUnlessRaced'
    BY <1>6 DEF Promise!Deactivate, Promise!FreshUnlessRaced, Promise!Of, Promise!Fresh
  <2> QED BY <2>1, <2>2
<1>7. CASE UNCHANGED Promise!vars
  BY <1>7 DEF Promise!vars, Promise!Unique, Promise!Owned, Promise!SpentGone,
     Promise!FreshUnlessRaced, Promise!Of, Promise!Fresh
<1> QED BY <1>1, <1>2, <1>3, <1>4, <1>5, <1>6, <1>7 DEF Promise!Next, Grants

\* An account's emails and ids stay unique, a grant no reset overlapped opens
\* the account as it is now, and a spent token opens nothing again: of the
\* service, because its promise says so.
THEOREM PromiseKept == Spec => []Promise!Kept
<1>1. Promise!Init => Promise!Kept
  BY DEF Promise!Init
<1> QED BY <1>1, KeepsPromiseHolds, PromiseStepKeeps, PTL DEF KeepsPromise, Promise!Spec
=============================================================================
