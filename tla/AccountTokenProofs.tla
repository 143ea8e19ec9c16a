-------------------------- MODULE AccountTokenProofs --------------------------
(***************************************************************************)
(* A token is spent by one committed reset, survives a reset that fails,   *)
(* and is what every deadlock of two resets involves.                      *)
(*                                                                         *)
(* All rest on the token of a reset staying in its table, locked, until    *)
(* that reset ends (TokenHeld).  Only a commit deletes tokens, and it has  *)
(* waited until no other transaction holds a row it deletes (Exclusive):   *)
(* a reset that starts afterwards locks rows of another account (OwnRows,  *)
(* with Locks) or a row no transaction holds.                              *)
(***************************************************************************)
EXTENDS AccountServiceProofs

TokenOps == {"password_token", "email_token"}

\* Where a reset by token has consumed its token and written nothing yet.
Early == {"hash", "hashing", "update"}

\* Where a request that inserted a row is afterwards.
After == {"mail_link", "mail_warning", "ok", "failed"}

\* What a request has in its transaction before the four last statements.
TxShape == \A r \in Requests :
    /\ token[r] # {} => /\ op[r] \in TokenOps
                        /\ pc[r] \in Early \cup WroteSteps \cup {"notify", "ok", "failed"}
    /\ pc[r] \notin WroteSteps =>
           /\ tx[r].sess = {}
           /\ tx[r].pw # {} => token[r] # {} /\ pc[r] \in Early /\ op[r] = "password_token"
           /\ tx[r].em # {} => token[r] # {} /\ pc[r] \in Early /\ op[r] = "email_token"

\* A transaction locks rows of one account.
OwnRows == \A r \in Requests : \A row \in tx[r].sess \cup tx[r].pw \cup tx[r].em :
    \E w \in account[r] : w.id = row.user

\* What a transaction has written differs from the row of users as it should.
Written == \A r \in Requests : pc[r] \in WroteSteps =>
    \E w \in tx[r].wrote, x \in users :
        /\ x.id = w.id /\ x.active = w.active
        /\ op[r] # "email_token" => w.email = x.email
        /\ op[r] = "email_token" => w.hash = x.hash /\ token[r] # {}

\* A reset about to commit shares no password token with another transaction.
Exclusive == \A r, o \in Requests : pc[r] = "commit" /\ r # o => tx[r].pw \cap tx[o].pw = {}

TxInv == TxShape /\ OwnRows /\ Written /\ Exclusive

\* No id is drawn twice.
Settled(i) == i \in Requests => pc[i] \in After
FreshIds ==
    /\ DistinctIds(sessions, pwReqs, emReqs)
    /\ \A row \in sessions \cup pwReqs \cup emReqs : Settled(row.id)
    /\ \A r \in Requests : \A i \in token[r] : Settled(i)

\* The token of a reset under way is in its table, locked.
HeldBy(r) ==
    \/ /\ op[r] = "password_token"
       /\ \E t \in tx[r].pw : token[r] = {t.id} /\ t \in pwReqs
    \/ /\ op[r] = "email_token"
       /\ \E t \in tx[r].em : /\ token[r] = {t.id} /\ t \in emReqs
                              /\ pc[r] \in Early => pc[r] = "update" /\ tx[r].em = {t}
                              /\ \A w \in tx[r].wrote : w.email = t.newEmail
TokenHeld == \A r \in Requests : token[r] # {} /\ pc[r] \in Early \cup WroteSteps => HeldBy(r)

\* The token of a committed reset is in no table.
Ended ==
    /\ \A r \in committed : pc[r] \in {"notify", "ok", "failed"}
    /\ \A r \in committed : \A row \in pwReqs \cup emReqs : row.id \notin token[r]

\* The token of any other is there unless a reset of its account committed.
Lasts == \A r \in Requests \ committed : \A t \in token[r] :
    \/ \E row \in pwReqs \cup emReqs : row.id = t /\ \E w \in account[r] : w.id = row.user
    \/ \E o \in committed : \E w \in account[r], v \in account[o] : v.id = w.id

IdInv    == FreshIds /\ TokenHeld /\ Ended /\ Lasts /\ TokenSpentOnce
TokenInv == TxInv /\ IdInv
-----------------------------------------------------------------------------
(***************************************************************************)
(* The transactions.                                                       *)
(***************************************************************************)

\* Steps of r outside the four last statements that leave the transactions and
\* the rows of users another one has written alone.
LEMMA QuietTx ==
    ASSUME TxInv, DataTypeOK, DataTypeOK', NEW r \in Requests, UNCHANGED <<tx, token>>,
           pc[r] \notin WroteSteps, NEW step \in Steps \ WroteSteps, Goto(r, step),
           \A o \in Requests \ {r} : op'[o] = op[o] /\ account'[o] = account[o],
           \/ token[r] = {} /\ pc[r] \notin Early
           \/ token[r] = {} /\ op'[r] = op[r]
           \/ /\ op'[r] = op[r] /\ account'[r] = account[r]
              /\ step \in Early \cup {"notify", "ok", "failed"}
              /\ pc[r] \in Early => step \in Early,
           \A o \in Requests \ {r} : \A w \in tx[o].wrote : \A x \in users :
               x.id = w.id => x \in users'
    PROVE  TxInv'
<1> USE DEF TxInv
<1>1. /\ pc'[r] = step /\ \A o \in Requests \ {r} : pc'[o] = pc[o]
      /\ \A o \in Requests : tx'[o] = tx[o] /\ token'[o] = token[o]
  BY DEF Goto, DataTypeOK
<1>2. TxShape'
  BY <1>1 DEF TxShape
<1>3. OwnRows'
  BY <1>1 DEF OwnRows, TxShape
<1>4. Written'
  BY <1>1 DEF Written
<1>5. Exclusive'
  BY <1>1 DEF Exclusive, WroteSteps
<1> QED BY <1>2, <1>3, <1>4, <1>5

\* A step that drops the transaction of r.
LEMMA DropTx ==
    ASSUME TxInv, DataTypeOK, DataTypeOK', NEW r \in Requests,
           UNCHANGED <<users, op, account, token>>,
           tx' = [tx EXCEPT ![r] = NoTx], NEW step \in {"ok", "failed"}, Goto(r, step)
    PROVE  TxInv'
<1> USE DEF TxInv
<1>1. /\ pc'[r] = step /\ \A o \in Requests \ {r} : pc'[o] = pc[o] /\ tx'[o] = tx[o]
      /\ tx'[r].sess = {} /\ tx'[r].pw = {} /\ tx'[r].em = {}
  BY DEF Goto, DataTypeOK, DbTypeOK, NoTx
<1>2. TxShape'
  BY <1>1 DEF TxShape, WroteSteps
<1>3. OwnRows'
  BY <1>1 DEF OwnRows
<1>4. Written'
  BY <1>1 DEF Written, WroteSteps
<1>5. Exclusive'
  BY <1>1 DEF Exclusive
<1> QED BY <1>2, <1>3, <1>4, <1>5

\* A reset consumes its token, which no other transaction has locked.
LEMMA ConsumeTx ==
    ASSUME TxInv, ResetInv, DataTypeOK', NEW r \in Requests, ConsumePw(r) \/ ConsumeEm(r)
    PROVE  TxInv'
<1> USE DEF TxInv
<1>0. DataTypeOK
  BY DEF ResetInv
<1>1. /\ pc[r] = "consume" /\ token[r] = {}
      /\ tx[r].sess = {} /\ tx[r].pw = {} /\ tx[r].em = {}
      /\ UNCHANGED <<users, op>>
  BY DEF ConsumePw, ConsumeEm, At, TxShape, Early, WroteSteps
<1>2. PICK t : /\ t \in pwReqs \cup emReqs /\ token' = [token EXCEPT ![r] = {t.id}]
               /\ account' = [account EXCEPT ![r] = GetUserByID(t.user)]
               /\ \/ /\ op[r] = "password_token" /\ tx' = [tx EXCEPT ![r].pw = {t}]
                     /\ PwHolders({t}, r) = {} /\ pc' = [pc EXCEPT ![r] = "hash"]
                  \/ /\ op[r] = "email_token" /\ tx' = [tx EXCEPT ![r].em = {t}]
                     /\ pc' = [pc EXCEPT ![r] = "update"]
  BY DEF ConsumePw, ConsumeEm, Goto
<1>3. /\ \A o \in Requests \ {r} : /\ pc'[o] = pc[o] /\ tx'[o] = tx[o] /\ token'[o] = token[o]
                                   /\ account'[o] = account[o]
      /\ token'[r] = {t.id} /\ account'[r] = GetUserByID(t.user) /\ tx'[r].sess = {}
  BY <1>0, <1>1, <1>2 DEF DataTypeOK, DbTypeOK, TxState
<1>4. \/ /\ op[r] = "password_token" /\ tx'[r].pw = {t} /\ tx'[r].em = {} /\ pc'[r] = "hash"
         /\ PwHolders({t}, r) = {}
      \/ op[r] = "email_token" /\ tx'[r].em = {t} /\ tx'[r].pw = {} /\ pc'[r] = "update"
  <2>1. CASE op[r] = "password_token"
    <3>1. /\ tx' = [tx EXCEPT ![r].pw = {t}] /\ pc' = [pc EXCEPT ![r] = "hash"]
          /\ PwHolders({t}, r) = {}
      BY <1>2, <2>1
    <3>2. tx'[r].pw = {t} /\ tx'[r].em = {} /\ pc'[r] = "hash"
      BY <1>0, <1>1, <3>1 DEF DataTypeOK, DbTypeOK, TxState
    <3> QED BY <2>1, <3>1, <3>2
  <2>2. CASE op[r] = "email_token"
    BY <1>0, <1>1, <1>2, <2>2 DEF DataTypeOK, DbTypeOK, TxState
  <2> QED BY <1>2, <2>1, <2>2
<1>5. TxShape'
  BY <1>1, <1>3, <1>4 DEF TxShape, TokenOps, Early, WroteSteps
<1>6. \E w \in account'[r] : w.id = t.user
  BY <1>2, <1>3 DEF ResetInv, ForeignKeys, GetUserByID
<1>7. OwnRows'
  BY <1>3, <1>4, <1>6 DEF OwnRows
<1>8. Written'
  BY <1>1, <1>3, <1>4 DEF Written, WroteSteps
<1>9. \A o \in Requests \ {r} : tx[o].pw \cap tx'[r].pw = {}
  BY <1>4 DEF PwHolders, Others
<1>10. Exclusive'
  BY <1>3, <1>4, <1>9 DEF Exclusive
<1> QED BY <1>5, <1>7, <1>8, <1>10

\* Two transactions that have updated users have updated different accounts.
LEMMA ApartAccounts ==
    ASSUME TxInv, ResetInv, NEW r \in Requests, NEW o \in Requests, r # o,
           pc[r] \in WroteSteps, pc[o] \in WroteSteps,
           NEW w \in account[r], NEW v \in account[o]
    PROVE  w.id # v.id
<1>1. PICK x \in tx[r].wrote, y \in tx[o].wrote : TRUE
  BY DEF TxInv, Written
<1>2. x.id = w.id /\ y.id = v.id
  BY DEF ResetInv, Writes, Snapshots
<1> QED BY <1>1, <1>2 DEF ResetInv, Locks

\* The UPDATE of users.
LEMMA UpdateTx ==
    ASSUME TxInv, ResetInv, DataTypeOK', NEW r \in Requests, Update(r)
    PROVE  TxInv'
<1> USE DEF TxInv
<1>0. DataTypeOK
  BY DEF ResetInv
<1>1. pc[r] = "update" /\ UNCHANGED <<users, op, account, token>>
  BY DEF Update, At, rest
<1>2. CASE tx' = [tx EXCEPT ![r] = NoTx] /\ Goto(r, "failed")
  BY <1>0, <1>1, <1>2, DropTx
<1>3. CASE ~(tx' = [tx EXCEPT ![r] = NoTx] /\ Goto(r, "failed"))
  <2>1. PICK x \in users, y \in UserRow :
           /\ tx' = [tx EXCEPT ![r].wrote = {y}] /\ pc' = [pc EXCEPT ![r] = "del_sessions"]
           /\ y.id = x.id /\ y.active = x.active
           /\ op[r] # "email_token" => y.email = x.email
           /\ op[r] = "email_token" => y.hash = x.hash /\ tx[r].em # {}
    <3>1. PICK x \in users :
             \/ /\ op[r] # "email_token"
                /\ \E p \in Passwords : tx' = [tx EXCEPT ![r].wrote = {[x EXCEPT !.hash = p]}]
                /\ Goto(r, "del_sessions")
             \/ \E t \in tx[r].em :
                  /\ tx' = [tx EXCEPT ![r].wrote = {[x EXCEPT !.email = t.newEmail]}]
                  /\ Goto(r, "del_sessions")
      BY <1>3 DEF Update, GetUserByID
    <3>2. x \in UserRow /\ tx[r].em \subseteq EmReqRow
      BY <1>0 DEF DataTypeOK, DbTypeOK, TxState
    <3>3. ASSUME NEW p \in Passwords
          PROVE  /\ [x EXCEPT !.hash = p] \in UserRow /\ [x EXCEPT !.hash = p].id = x.id
                 /\ [x EXCEPT !.hash = p].active = x.active
                 /\ [x EXCEPT !.hash = p].email = x.email
      BY <3>2 DEF UserRow
    <3>4. ASSUME NEW t \in tx[r].em
          PROVE  LET y == [x EXCEPT !.email = t.newEmail]
                 IN  /\ y \in UserRow /\ y.id = x.id /\ y.active = x.active
                     /\ y.hash = x.hash
      BY <3>2 DEF UserRow, EmReqRow
    <3>5. tx[r].em # {} => op[r] = "email_token"
      BY <1>1 DEF TxShape, WroteSteps
    <3> QED BY <3>1, <3>3, <3>4, <3>5 DEF Goto
  <2>2. /\ pc'[r] = "del_sessions" /\ tx'[r].wrote = {y} /\ tx'[r].sess = tx[r].sess
        /\ tx'[r].pw = tx[r].pw /\ tx'[r].em = tx[r].em
        /\ \A o \in Requests \ {r} : pc'[o] = pc[o] /\ tx'[o] = tx[o]
    BY <1>0, <2>1 DEF DataTypeOK, DbTypeOK, TxState
  <2>3. TxShape'
    BY <1>1, <2>2 DEF TxShape, Early, WroteSteps
  <2>4. OwnRows'
    BY <1>1, <2>2 DEF OwnRows
  <2>5. tx[r].em # {} => token[r] # {}
    BY <1>1 DEF TxShape, WroteSteps
  <2>6. Written'
    BY <1>1, <2>1, <2>2, <2>5 DEF Written
  <2>7. Exclusive'
    BY <2>2 DEF Exclusive
  <2> QED BY <2>3, <2>4, <2>6, <2>7
<1> QED BY <1>2, <1>3

\* What each of the three DELETEs adds to the transaction.
LEMMA ClaimsAdd ==
    ASSUME ResetInv, NEW r \in Requests, DeleteSessions(r) \/ DeletePwReqs(r) \/ DeleteEmReqs(r)
    PROVE  /\ UNCHANGED <<users, sessions, pwReqs, emReqs, op, account, token, committed>>
           /\ pc[r] \in WroteSteps /\ pc'[r] \in WroteSteps
           /\ tx'[r].wrote = tx[r].wrote
           /\ \A o \in Requests \ {r} : pc'[o] = pc[o] /\ tx'[o] = tx[o]
           /\ \E w \in account[r] :
                 /\ tx'[r].sess \subseteq tx[r].sess \cup OfUser(sessions, w.id)
                 /\ tx[r].pw \subseteq tx'[r].pw
                 /\ tx'[r].pw \subseteq tx[r].pw \cup OfUser(pwReqs, w.id)
                 /\ tx[r].em \subseteq tx'[r].em
                 /\ tx'[r].em \subseteq tx[r].em \cup OfUser(emReqs, w.id)
           /\ pc'[r] = "commit" => /\ tx'[r].pw = tx[r].pw
                                   /\ PwHolders(tx[r].pw, r) = {}
<1> USE DEF ResetInv, DataTypeOK, DbTypeOK, TxState, Goto, At, WroteSteps, rest
<1>1. CASE DeleteSessions(r)
  BY <1>1 DEF DeleteSessions
<1>2. CASE DeletePwReqs(r)
  BY <1>2 DEF DeletePwReqs
<1>3. CASE DeleteEmReqs(r)
  BY <1>3 DEF DeleteEmReqs
<1> QED BY <1>1, <1>2, <1>3

\* The three DELETEs.
LEMMA ClaimTx ==
    ASSUME TxInv, ResetInv, NEW r \in Requests,
           DeleteSessions(r) \/ DeletePwReqs(r) \/ DeleteEmReqs(r)
    PROVE  TxInv'
<1> USE DEF TxInv
<1>1. /\ UNCHANGED <<users, sessions, pwReqs, emReqs, op, account, token, committed>>
      /\ pc[r] \in WroteSteps /\ pc'[r] \in WroteSteps
      /\ tx'[r].wrote = tx[r].wrote
      /\ \A o \in Requests \ {r} : pc'[o] = pc[o] /\ tx'[o] = tx[o]
  BY ClaimsAdd
<1>2. PICK w \in account[r] :
          /\ tx'[r].sess \subseteq tx[r].sess \cup OfUser(sessions, w.id)
          /\ tx'[r].pw \subseteq tx[r].pw \cup OfUser(pwReqs, w.id)
          /\ tx[r].em \subseteq tx'[r].em
          /\ tx'[r].em \subseteq tx[r].em \cup OfUser(emReqs, w.id)
  BY ClaimsAdd
<1>3. TxShape'
  BY <1>1 DEF TxShape
<1>4. OwnRows'
  BY <1>1, <1>2 DEF OwnRows, OfUser
<1>5. Written'
  BY <1>1, <1>2 DEF Written
<1>6. ASSUME NEW o \in Requests, o # r, pc[o] = "commit"
      PROVE  tx[o].pw \cap tx'[r].pw = {}
  <2>1. \A row \in tx[o].pw : row.user # w.id
    BY <1>1, <1>6, ApartAccounts DEF OwnRows, WroteSteps
  <2> QED BY <1>2, <1>6, <2>1 DEF OfUser, Exclusive
<1>7. ASSUME NEW o \in Requests, o # r, pc'[r] = "commit"
      PROVE  tx[o].pw \cap tx'[r].pw = {}
  BY <1>7, ClaimsAdd DEF PwHolders, Others
<1>8. Exclusive'
  BY <1>1, <1>6, <1>7 DEF Exclusive
<1> QED BY <1>3, <1>4, <1>5, <1>8

\* The commit.
LEMMA CommitTx ==
    ASSUME TxInv, ResetInv, NEW r \in Requests, CommitReset(r)
    PROVE  TxInv'
<1> USE DEF TxInv
<1>1. /\ UNCHANGED <<op, account, token>> /\ pc[r] = "commit"
      /\ users' = {x \in users : \A w \in tx[r].wrote : w.id # x.id} \cup tx[r].wrote
      /\ tx' = [tx EXCEPT ![r] = NoTx]
  BY DEF CommitReset, Commit, At
<1>2. /\ pc'[r] \in {"notify", "ok", "failed"}
      /\ tx'[r].sess = {} /\ tx'[r].pw = {} /\ tx'[r].em = {}
      /\ \A o \in Requests \ {r} : pc'[o] = pc[o] /\ tx'[o] = tx[o]
  BY <1>1 DEF ResetInv, DataTypeOK, DbTypeOK, NoTx, CommitReset, Goto
<1>3. TxShape'
  BY <1>1, <1>2 DEF TxShape, WroteSteps
<1>4. OwnRows'
  BY <1>1, <1>2 DEF OwnRows
<1>5. \A o \in Requests \ {r} : \A w \in tx[o].wrote, x \in users : x.id = w.id => x \in users'
  BY <1>1 DEF ResetInv, Locks
<1>6. Written'
  BY <1>1, <1>2, <1>5 DEF Written, WroteSteps
<1>7. Exclusive'
  BY <1>2 DEF Exclusive
<1> QED BY <1>3, <1>4, <1>6, <1>7

-----------------------------------------------------------------------------
(***************************************************************************)
(* The tokens.                                                             *)
(***************************************************************************)

\* Steps of r that insert nothing, delete no token and leave transactions alone.
LEMMA QuietIds ==
    ASSUME TokenInv, DataTypeOK, NEW r \in Requests,
           UNCHANGED <<pwReqs, emReqs, tx, token, committed>>, sessions' \subseteq sessions,
           pc[r] \notin WroteSteps, NEW step \in Steps \ WroteSteps, Goto(r, step),
           pc[r] \in After => step \in After,
           r \in committed => step \in {"notify", "ok", "failed"} /\ account'[r] = account[r],
           \A o \in Requests \ {r} : op'[o] = op[o] /\ account'[o] = account[o],
           token[r] # {} => /\ op'[r] = op[r] /\ account'[r] = account[r]
                            /\ step \in Early => pc[r] \in Early \ {"update"}
    PROVE  IdInv'
<1> USE DEF TokenInv, IdInv
<1>1. /\ pc'[r] = step /\ \A o \in Requests \ {r} : pc'[o] = pc[o]
      /\ \A o \in Requests : tx'[o] = tx[o] /\ token'[o] = token[o]
  BY DEF Goto, DataTypeOK
<1>2. FreshIds'
  <2>1. \A i : Settled(i) => Settled(i)'
    BY <1>1 DEF Settled
  <2>2. DistinctIds(sessions, pwReqs, emReqs)'
    BY DEF FreshIds, DistinctIds
  <2> QED BY <1>1, <2>1, <2>2 DEF FreshIds
<1>3. TokenHeld'
  <2> SUFFICES ASSUME NEW o \in Requests, token[o] # {}, pc'[o] \in Early \cup WroteSteps
               PROVE  HeldBy(o)'
    BY <1>1 DEF TokenHeld
  <2>1. pc[o] \in Early \cup WroteSteps /\ op'[o] = op[o]
    BY <1>1
  <2>2. HeldBy(o)
    BY <2>1 DEF TokenHeld
  <2>3. CASE o = r
    BY <1>1, <2>1, <2>2, <2>3 DEF HeldBy, Early
  <2>4. CASE o # r
    BY <1>1, <2>1, <2>2, <2>4 DEF HeldBy
  <2> QED BY <2>3, <2>4
<1>4. Ended'
  BY <1>1 DEF Ended, DataTypeOK
<1>5. Lasts'
  BY <1>1 DEF Lasts, DataTypeOK
<1>6. TokenSpentOnce'
  BY <1>1 DEF TokenSpentOnce, DataTypeOK
<1> QED BY <1>2, <1>3, <1>4, <1>5, <1>6

\* The INSERT of a session or a reset request, the only one r does.
LEMMA InsertIds ==
    ASSUME TokenInv, DataTypeOK, NEW r \in Requests,
           UNCHANGED <<tx, token, committed, op, account>>,
           pc[r] \in {"insert_session", "insert_pw", "insert_em"},
           NEW step \in After, Goto(r, step), NEW row, row.id = r,
           \/ sessions' = sessions \cup {row} /\ UNCHANGED <<pwReqs, emReqs>>
           \/ pwReqs' = pwReqs \cup {row} /\ UNCHANGED <<sessions, emReqs>>
           \/ emReqs' = emReqs \cup {row} /\ UNCHANGED <<sessions, pwReqs>>
    PROVE  IdInv'
<1> USE DEF TokenInv, IdInv
<1>1. /\ pc'[r] = step /\ \A o \in Requests \ {r} : pc'[o] = pc[o]
      /\ \A o \in Requests : tx'[o] = tx[o] /\ token'[o] = token[o]
  BY DEF Goto, DataTypeOK
<1>2. token[r] = {} /\ ~Settled(r) /\ Settled(r)' /\ r \notin committed
  BY <1>1 DEF TxInv, TxShape, Early, WroteSteps, Settled, After, Ended
<1>3. \A i : Settled(i) => Settled(i)' /\ i # r
  BY <1>1, <1>2 DEF Settled, After
<1>4. /\ \A z \in sessions \cup pwReqs \cup emReqs : z.id # r /\ Settled(z.id)'
      /\ \A o \in Requests : \A i \in token[o] : i # r /\ Settled(i)'
  BY <1>3 DEF FreshIds
<1>5. DistinctIds(sessions, pwReqs, emReqs)'
  BY <1>4 DEF FreshIds, DistinctIds
<1>6. FreshIds'
  BY <1>1, <1>2, <1>4, <1>5 DEF FreshIds
<1>7. TokenHeld'
  BY <1>1, <1>2 DEF TokenHeld, HeldBy
<1>8. Ended'
  BY <1>1, <1>2, <1>4 DEF Ended, DataTypeOK
<1>9. Lasts'
  BY <1>1 DEF Lasts, DataTypeOK
<1>10. TokenSpentOnce'
  BY <1>1 DEF TokenSpentOnce, DataTypeOK
<1> QED BY <1>6, <1>7, <1>8, <1>9, <1>10

\* A step that drops the transaction of r: the tables are as they were.
LEMMA DropIds ==
    ASSUME TokenInv, DataTypeOK, NEW r \in Requests,
           UNCHANGED <<sessions, pwReqs, emReqs, op, account, token, committed>>,
           tx' = [tx EXCEPT ![r] = NoTx], NEW step \in {"ok", "failed"}, Goto(r, step)
    PROVE  IdInv'
<1> USE DEF TokenInv, IdInv
<1>1. /\ pc'[r] = step /\ \A o \in Requests \ {r} : pc'[o] = pc[o] /\ tx'[o] = tx[o]
  BY DEF Goto, DataTypeOK, DbTypeOK
<1>2. \A i : Settled(i) => Settled(i)'
  BY <1>1 DEF Settled, After
<1>3. FreshIds'
  BY <1>2 DEF FreshIds
<1>4. TokenHeld'
  BY <1>1 DEF TokenHeld, HeldBy, Early, WroteSteps
<1>5. Ended'
  BY <1>1 DEF Ended, DataTypeOK
<1>6. Lasts'
  BY DEF Lasts
<1>7. TokenSpentOnce'
  BY DEF TokenSpentOnce
<1> QED BY <1>3, <1>4, <1>5, <1>6, <1>7

\* The consumption of a token, still in its table.
LEMMA ConsumeIds ==
    ASSUME TokenInv, ResetInv, NEW r \in Requests, ConsumePw(r) \/ ConsumeEm(r)
    PROVE  IdInv'
<1> USE DEF TokenInv, IdInv
<1>0. DataTypeOK
  BY DEF ResetInv
<1>1. /\ pc[r] = "consume" /\ UNCHANGED <<sessions, pwReqs, emReqs, op, committed>>
  BY DEF ConsumePw, ConsumeEm, At
<1>2. PICK t : /\ token' = [token EXCEPT ![r] = {t.id}]
               /\ account' = [account EXCEPT ![r] = GetUserByID(t.user)]
               /\ \/ /\ op[r] = "password_token" /\ tx' = [tx EXCEPT ![r].pw = {t}]
                     /\ t \in pwReqs /\ pc' = [pc EXCEPT ![r] = "hash"]
                  \/ /\ op[r] = "email_token" /\ tx' = [tx EXCEPT ![r].em = {t}]
                     /\ t \in emReqs /\ pc' = [pc EXCEPT ![r] = "update"]
  BY DEF ConsumePw, ConsumeEm, Goto
<1>3. /\ \A o \in Requests \ {r} : /\ pc'[o] = pc[o] /\ tx'[o] = tx[o] /\ token'[o] = token[o]
                                   /\ account'[o] = account[o]
      /\ token'[r] = {t.id} /\ account'[r] = GetUserByID(t.user)
      /\ pc'[r] \in Early
  BY <1>0, <1>1, <1>2 DEF DataTypeOK, DbTypeOK, TxState, Early
<1>4. t \in pwReqs \cup emReqs /\ Settled(t.id)
  BY <1>2 DEF FreshIds
<1>5. \A i : Settled(i) => Settled(i)'
  BY <1>1, <1>3 DEF Settled, After
<1>6. FreshIds'
  BY <1>1, <1>3, <1>4, <1>5 DEF FreshIds
<1>7. HeldBy(r)'
  <2>0. tx'[r].wrote = {}
    BY <1>0, <1>1, <1>2 DEF DataTypeOK, DbTypeOK, TxState, ResetInv, Writes, WroteSteps
  <2>1. CASE op[r] = "password_token"
    <3>1. tx'[r].pw = {t} /\ t \in pwReqs
      BY <1>0, <1>2, <2>1 DEF DataTypeOK, DbTypeOK, TxState
    <3> QED BY <1>1, <1>3, <2>1, <3>1 DEF HeldBy
  <2>2. CASE op[r] = "email_token"
    <3>1. tx'[r].em = {t} /\ t \in emReqs /\ pc'[r] = "update"
      BY <1>0, <1>2, <2>2 DEF DataTypeOK, DbTypeOK, TxState
    <3> QED BY <1>1, <1>3, <2>0, <2>2, <3>1 DEF HeldBy
  <2> QED BY <1>2, <2>1, <2>2
<1>8. TokenHeld'
  BY <1>1, <1>3, <1>7 DEF TokenHeld, HeldBy
<1>9. r \notin committed
  BY <1>1 DEF Ended
<1>10. Ended'
  BY <1>0, <1>1, <1>3, <1>9 DEF Ended, DataTypeOK
<1>11. \E w \in account'[r] : w.id = t.user
  BY <1>3, <1>4 DEF ResetInv, ForeignKeys, GetUserByID
<1>12. Lasts'
  BY <1>0, <1>1, <1>3, <1>4, <1>9, <1>11 DEF Lasts, DataTypeOK
<1>13. TokenSpentOnce'
  BY <1>0, <1>1, <1>3, <1>9 DEF TokenSpentOnce, DataTypeOK
<1> QED BY <1>6, <1>8, <1>10, <1>12, <1>13

\* The UPDATE and the DELETEs: they only add to the transaction of r.
LEMMA ResetIds ==
    ASSUME TokenInv, ResetInv, NEW r \in Requests,
           UNCHANGED <<sessions, pwReqs, emReqs, op, account, token, committed>>,
           pc[r] \in {"update"} \cup WroteSteps, pc'[r] \in WroteSteps,
           tx[r].pw \subseteq tx'[r].pw, tx[r].em \subseteq tx'[r].em,
           \/ tx'[r].wrote = tx[r].wrote
           \/ \A w \in tx'[r].wrote : \A t \in tx[r].em : w.email = t.newEmail,
           \A o \in Requests \ {r} : pc'[o] = pc[o] /\ tx'[o] = tx[o]
    PROVE  IdInv'
<1> USE DEF TokenInv, IdInv
<1>1. \A i : Settled(i) => Settled(i)'
  BY DEF Settled, After, WroteSteps
<1>2. FreshIds'
  BY <1>1 DEF FreshIds
<1>3. TokenHeld'
  BY DEF TokenHeld, HeldBy, Early, WroteSteps
<1>4. Ended'
  BY DEF Ended, WroteSteps, ResetInv, DataTypeOK
<1>5. Lasts' /\ TokenSpentOnce'
  BY DEF Lasts, TokenSpentOnce
<1> QED BY <1>2, <1>3, <1>4, <1>5

\* The commit: of the token rows of other resets it deletes none, for they are
\* locked, and it deletes its own.
LEMMA CommitIds ==
    ASSUME TokenInv, ResetInv, NEW r \in Requests, CommitReset(r)
    PROVE  IdInv'
<1> USE DEF TokenInv, IdInv
<1>1. /\ pc[r] = "commit" /\ UNCHANGED <<op, account, token>>
      /\ sessions' = sessions \ tx[r].sess
      /\ pwReqs' = pwReqs \ tx[r].pw /\ emReqs' = emReqs \ tx[r].em
      /\ committed' = committed \cup {r}
      /\ tx' = [tx EXCEPT ![r] = NoTx]
      /\ EmHolders(tx[r].em, r) = {}
  BY DEF CommitReset, Commit, At
<1>2. /\ pc'[r] \in {"notify", "ok", "failed"}
      /\ \A o \in Requests \ {r} : pc'[o] = pc[o] /\ tx'[o] = tx[o]
  BY <1>1 DEF ResetInv, DataTypeOK, DbTypeOK, CommitReset, Goto
<1>3. \A i : Settled(i) => Settled(i)'
  BY <1>1, <1>2 DEF Settled, After
<1>4. FreshIds'
  <2>1. DistinctIds(sessions, pwReqs, emReqs)'
    BY <1>1 DEF FreshIds, DistinctIds
  <2> QED BY <1>1, <1>3, <2>1 DEF FreshIds
<1>5. TokenHeld'
  <2> SUFFICES ASSUME NEW o \in Requests, token[o] # {}, pc'[o] \in Early \cup WroteSteps
               PROVE  HeldBy(o)'
    BY <1>1 DEF TokenHeld
  <2>1. o # r /\ pc'[o] = pc[o] /\ tx'[o] = tx[o]
    BY <1>2 DEF Early, WroteSteps
  <2>2. HeldBy(o)
    BY <2>1 DEF TokenHeld
  <2>3. \A t \in tx[o].pw : t \notin tx[r].pw
    BY <1>1, <2>1 DEF TxInv, Exclusive
  <2>4. \A t \in tx[o].em : t \notin tx[r].em
    BY <1>1, <2>1 DEF EmHolders, Others
  <2> QED BY <1>1, <2>1, <2>2, <2>3, <2>4 DEF HeldBy
<1>6. ASSUME NEW i \in token[r]
      PROVE  /\ \A row \in pwReqs' \cup emReqs' : row.id # i
             /\ \E row \in pwReqs \cup emReqs : row.id = i
  <2>1. HeldBy(r)
    BY <1>1, <1>6 DEF TokenHeld, WroteSteps
  <2> QED BY <1>1, <1>6, <2>1 DEF HeldBy, FreshIds, DistinctIds
<1>7. Ended'
  <2>1. \A o \in committed' : pc'[o] \in {"notify", "ok", "failed"}
    BY <1>1, <1>2 DEF Ended, ResetInv, DataTypeOK
  <2>2. \A o \in committed' : \A row \in pwReqs' \cup emReqs' : row.id \notin token[o]
    BY <1>1, <1>6 DEF Ended
  <2> QED BY <1>1, <2>1, <2>2 DEF Ended
<1>8. Lasts'
  <2> SUFFICES ASSUME NEW o \in Requests \ committed', NEW i \in token[o]
               PROVE  \/ \E row \in pwReqs' \cup emReqs' :
                            row.id = i /\ \E w \in account[o] : w.id = row.user
                      \/ \E c \in committed' : \E w \in account[o], v \in account[c] : v.id = w.id
    BY <1>1 DEF Lasts
  <2>1. o \in Requests \ committed
    BY <1>1
  <2>2. CASE \E c \in committed : \E w \in account[o], v \in account[c] : v.id = w.id
    BY <1>1, <2>2
  <2>3. CASE \E row \in pwReqs \cup emReqs : row.id = i /\ \E w \in account[o] : w.id = row.user
    <3>1. PICK row \in pwReqs \cup emReqs : row.id = i /\ \E w \in account[o] : w.id = row.user
      BY <2>3
    <3>2. CASE row \in pwReqs' \cup emReqs'
      BY <3>1, <3>2
    <3>3. CASE row \notin pwReqs' \cup emReqs'
      <4>1. row \in tx[r].pw \cup tx[r].em
        BY <1>1, <3>3
      <4>2. \E v \in account[r] : v.id = row.user
        BY <4>1 DEF TxInv, OwnRows
      <4> QED BY <1>1, <3>1, <4>2
    <3> QED BY <3>2, <3>3
  <2> QED BY <2>1, <2>2, <2>3 DEF Lasts
<1>9. TokenSpentOnce'
  <2>1. \A o \in committed : token[r] \cap token[o] = {}
    BY <1>6 DEF Ended
  <2> QED BY <1>1, <2>1 DEF TokenSpentOnce
<1> QED BY <1>4, <1>5, <1>7, <1>8, <1>9

\* Nothing is held or spent when the server starts.
LEMMA InitTokenInv == Init => TokenInv
<1> SUFFICES ASSUME Init PROVE TokenInv
  OBVIOUS
<1> USE DEF Init, DbInit, NoTx
<1>1. TxInv
  BY DEF TxInv, TxShape, OwnRows, Written, Exclusive, WroteSteps
<1>2. FreshIds
  BY DatabaseAssumption DEF FreshIds, Settled
<1>3. TokenHeld /\ Ended /\ Lasts /\ TokenSpentOnce
  BY DEF TokenHeld, Ended, Lasts, TokenSpentOnce
<1> QED BY <1>1, <1>2, <1>3 DEF TokenInv, IdInv

\* A step of r of the quiet kind.
LEMMA Quiet ==
    ASSUME TokenInv, DataTypeOK, DataTypeOK', NEW r \in Requests,
           UNCHANGED <<pwReqs, emReqs, tx, token, committed>>, sessions' \subseteq sessions,
           pc[r] \notin WroteSteps \cup {"update"}, NEW step \in Steps \ WroteSteps, Goto(r, step),
           pc[r] \in After => step \in After,
           \A o \in Requests \ {r} : op'[o] = op[o] /\ account'[o] = account[o],
           \/ pc[r] = "idle"
           \/ token[r] = {} /\ pc[r] \notin Early \cup {"notify", "ok", "failed"}
           \/ token[r] = {} /\ pc[r] \notin {"notify", "ok", "failed"} /\ op'[r] = op[r]
           \/ /\ op'[r] = op[r] /\ account'[r] = account[r]
              /\ step \in Early \cup {"notify", "ok", "failed"}
              /\ pc[r] \in Early <=> step \in Early,
           \A o \in Requests \ {r} : \A w \in tx[o].wrote : \A x \in users :
               x.id = w.id => x \in users'
    PROVE  TokenInv'
<1>1. pc[r] = "idle" => token[r] = {}
  BY DEF TokenInv, TxInv, TxShape, Early, WroteSteps
<1>2. TxInv'
  BY <1>1, QuietTx DEF TokenInv, Early
<1>3. r \in committed => /\ step \in {"notify", "ok", "failed"} /\ account'[r] = account[r]
                         /\ pc[r] # "idle"
  BY DEF TokenInv, IdInv, Ended, Early
<1>4. IdInv'
  BY <1>1, <1>3, QuietIds
<1> QED BY <1>2, <1>4 DEF TokenInv

\* Only a reset that has consumed a token and not ended has one.
LEMMA NoToken ==
    ASSUME TokenInv, NEW r \in Requests,
           pc[r] \notin Early \cup WroteSteps \cup {"notify", "ok", "failed"}
    PROVE  token[r] = {}
BY DEF TokenInv, TxInv, TxShape

\* Each step of a request is one of the kinds above.
LEMMA WorkKeepsTokenInv ==
    ASSUME TokenInv, ResetInv, NEW r \in Requests, Work(r)
    PROVE  TokenInv'
<1>0. DataTypeOK /\ DataTypeOK' /\ TxInv /\ IdInv /\ TokenHeld
  BY WorkKeepsTypes DEF ResetInv, TokenInv, IdInv
<1> USE DEF Steps, TxSteps, WroteSteps, At
<1>1. CASE \/ FindSession(r) \/ BeginHash(r) \/ EndHash(r) \/ RefuseToken(r) \/ Notify(r)
           \/ EndVerify(r) \/ CountSessions(r) \/ PickLru(r) \/ CheckEmail(r)
           \/ MailLink(r) \/ MailWarning(r) \/ DropSession(r) \/ DeleteLru(r)
  <2>1. /\ UNCHANGED <<users, pwReqs, emReqs, tx, op, account, token, committed>>
        /\ sessions' \subseteq sessions
    BY <1>1 DEF FindSession, BeginHash, EndVerify, EndHash, CountSessions, PickLru, CheckEmail,
                MailLink, MailWarning, RefuseToken, Notify, DropSession, DeleteLru,
                DeleteSession, rest, db
  <2>2. PICK step \in Steps \ WroteSteps :
          /\ Goto(r, step) /\ pc[r] \notin WroteSteps \cup {"update"}
          /\ pc[r] \in After => step \in After
          /\ \/ pc[r] \notin {"hash", "hashing", "update", "notify", "ok", "failed"}
             \/ pc[r] \in Early /\ step \in Early
             \/ pc[r] = "notify" /\ step = "ok"
             \/ op[r] = "signup" /\ pc[r] = "hashing" /\ step = "create_user"
    BY <1>1 DEF FindSession, BeginHash, EndVerify, EndHash, CountSessions, PickLru, CheckEmail,
                MailLink, MailWarning, RefuseToken, Notify, DropSession, DeleteLru,
                AfterVerify, After, Early
  <2>3. op[r] = "signup" => token[r] = {}
    BY <1>0 DEF TxInv, TxShape, TokenOps
  <2>4. \/ token[r] = {} /\ pc[r] \notin {"notify", "ok", "failed"}
        \/ step \in Early \cup {"notify", "ok", "failed"} /\ (pc[r] \in Early <=> step \in Early)
    BY <2>2, <2>3, NoToken DEF Early
  <2> QED BY <1>0, <2>1, <2>2, <2>4, Quiet
<1>2. CASE FindUser(r) \/ FetchAccount(r) \/ CreateUser(r)
  <2>1. /\ UNCHANGED <<sessions, pwReqs, emReqs, tx, op, token, committed>>
        /\ users \subseteq users'
        /\ \A o \in Requests \ {r} : account'[o] = account[o]
    BY <1>0, <1>2 DEF FindUser, FetchAccount, CreateUser, db, DataTypeOK
  <2>2. PICK step \in Steps \ WroteSteps :
          Goto(r, step) /\ pc[r] \in {"find_user", "get_account", "create_user"}
    BY <1>2 DEF FindUser, FetchAccount, CreateUser, AfterAccount
  <2>3. token[r] = {}
    BY <2>2, NoToken DEF Early
  <2> QED BY <1>0, <2>1, <2>2, <2>3, Quiet DEF After, Early
<1>3. CASE Deactivate(r)
  <2>1. PICK x \in users : /\ UserHolders(x.id, r) = {}
                           /\ users' = (users \ {x}) \cup {[x EXCEPT !.active = FALSE]}
    BY <1>3 DEF Deactivate
  <2>2. \A o \in Requests \ {r} : \A w \in tx[o].wrote : \A y \in users : y.id = w.id => y \in users'
    BY <2>1 DEF UserHolders, Others
  <2>3. /\ UNCHANGED <<sessions, pwReqs, emReqs, tx, op, account, token, committed>>
        /\ pc[r] = "deactivate" /\ Goto(r, "ok")
    BY <1>3 DEF Deactivate, rest
  <2>4. token[r] = {}
    BY <2>3, NoToken DEF Early
  <2> QED BY <1>0, <2>2, <2>3, <2>4, Quiet DEF After
<1>4. CASE InsertSession(r) \/ InsertPwReq(r) \/ InsertEmReq(r)
  <2>1. /\ UNCHANGED <<users, tx, token, committed, op, account>>
        /\ pc[r] \in {"insert_session", "insert_pw", "insert_em"}
    BY <1>4 DEF InsertSession, InsertPwReq, InsertEmReq
  <2>2. PICK step \in After : Goto(r, step)
    BY <1>4 DEF InsertSession, InsertPwReq, InsertEmReq, After
  <2>3. PICK row : /\ row.id = r
                   /\ \/ sessions' = sessions \cup {row} /\ UNCHANGED <<pwReqs, emReqs>>
                      \/ pwReqs' = pwReqs \cup {row} /\ UNCHANGED <<sessions, emReqs>>
                      \/ emReqs' = emReqs \cup {row} /\ UNCHANGED <<sessions, pwReqs>>
    BY <1>4 DEF InsertSession, InsertPwReq, InsertEmReq
  <2>4. IdInv'
    BY <1>0, <2>1, <2>2, <2>3, InsertIds
  <2>5. token[r] = {} /\ pc[r] \notin Early /\ step \in Steps \ WroteSteps
    BY <2>1, <2>2, NoToken DEF Early, After
  <2>6. TxInv'
    BY <1>0, <2>1, <2>2, <2>5, QuietTx
  <2> QED BY <2>4, <2>6 DEF TokenInv
<1>5. CASE HashingBusy(r) \/ DeadlockVictim(r)
  <2>1. /\ UNCHANGED <<users, sessions, pwReqs, emReqs, op, account, token, committed>>
        /\ tx' = [tx EXCEPT ![r] = NoTx] /\ Goto(r, "failed")
    BY <1>5 DEF HashingBusy, DeadlockVictim, Rollback, rest
  <2> QED BY <1>0, <2>1, DropTx, DropIds DEF TokenInv
<1>6. CASE ConsumePw(r) \/ ConsumeEm(r)
  BY <1>0, <1>6, ConsumeTx, ConsumeIds DEF TokenInv
<1>7. CASE Update(r)
  <2>1. UNCHANGED <<users, sessions, pwReqs, emReqs, op, account, token, committed>>
    BY <1>7 DEF Update, rest
  <2>2. CASE tx' = [tx EXCEPT ![r] = NoTx] /\ Goto(r, "failed")
    BY <1>0, <2>1, <2>2, DropTx, DropIds DEF TokenInv
  <2>3. CASE ~(tx' = [tx EXCEPT ![r] = NoTx] /\ Goto(r, "failed"))
    <3>1. \E R : tx' = [tx EXCEPT ![r].wrote = R]
      BY <1>7, <2>3 DEF Update
    <3>2. pc[r] = "update" /\ Goto(r, "del_sessions")
      BY <1>7, <2>3 DEF Update
    <3>3. /\ tx'[r].pw = tx[r].pw /\ tx'[r].em = tx[r].em /\ pc'[r] = "del_sessions"
          /\ \A o \in Requests \ {r} : pc'[o] = pc[o] /\ tx'[o] = tx[o]
      BY <1>0, <3>1, <3>2 DEF DataTypeOK, DbTypeOK, TxState, Goto
    <3>4. \A w \in tx'[r].wrote : \A t \in tx[r].em : w.email = t.newEmail
      <4>1. CASE tx[r].em = {}
        BY <4>1
      <4>2. CASE tx[r].em # {}
        <5>1. op[r] = "email_token" /\ \A t, z \in tx[r].em : t = z
          BY <1>0, <3>2, <4>2 DEF TxInv, TxShape, TokenHeld, HeldBy, Early, Goto
        <5>2. PICK x \in users, t \in tx[r].em :
                 tx' = [tx EXCEPT ![r].wrote = {[x EXCEPT !.email = t.newEmail]}]
          BY <1>7, <2>3, <5>1 DEF Update, GetUserByID
        <5>3. x \in UserRow
          BY <1>0 DEF DataTypeOK, DbTypeOK
        <5>4. [x EXCEPT !.email = t.newEmail].email = t.newEmail
          BY <5>3 DEF UserRow
        <5>5. tx'[r].wrote = {[x EXCEPT !.email = t.newEmail]}
          BY <1>0, <5>2 DEF DataTypeOK, DbTypeOK, TxState
        <5> QED BY <5>1, <5>4, <5>5
      <4> QED BY <4>1, <4>2
    <3>5. IdInv'
      BY <2>1, <3>2, <3>3, <3>4, ResetIds
    <3> QED BY <1>0, <1>7, <3>5, UpdateTx DEF TokenInv
  <2> QED BY <2>2, <2>3
<1>8. CASE DeleteSessions(r) \/ DeletePwReqs(r) \/ DeleteEmReqs(r)
  BY <1>0, <1>8, ClaimsAdd, ClaimTx, ResetIds DEF TokenInv
<1>9. CASE CommitReset(r)
  BY <1>0, <1>9, CommitTx, CommitIds DEF TokenInv
<1> QED
  BY <1>1, <1>2, <1>3, <1>4, <1>5, <1>6, <1>7, <1>8, <1>9 DEF Work

\* Arrivals and failures neither hold nor spend a token.
LEMMA StepKeepsTokenInv == TokenInv /\ ResetInv /\ [Next]_vars => TokenInv'
<1> SUFFICES ASSUME TokenInv, ResetInv, [Next]_vars PROVE TokenInv'
  OBVIOUS
<1>0. DataTypeOK /\ DataTypeOK'
  BY StepKeepsTypes DEF ResetInv
<1>1. ASSUME NEW r \in Requests, Arrive(r) PROVE TokenInv'
  <2>1. \E step \in Steps \ WroteSteps : Goto(r, step)
    BY <1>1, OpsAssumption
       DEF Arrive, FirstStep, AllOps, Authenticated, Steps, TxSteps, WroteSteps
  <2>2. /\ UNCHANGED <<users, sessions, pwReqs, emReqs, tx, account, token, committed>>
        /\ pc[r] = "idle" /\ \A o \in Requests \ {r} : op'[o] = op[o]
    BY <1>0, <1>1 DEF Arrive, At, db, DataTypeOK
  <2> QED BY <1>0, <2>1, <2>2, Quiet DEF After, WroteSteps
<1>2. ASSUME NEW r \in Requests, Work(r) PROVE TokenInv'
  BY <1>2, WorkKeepsTokenInv
<1>3. ASSUME NEW r \in Requests, Fail(r) PROVE TokenInv'
  <2>1. PICK step \in {"ok", "failed"} : Goto(r, step)
    BY <1>3 DEF Fail
  <2>2. /\ UNCHANGED <<users, sessions, pwReqs, emReqs, op, account, token, committed>>
        /\ tx' = [tx EXCEPT ![r] = NoTx]
    BY <1>3 DEF Fail, Rollback
  <2> QED BY <1>0, <2>1, <2>2, DropTx, DropIds DEF TokenInv
<1>4. CASE UNCHANGED vars
  BY <1>4 DEF vars, rest, db, TokenInv, TxInv, TxShape, OwnRows, Written, Exclusive, IdInv,
              FreshIds, Settled, TokenHeld, HeldBy, Ended, Lasts, TokenSpentOnce
<1> QED
  BY <1>1, <1>2, <1>3, <1>4 DEF Next, Quiesced

-----------------------------------------------------------------------------
\* The two invariants hold always.
THEOREM AlwaysTokenInv == Spec => [](ResetInv /\ TokenInv)
<1>1. Init => ResetInv /\ TokenInv
  BY InitResetInv, InitTokenInv
<1>2. ResetInv /\ TokenInv /\ [Next]_vars => (ResetInv /\ TokenInv)'
  BY StepKeepsResetInv, StepKeepsTokenInv
<1> QED BY <1>1, <1>2, PTL DEF Spec

\* However many requests present a token at once, one reset commits with it.
THEOREM TokenSpentOnceHolds == Spec => []TokenSpentOnce
<1>1. TokenInv => TokenSpentOnce
  BY DEF TokenInv, IdInv
<1> QED BY <1>1, AlwaysTokenInv, PTL

\* A token outlives a reset that fails, unless another reset of the account
\* committed.
THEOREM FailedKeepsTokenHolds == Spec => []FailedKeepsToken
<1>1. TokenInv => FailedKeepsToken
  BY DEF TokenInv, IdInv, Lasts, FailedKeepsToken
<1> QED BY <1>1, AlwaysTokenInv, PTL

\* Who waits with its account updated waits for a reset at its UPDATE that has
\* consumed a token: two transactions past it hold rows of different accounts.
LEMMA WaitsForToken ==
    ASSUME ResetInv, TokenInv, NEW r \in Requests, NEW o \in Requests,
           o \in WaitsFor(r), r \in WaitsFor(o), pc[r] \in WroteSteps
    PROVE  At(o, "update") /\ token[o] # {}
<1>1. PICK row : /\ row \in tx[r].sess \cup tx[r].pw \cup tx[r].em
                 /\ row \in tx[o].sess \cup tx[o].pw \cup tx[o].em
  BY DEF WaitsFor, At, WroteSteps, SessionHolders, PwHolders, EmHolders
<1>2. r # o
  BY DEF WaitsFor, At, WroteSteps, SessionHolders, PwHolders, EmHolders, Others
<1>3. pc[o] \notin WroteSteps
  <2>1. PICK w \in account[r], v \in account[o] : w.id = row.user /\ v.id = row.user
    BY <1>1 DEF TokenInv, TxInv, OwnRows
  <2> QED BY <1>2, <2>1, ApartAccounts DEF TokenInv
<1>4. pc[o] = "update"
  BY <1>3 DEF WaitsFor, At, WroteSteps
<1> QED BY <1>1, <1>3, <1>4 DEF TokenInv, TxInv, TxShape, At

\* Of two resets that wait for each other at least one is a reset by token that has yet
\* to update the user; the other may be an authenticated one.
THEOREM DeadlockNeedsTokenHolds == Spec => []DeadlockNeedsToken
<1>1. ASSUME ResetInv, TokenInv PROVE DeadlockNeedsToken
  <2> SUFFICES ASSUME NEW r \in Requests, NEW o \in Requests,
                      o \in WaitsFor(r), r \in WaitsFor(o)
               PROVE  \E v \in {r, o} : At(v, "update") /\ token[v] # {}
    BY DEF DeadlockNeedsToken
  <2>1. pc[r] \in WroteSteps \/ pc[o] \in WroteSteps
    <3>1. CASE pc[r] = "update"
      BY <1>1, <3>1 DEF WaitsFor, At, UserWaits, EmailWaits, UserHolders, EmailHolders,
                        ResetInv, Writes, Others
    <3>2. CASE pc[r] # "update"
      BY <3>2 DEF WaitsFor, At, WroteSteps
    <3> QED BY <3>1, <3>2
  <2> QED BY <1>1, <2>1, WaitsForToken
<1> QED BY <1>1, AlwaysTokenInv, PTL
=============================================================================
