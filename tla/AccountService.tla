--------------------------- MODULE AccountService ---------------------------
(***************************************************************************)
(* The account server: concurrent HTTP requests running the handlers of    *)
(* internal/handlers over the user and session services, on one database.  *)
(* Each action is one database statement, one mail, or the start or the    *)
(* end of an argon2 computation, together with the code that follows it up *)
(* to the next one; requests interleave between actions.  An input (email, *)
(* password, cookie, token) is chosen where it is first used.              *)
(***************************************************************************)
EXTENDS Database

CONSTANTS
    Ops,          \* the operations requests may ask for
    MaxNumberOfActiveSessions,
    MaxConcurrentHashes,
    Faults        \* whether queries fail, clients cancel, the server dies

ASSUME ServiceAssumption ==
    /\ MaxNumberOfActiveSessions \in Nat \ {0}
    /\ MaxConcurrentHashes \in Nat \ {0}
    /\ Faults \in BOOLEAN

VARIABLES
    pc,         \* pc[r]: the next step of request r
    op,         \* op[r]: the operation it asks for
    account,    \* account[r]: the users row it has read ({} before)
    held,       \* held[r]: the sessions row it acts on, its own or an LRU one
    newEmail,   \* newEmail[r]: the address a new email reset names ({} before)
    hashSlots,  \* slots taken of the semaphore that bounds argon2 hashes
    sent,       \* mails delivered
    token,      \* token[r]: id of the reset request r consumed (auxiliary)
    raced,      \* raced[r]: its account was reset after r read it (auxiliary)
    committed   \* requests whose reset transaction committed (auxiliary)

rest == <<op, account, held, newEmail, hashSlots, sent, token, raced, committed>>
vars == <<db, pc, rest>>

Authenticated == {"logout", "get_user", "change_password", "change_email"}
AllOps == Authenticated \cup {"signup", "login", "forgot_password", "password_token",
                              "email_token", "deactivate"}
TxSteps == {"update", "del_sessions", "del_pw", "del_em", "commit"}
Steps == TxSteps \cup
    {"idle", "find_user", "get_session", "get_account", "drop_expired", "logout",
     "verify", "verifying", "hash", "hashing", "create_user", "count", "pick_lru",
     "delete_lru", "insert_session", "insert_pw", "check_email", "insert_em",
     "mail_link", "mail_warning", "consume", "notify", "deactivate", "ok", "failed"}
Mail == [kind : {"pw_link", "em_link", "em_warning", "pw_notice"}, to : Emails,
         id : Requests]

ASSUME OpsAssumption == Ops \subseteq AllOps

ServiceTypeOK ==
    /\ pc \in [Requests -> Steps]
    /\ op \in [Requests -> AllOps \cup {"none"}]
    /\ account \in [Requests -> SUBSET UserRow]
    /\ held \in [Requests -> SUBSET SessionRow]
    /\ newEmail \in [Requests -> SUBSET Emails]
    /\ hashSlots \in 0..MaxConcurrentHashes
    /\ sent \subseteq Mail
    /\ token \in [Requests -> SUBSET Ids]
    /\ raced \in [Requests -> BOOLEAN]
    /\ committed \subseteq Requests

\* Type invariant of the database and of the requests; in particular the
\* semaphore never goes negative nor beyond MaxConcurrentHashes.
TypeOK == DbTypeOK /\ ServiceTypeOK

Init ==
    /\ DbInit
    /\ pc = [r \in Requests |-> "idle"]
    /\ op = [r \in Requests |-> "none"]
    /\ account = [r \in Requests |-> {}]
    /\ held = [r \in Requests |-> {}]
    /\ newEmail = [r \in Requests |-> {}]
    /\ hashSlots = 0
    /\ sent = {}
    /\ token = [r \in Requests |-> {}]
    /\ raced = [r \in Requests |-> FALSE]
    /\ committed = {}

Goto(r, step) == pc' = [pc EXCEPT ![r] = step]
At(r, step)   == pc[r] = step

-----------------------------------------------------------------------------
(***************************************************************************)
(* Arrival: NewMux routes the request; the handler's first shared step.    *)
(***************************************************************************)
FirstStep(o) ==
    CASE o \in Authenticated -> "get_session"
      [] o \in {"login", "forgot_password"} -> "find_user"
      [] o = "signup" -> "hash"
      [] o \in {"password_token", "email_token"} -> "consume"
      [] o = "deactivate" -> "deactivate"

Arrive(r) ==
    /\ At(r, "idle")
    /\ \E o \in Ops :
          /\ op' = [op EXCEPT ![r] = o]
          /\ Goto(r, FirstStep(o))
    /\ UNCHANGED <<db, account, held, newEmail, hashSlots, sent, token, raced, committed>>

(***************************************************************************)
(* CreateSessionMiddleware and WithUser.  GetSession finds nothing for an  *)
(* unknown id or an inactive user; a session may be found expired and is   *)
(* then deleted, by a statement of its own.  Both end unauthenticated.     *)
(* The user is fetched later, by GetUserByID.  Whether a session has       *)
(* expired is left open here: time is the subject of SessionLifecycle.     *)
(***************************************************************************)
FindSession(r) ==
    /\ At(r, "get_session")
    /\ \/ \E s \in sessions :
            /\ s \in GetSession(s.id)
            /\ held' = [held EXCEPT ![r] = {s}]
            /\ Goto(r, "get_account") \/ Goto(r, "drop_expired")
       \/ Goto(r, "failed") /\ UNCHANGED held
    /\ UNCHANGED <<db, op, account, newEmail, hashSlots, sent, token, raced, committed>>

AfterAccount(o) == CASE o = "logout" -> "logout"
                     [] o = "get_user" -> "ok"
                     [] OTHER -> "verify"

FetchAccount(r) ==
    /\ At(r, "get_account")
    /\ \E s \in held[r] : account' = [account EXCEPT ![r] = GetUserByID(s.user)]
    /\ Goto(r, AfterAccount(op[r]))
    /\ UNCHANGED <<db, op, held, newEmail, hashSlots, sent, token, raced, committed>>

\* DeleteSession, for the middleware's expired session and for logout.
DeleteSession(S) == sessions \ S

DropSession(r) ==
    /\ \/ At(r, "drop_expired") /\ Goto(r, "failed")
       \/ At(r, "logout") /\ Goto(r, "ok")
    /\ SessionHolders(held[r], r) = {}
    /\ sessions' = DeleteSession(held[r])
    /\ UNCHANGED <<users, pwReqs, emReqs, tx, op, account, held, newEmail, hashSlots,
                   sent, token, raced, committed>>

-----------------------------------------------------------------------------
(***************************************************************************)
(* LogIn and CreatePasswordResetRequest both start from GetUserByEmail;    *)
(* an unknown address, and for LogIn an inactive user, is an early return  *)
(* (reported as 204 to a password reset).                                  *)
(***************************************************************************)
FindUser(r) ==
    /\ At(r, "find_user")
    /\ \E e \in Emails :
         IF \E x \in GetUserByEmail(e) : x.active \/ op[r] = "forgot_password"
         THEN /\ account' = [account EXCEPT ![r] = GetUserByEmail(e)]
              /\ Goto(r, IF op[r] = "login" THEN "verify" ELSE "insert_pw")
         ELSE /\ Goto(r, IF op[r] = "login" THEN "failed" ELSE "ok")
              /\ UNCHANGED account
    /\ UNCHANGED <<db, op, held, newEmail, hashSlots, sent, token, raced, committed>>

(***************************************************************************)
(* verifyPassword and createPasswordHash: TryAcquire one hash slot or fail *)
(* with ErrHashingBusy, compute, release.  A request that is refused or    *)
(* whose password does not match leaves; inside a transaction that is a    *)
(* rollback, and the reset request it consumed is still there.             *)
(***************************************************************************)
AcquireUnbounded == hashSlots' = hashSlots + 1
AcquireSlot == hashSlots < MaxConcurrentHashes /\ hashSlots' = hashSlots + 1
ReleaseSlotOnMatch(matched) == hashSlots' = IF matched THEN hashSlots - 1 ELSE hashSlots
ReleaseSlot(matched) == hashSlots' = hashSlots - 1

BeginHash(r) ==
    /\ \/ At(r, "verify") /\ AcquireSlot /\ Goto(r, "verifying")
       \/ At(r, "hash") /\ AcquireSlot /\ Goto(r, "hashing")
    /\ UNCHANGED <<db, op, account, held, newEmail, sent, token, raced, committed>>

HashingBusy(r) ==
    /\ pc[r] \in {"verify", "hash"}
    /\ hashSlots >= MaxConcurrentHashes
    /\ Goto(r, "failed")
    /\ Rollback(r)
    /\ UNCHANGED rest

AfterVerify(o) == CASE o = "change_password" -> "hash"
                    [] o = "change_email" -> "check_email"
                    [] OTHER -> "count"

EndVerify(r) ==
    /\ At(r, "verifying")
    /\ \E matched \in BOOLEAN :
         /\ ReleaseSlot(matched)
         /\ Goto(r, IF matched THEN AfterVerify(op[r]) ELSE "failed")
    /\ UNCHANGED <<db, op, account, held, newEmail, sent, token, raced, committed>>

EndHash(r) ==
    /\ At(r, "hashing")
    /\ ReleaseSlot(TRUE)
    /\ Goto(r, IF op[r] = "signup" THEN "create_user" ELSE "update")
    /\ UNCHANGED <<db, op, account, held, newEmail, sent, token, raced, committed>>

\* SignUp's INSERT; a unique violation is ErrEmailTaken.  The id comes from a
\* sequence: any id no row has.
CreateUser(r) ==
    /\ At(r, "create_user")
    /\ \E e \in Emails :
         /\ EmailHolders(e, r) = {}
         /\ \/ /\ GetUserByEmail(e) # {}
               /\ Goto(r, "failed")
               /\ UNCHANGED <<users, account>>
            \/ /\ GetUserByEmail(e) = {}
               /\ \E u \in UserIds, p \in Passwords :
                    LET row == [id |-> u, email |-> e, hash |-> p, active |-> TRUE]
                    IN  /\ GetUserByID(u) = {}
                        /\ users' = users \cup {row}
                        /\ account' = [account EXCEPT ![r] = {row}]
               /\ Goto(r, "count")
    /\ UNCHANGED <<sessions, pwReqs, emReqs, tx, op, held, newEmail, hashSlots, sent,
                   token, raced, committed>>

-----------------------------------------------------------------------------
(***************************************************************************)
(* A row is marked raced when its request read the account before a reset  *)
(* of that account committed, or inserts it after that reset's DELETE took *)
(* its snapshot; the DELETE cannot see such a row.                         *)
(***************************************************************************)
ResetsOf(u) == {o \in Requests : pc[o] \in TxSteps /\ \E w \in account[o] : w.id = u}
Overtaken(r, u, past) == raced[r] \/ \E o \in ResetsOf(u) : pc[o] \in past

(***************************************************************************)
(* CreateSession: count, delete the least recently used session when the   *)
(* count has reached the maximum, insert; three separate transactions.     *)
(* DeleteLRU picks its row with a subquery and deletes it afterwards: it   *)
(* may wait for the row or find it gone.  Any session of the user may be   *)
(* the oldest here; SessionLifecycle is about which one it is.             *)
(***************************************************************************)
CountSessions(r) ==
    /\ At(r, "count")
    /\ \E w \in account[r] :
         Goto(r, IF GetSessionCountByUser(w.id) >= MaxNumberOfActiveSessions
                 THEN "pick_lru" ELSE "insert_session")
    /\ UNCHANGED <<db, rest>>

PickLru(r) ==
    /\ At(r, "pick_lru")
    /\ \E w \in account[r] :
         IF OfUser(sessions, w.id) = {}
         THEN Goto(r, "insert_session") /\ UNCHANGED held
         ELSE /\ \E s \in OfUser(sessions, w.id) : held' = [held EXCEPT ![r] = {s}]
              /\ Goto(r, "delete_lru")
    /\ UNCHANGED <<db, op, account, newEmail, hashSlots, sent, token, raced, committed>>

DeleteLru(r) ==
    /\ At(r, "delete_lru")
    /\ SessionHolders(held[r], r) = {}
    /\ sessions' = DeleteSession(held[r])
    /\ Goto(r, "insert_session")
    /\ UNCHANGED <<users, pwReqs, emReqs, tx, op, account, held, newEmail, hashSlots,
                   sent, token, raced, committed>>

InsertSession(r) ==
    /\ At(r, "insert_session")
    /\ \E w \in account[r] :
         /\ FkHolders(w.id, r) = {}
         /\ sessions' = sessions \cup
                {[id |-> r, user |-> w.id, via |-> w.hash,
                  raced |-> Overtaken(r, w.id, {"del_pw", "del_em", "commit"})]}
    /\ Goto(r, "ok")
    /\ UNCHANGED <<users, pwReqs, emReqs, tx, op, account, held, newEmail, hashSlots,
                   sent, token, raced, committed>>

-----------------------------------------------------------------------------
(***************************************************************************)
(* CreatePasswordResetRequest after it found the user, and                 *)
(* CreateEmailResetRequest after verifyReauthentication: the row is        *)
(* committed first, then its token is mailed.                              *)
(***************************************************************************)
InsertPwReq(r) ==
    /\ At(r, "insert_pw")
    /\ \E w \in account[r] :
         /\ FkHolders(w.id, r) = {}
         /\ pwReqs' = pwReqs \cup
                {[id |-> r, user |-> w.id, addr |-> w.email,
                  raced |-> Overtaken(r, w.id, {"del_em", "commit"})]}
    /\ Goto(r, "mail_link")
    /\ UNCHANGED <<users, sessions, emReqs, tx, op, account, held, newEmail, hashSlots,
                   sent, token, raced, committed>>

CheckEmail(r) ==
    /\ At(r, "check_email")
    /\ \E e \in Emails :
         IF GetUserByEmail(e) = {} /\ \A w \in account[r] : w.email # e
         THEN newEmail' = [newEmail EXCEPT ![r] = {e}] /\ Goto(r, "insert_em")
         ELSE Goto(r, "failed") /\ UNCHANGED newEmail
    /\ UNCHANGED <<db, op, account, held, hashSlots, sent, token, raced, committed>>

InsertEmReq(r) ==
    /\ At(r, "insert_em")
    /\ \E w \in account[r], e \in newEmail[r] :
         /\ FkHolders(w.id, r) = {}
         /\ emReqs' = emReqs \cup
                {[id |-> r, user |-> w.id, newEmail |-> e, via |-> w.hash,
                  raced |-> Overtaken(r, w.id, {"commit"})]}
    /\ Goto(r, "mail_link")
    /\ UNCHANGED <<users, sessions, pwReqs, tx, op, account, held, newEmail, hashSlots,
                   sent, token, raced, committed>>

MailLink(r) ==
    /\ At(r, "mail_link")
    /\ \E w \in account[r] :
         \/ /\ op[r] = "forgot_password"
            /\ sent' = sent \cup {[kind |-> "pw_link", to |-> w.email, id |-> r]}
            /\ Goto(r, "ok")
         \/ /\ op[r] = "change_email"
            /\ \E e \in newEmail[r] :
                  sent' = sent \cup {[kind |-> "em_link", to |-> e, id |-> r]}
            /\ Goto(r, "mail_warning")
    /\ UNCHANGED <<db, op, account, held, newEmail, hashSlots, token, raced, committed>>

\* The warning goes to the address the middleware read, current or not.
MailWarning(r) ==
    /\ At(r, "mail_warning")
    /\ \E w \in account[r] :
         sent' = sent \cup {[kind |-> "em_warning", to |-> w.email, id |-> r]}
    /\ Goto(r, "ok")
    /\ UNCHANGED <<db, op, account, held, newEmail, hashSlots, token, raced, committed>>

-----------------------------------------------------------------------------
(***************************************************************************)
(* runWithTx of ResetPasswordFromResetRequest and                          *)
(* ResetEmailFromResetRequest: first the reset request is deleted, which   *)
(* locks it.  A token a client can present was mailed, or is older than    *)
(* this run; one with no row, or past its 15 minutes, is refused and the   *)
(* transaction rolled back.                                                *)
(***************************************************************************)
Known(id) == id \in OldIds \/ \E m \in sent : m.id = id

SelectPw(r) ==
    /\ At(r, "consume") /\ op[r] = "password_token"
    /\ \E t \in pwReqs :
         /\ Known(t.id)
         /\ token' = [token EXCEPT ![r] = {t.id}]
         /\ account' = [account EXCEPT ![r] = GetUserByID(t.user)]
    /\ Goto(r, "hash")
    /\ UNCHANGED <<db, op, held, newEmail, hashSlots, sent, raced, committed>>
ConsumePw(r) ==
    /\ At(r, "consume") /\ op[r] = "password_token"
    /\ \E t \in pwReqs :
         /\ Known(t.id)
         /\ PwHolders({t}, r) = {}
         /\ tx' = [tx EXCEPT ![r].pw = {t}]
         /\ token' = [token EXCEPT ![r] = {t.id}]
         /\ account' = [account EXCEPT ![r] = GetUserByID(t.user)]
    /\ Goto(r, "hash")
    /\ UNCHANGED <<users, sessions, pwReqs, emReqs, op, held, newEmail, hashSlots, sent,
                   raced, committed>>

ConsumeEmOutsideTx(r) ==
    /\ At(r, "consume") /\ op[r] = "email_token"
    /\ \E t \in emReqs :
         /\ Known(t.id)
         /\ EmHolders({t}, r) = {}
         /\ tx' = [tx EXCEPT ![r].em = {t}]
         /\ emReqs' = emReqs \ {t}
         /\ token' = [token EXCEPT ![r] = {t.id}]
         /\ account' = [account EXCEPT ![r] = GetUserByID(t.user)]
    /\ Goto(r, "update")
    /\ UNCHANGED <<users, sessions, pwReqs, op, held, newEmail, hashSlots, sent,
                   raced, committed>>
ConsumeEm(r) ==
    /\ At(r, "consume") /\ op[r] = "email_token"
    /\ \E t \in emReqs :
         /\ Known(t.id)
         /\ EmHolders({t}, r) = {}
         /\ tx' = [tx EXCEPT ![r].em = {t}]
         /\ token' = [token EXCEPT ![r] = {t.id}]
         /\ account' = [account EXCEPT ![r] = GetUserByID(t.user)]
    /\ Goto(r, "update")
    /\ UNCHANGED <<users, sessions, pwReqs, emReqs, op, held, newEmail, hashSlots, sent,
                   raced, committed>>

RefuseToken(r) ==
    /\ At(r, "consume")
    /\ Goto(r, "failed")
    /\ UNCHANGED <<db, rest>>

(***************************************************************************)
(* The statements every reset ends with, in the code's order: the UPDATE   *)
(* of the user, then DeleteAllSessionsForUser and                          *)
(* deleteOutstandingResetRequests.  A DELETE claims the rows its snapshot  *)
(* shows; it has finished, and the next statement may start, once no other *)
(* transaction holds one of them.                                          *)
(***************************************************************************)
UserWaits(r)  == UNION {UserHolders(w.id, r) : w \in account[r]}
EmailWaits(r) == UNION {EmailHolders(t.newEmail, r) : t \in tx[r].em}

UpdateOutsideTx(r) ==
    /\ At(r, "update")
    /\ \E w \in account[r], p \in Passwords : \E x \in GetUserByID(w.id) :
          users' = (users \ {x}) \cup {[x EXCEPT !.hash = p]}
    /\ Goto(r, "del_sessions")
    /\ UNCHANGED <<sessions, pwReqs, emReqs, tx, rest>>
Update(r) ==
    /\ At(r, "update")
    /\ UserWaits(r) \cup EmailWaits(r) = {}
    /\ \E w \in account[r] : \E x \in GetUserByID(w.id) :
         \/ /\ op[r] # "email_token"
            /\ \E p \in Passwords : tx' = [tx EXCEPT ![r].wrote = {[x EXCEPT !.hash = p]}]
            /\ Goto(r, "del_sessions")
         \/ \E t \in tx[r].em :
              IF Taken(t.newEmail, x.id)
              THEN tx' = [tx EXCEPT ![r] = NoTx] /\ Goto(r, "failed")
              ELSE /\ tx' = [tx EXCEPT ![r].wrote = {[x EXCEPT !.email = t.newEmail]}]
                   /\ Goto(r, "del_sessions")
    /\ UNCHANGED <<users, sessions, pwReqs, emReqs, rest>>

DeleteSessions(r) ==
    /\ At(r, "del_sessions")
    /\ \E w \in account[r] : tx' = [tx EXCEPT ![r].sess = OfUser(sessions, w.id)]
    /\ Goto(r, "del_pw")
    /\ UNCHANGED <<users, sessions, pwReqs, emReqs, rest>>

DeletePwReqs(r) ==
    /\ At(r, "del_pw")
    /\ SessionHolders(tx[r].sess, r) = {}
    /\ \E w \in account[r] : tx' = [tx EXCEPT ![r].pw = @ \cup OfUser(pwReqs, w.id)]
    /\ Goto(r, "del_em")
    /\ UNCHANGED <<users, sessions, pwReqs, emReqs, rest>>

KeepEmReqs(r) ==
    /\ At(r, "del_em")
    /\ PwHolders(tx[r].pw, r) = {}
    /\ Goto(r, "commit")
    /\ UNCHANGED <<db, rest>>
DeleteEmReqs(r) ==
    /\ At(r, "del_em")
    /\ PwHolders(tx[r].pw, r) = {}
    /\ \E w \in account[r] : tx' = [tx EXCEPT ![r].em = @ \cup OfUser(emReqs, w.id)]
    /\ Goto(r, "commit")
    /\ UNCHANGED <<users, sessions, pwReqs, emReqs, rest>>

(***************************************************************************)
(* tx.Commit.  A password reset notifies the user next.  Under Faults the  *)
(* answer of a commit that took effect may be lost: the request reports a  *)
(* failure.                                                                *)
(***************************************************************************)
CommitReset(r) ==
    /\ At(r, "commit")
    /\ EmHolders(tx[r].em, r) = {}
    /\ Commit(r)
    /\ committed' = committed \cup {r}
    /\ raced' = [x \in Requests |-> raced[x] \/ \E w \in account[r], v \in account[x] : w.id = v.id]
    /\ \/ Goto(r, IF op[r] = "email_token" THEN "ok" ELSE "notify")
       \/ Faults /\ Goto(r, "failed")
    /\ UNCHANGED <<op, account, held, newEmail, hashSlots, sent, token>>

\* After a token reset the address is read again, from the committed row.
Notify(r) ==
    /\ At(r, "notify")
    /\ \E w \in account[r] :
       \E x \in IF op[r] = "password_token" THEN GetUserByID(w.id) ELSE {w} :
           sent' = sent \cup {[kind |-> "pw_notice", to |-> x.email, id |-> r]}
    /\ Goto(r, "ok")
    /\ UNCHANGED <<db, op, account, held, newEmail, hashSlots, token, raced, committed>>

-----------------------------------------------------------------------------
\* No handler deactivates a user; an operator does, by SQL.
Deactivate(r) ==
    /\ At(r, "deactivate")
    /\ \E x \in users :
         /\ UserHolders(x.id, r) = {}
         /\ users' = (users \ {x}) \cup {[x EXCEPT !.active = FALSE]}
    /\ Goto(r, "ok")
    /\ UNCHANGED <<sessions, pwReqs, emReqs, tx, rest>>

(***************************************************************************)
(* A query, mail or hash fails, the client disconnects (its context is     *)
(* cancelled), or the server dies, which fails every request in it.  The   *)
(* deferred Rollback and Release run.  Logout and the two notifications    *)
(* only log an error and answer success.                                   *)
(***************************************************************************)
Fail(r) ==
    /\ Faults
    /\ pc[r] \notin {"idle", "ok", "failed"}
    /\ Rollback(r)
    /\ IF pc[r] \in {"verifying", "hashing"} THEN ReleaseSlot(FALSE) ELSE UNCHANGED hashSlots
    /\ Goto(r, IF pc[r] \in {"logout", "notify", "mail_warning"} THEN "ok" ELSE "failed")
    /\ UNCHANGED <<op, account, held, newEmail, sent, token, raced, committed>>

(***************************************************************************)
(* Postgres breaks a cycle of transactions waiting for each other by       *)
(* failing one of them.  Here that is a cycle of two; a longer one would   *)
(* stop the requests in it for good, and EveryRequestEnds would fail.      *)
(***************************************************************************)
WaitsFor(r) ==
    CASE At(r, "update") -> UserWaits(r) \cup EmailWaits(r)
      [] At(r, "del_pw") -> SessionHolders(tx[r].sess, r)
      [] At(r, "del_em") -> PwHolders(tx[r].pw, r)
      [] At(r, "commit") -> EmHolders(tx[r].em, r)
      [] OTHER -> {}

Deadlocked(r) == \E o \in WaitsFor(r) : r \in WaitsFor(o)

VictimRetries(r) ==
    /\ Deadlocked(r)
    /\ Rollback(r)
    /\ Goto(r, FirstStep(op[r]))
    /\ UNCHANGED rest
DeadlockVictim(r) ==
    /\ Deadlocked(r)
    /\ Rollback(r)
    /\ Goto(r, "failed")
    /\ UNCHANGED rest

-----------------------------------------------------------------------------
Work(r) ==
    \/ FindSession(r) \/ FetchAccount(r) \/ DropSession(r) \/ FindUser(r)
    \/ BeginHash(r) \/ HashingBusy(r) \/ EndVerify(r) \/ EndHash(r) \/ CreateUser(r)
    \/ CountSessions(r) \/ PickLru(r) \/ DeleteLru(r) \/ InsertSession(r)
    \/ InsertPwReq(r) \/ CheckEmail(r) \/ InsertEmReq(r) \/ MailLink(r) \/ MailWarning(r)
    \/ ConsumePw(r) \/ ConsumeEm(r) \/ RefuseToken(r) \/ Update(r) \/ DeleteSessions(r)
    \/ DeletePwReqs(r) \/ DeleteEmReqs(r) \/ CommitReset(r) \/ Notify(r)
    \/ Deactivate(r) \/ DeadlockVictim(r)

\* The server keeps listening when nothing is in flight.
Quiesced == (\A r \in Requests : pc[r] \in {"ok", "failed"}) /\ UNCHANGED vars

Next == (\E r \in Requests : Arrive(r) \/ Work(r) \/ Fail(r)) \/ Quiesced

Spec == Init /\ [][Next]_vars

\* net/http runs each request in a goroutine of its own, and Postgres wakes
\* the waiters of a lock and breaks deadlocks; no request has to arrive.
FairSpec == Spec /\ \A r \in Requests : WF_vars(Work(r))
-----------------------------------------------------------------------------
(***************************************************************************)
(* Safety.                                                                 *)
(***************************************************************************)

\* Every slot of the semaphore is held by a computation in progress: no path
\* out of createPasswordHash or verifyPassword keeps one or returns one twice.
HashSlotsExact == hashSlots = Cardinality({r \in Requests : pc[r] \in {"verifying", "hashing"}})

\* After any reset, a session or outstanding reset request of the account that
\* no reset overlapped was obtained with the password, and a password token
\* mailed to the address, the account has now.
UnracedCurrent == CurrentRows(users, sessions, pwReqs, emReqs)

\* What survives the commit of a reset among the sessions and reset requests
\* of the account was inserted by a request the reset overlapped.
ResetWipes ==
    [][\A r \in committed' \ committed : \A w \in account[r] :
         \A row \in OfUser(sessions', w.id) \cup OfUser(pwReqs', w.id) \cup OfUser(emReqs', w.id) :
             row.raced]_vars

\* A reset token is good for one committed reset, however many requests
\* present it at once.
TokenSpentOnce ==
    \A r, o \in committed : r # o => token[r] \cap token[o] = {}

\* A reset that fails before its commit, for lack of a hash slot or as the
\* victim of a deadlock too, leaves the token it consumed valid, unless
\* another reset of the account committed.
FailedKeepsToken ==
    \A r \in Requests \ committed : At(r, "failed") => \A t \in token[r] :
        \/ \E row \in pwReqs \cup emReqs : row.id = t
        \/ \E o \in committed : \E w \in account[r], v \in account[o] : v.id = w.id

\* The UNIQUE email holds between sign-ups and email resets that are decided
\* at the same time, the check of CreateEmailResetRequest being stale by then.
OneUserPerEmail == UniqueUsers(users)

\* Of two resets that wait for each other, one consumed a token before the other
\* updated the user and is still at its own UPDATE; the other may be an authenticated
\* one.  Between two that have done their UPDATEs there is no deadlock.
DeadlockNeedsToken ==
    \A r, o \in Requests : o \in WaitsFor(r) /\ r \in WaitsFor(o) =>
        \E v \in {r, o} : At(v, "update") /\ token[v] # {}

(***************************************************************************)
(* Liveness.                                                               *)
(***************************************************************************)

\* Every request is answered: no lock, slot or deadlock holds it up for ever.
EveryRequestEnds ==
    \A r \in Requests : ~At(r, "idle") ~> pc[r] \in {"ok", "failed"}

-----------------------------------------------------------------------------
(***************************************************************************)
(* What the repository's tests and comments say of one request at a time   *)
(* and concurrent requests do not keep.                                    *)
(***************************************************************************)

\* "password reset succeeds ... and deletes sessions": afterwards every
\* session was opened with the password the account has.
SessionsMatchPassword ==
    \A s \in sessions, x \in users : s.user = x.id => s.via = x.hash

\* "password reset fails with incorrect password": the password an
\* authenticated reset was let in with is the account's when it commits.
CommitsOnCurrentPassword ==
    [][\A r \in committed' \ committed : op[r] = "change_password" =>
         \A w \in account[r], x \in users : x.id = w.id => x.hash = w.hash]_vars

\* "an inactive user will never be added to context".
InactiveNeverInContext ==
    \A r \in Requests : op[r] \in Authenticated => \A w \in account[r] : w.active

\* An outstanding reset request is of the account as it is: the "in-flight resets" that
\* "a credential change must invalidate" (user_integration_test.go:1568) are gone, the
\* links mailed to a former address and the email changes asked with a former password.
ResetRequestsCurrent ==
    \A w \in users : /\ \A p \in pwReqs : p.user = w.id => p.addr = w.email
                     /\ \A e \in emReqs : e.user = w.id => e.via = w.hash
=============================================================================
