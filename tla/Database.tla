------------------------------ MODULE Database ------------------------------
(***************************************************************************)
(* The PostgreSQL schema behind the application (sqlc/migrations), the     *)
(* queries sqlc generates from sqlc/query (internal/db), and the           *)
(* transactions internal/service/user/transaction.go opens on it.          *)
(*                                                                         *)
(* A table is a set of rows.  Postgres runs at its default READ COMMITTED  *)
(* level: a statement reads committed rows only, so users, sessions,       *)
(* pwReqs and emReqs hold exactly the committed rows, and tx[r] holds what *)
(* the transaction of request r has written and not yet committed.  Every  *)
(* row in tx[r] is locked by r until its transaction ends.  A statement    *)
(* outside runWithTx is a transaction of its own.                          *)
(***************************************************************************)
EXTENDS Integers, FiniteSets

CONSTANTS
    Requests,   \* every HTTP request the server handles
    OldIds,     \* ids of rows that exist before the first request
    UserIds,    \* values of users.id
    Emails,     \* values of users.email, up to CITEXT equality
    Passwords,  \* passwords; a stored hash is represented by its password
    InitialDB   \* the committed database when the server starts

VARIABLES users, sessions, pwReqs, emReqs, tx

db == <<users, sessions, pwReqs, emReqs, tx>>

(***************************************************************************)
(* Rows.  Session and token ids are 128 random bits (stored hashed), so no *)
(* id is ever drawn twice: the row a request inserts is identified by that *)
(* request.  Three fields are auxiliary and no column: via is the password *)
(* that was checked for the row, addr the address a password token is      *)
(* mailed to, raced whether a reset of the account overlapped the request  *)
(* that inserted the row (see Overtaken in AccountService).                *)
(***************************************************************************)
Ids == Requests \cup OldIds

UserRow    == [id : UserIds, email : Emails, hash : Passwords, active : BOOLEAN]
SessionRow == [id : Ids, user : UserIds, via : Passwords, raced : BOOLEAN]
PwReqRow   == [id : Ids, user : UserIds, addr : Emails, raced : BOOLEAN]
EmReqRow   == [id : Ids, user : UserIds, newEmail : Emails, via : Passwords,
               raced : BOOLEAN]

TxState == [wrote : SUBSET UserRow, sess : SUBSET SessionRow,
            pw : SUBSET PwReqRow, em : SUBSET EmReqRow]
NoTx == [wrote |-> {}, sess |-> {}, pw |-> {}, em |-> {}]

OfUser(table, u) == {x \in table : x.user = u}

\* The UNIQUE and PRIMARY KEY constraints of the users table.
UniqueUsers(us) ==
    \A x, y \in us : x.id = y.id \/ x.email = y.email => x = y

\* Rows no reset overlapped carry the credentials the account has now.
CurrentRows(us, ss, ps, es) ==
    \A x \in us :
        /\ \A s \in ss : s.user = x.id /\ ~s.raced => s.via = x.hash
        /\ \A p \in ps : p.user = x.id /\ ~p.raced => p.addr = x.email
        /\ \A e \in es : e.user = x.id /\ ~e.raced => e.via = x.hash

\* Every sessions or reset-request row references a user (foreign keys).
ForeignKeys(us, ss, ps, es) ==
    \A row \in ss \cup ps \cup es : \E x \in us : x.id = row.user

\* Ids are drawn once: no two rows of the three tables share one.
DistinctIds(ss, ps, es) ==
    /\ \A s, z \in ss : s.id = z.id => s = z
    /\ \A p, z \in ps : p.id = z.id => p = z
    /\ \A e, z \in es : e.id = z.id => e = z
    /\ \A s \in ss : \A z \in ps \cup es : s.id # z.id
    /\ \A p \in ps, e \in es : p.id # e.id

ASSUME DatabaseAssumption ==
    /\ IsFiniteSet(Requests)
    /\ InitialDB \in [users : SUBSET UserRow, sessions : SUBSET SessionRow,
                      pwReqs : SUBSET PwReqRow, emReqs : SUBSET EmReqRow]
    /\ UniqueUsers(InitialDB.users)
    /\ CurrentRows(InitialDB.users, InitialDB.sessions,
                   InitialDB.pwReqs, InitialDB.emReqs)
    /\ ForeignKeys(InitialDB.users, InitialDB.sessions,
                   InitialDB.pwReqs, InitialDB.emReqs)
    /\ DistinctIds(InitialDB.sessions, InitialDB.pwReqs, InitialDB.emReqs)
    /\ \A row \in InitialDB.sessions \cup InitialDB.pwReqs \cup InitialDB.emReqs :
           row.id \in OldIds \ Requests

DbInit ==
    /\ users = InitialDB.users
    /\ sessions = InitialDB.sessions
    /\ pwReqs = InitialDB.pwReqs
    /\ emReqs = InitialDB.emReqs
    /\ tx = [r \in Requests |-> NoTx]

DbTypeOK ==
    /\ users \subseteq UserRow
    /\ sessions \subseteq SessionRow
    /\ pwReqs \subseteq PwReqRow
    /\ emReqs \subseteq EmReqRow
    /\ tx \in [Requests -> TxState]

-----------------------------------------------------------------------------
(***************************************************************************)
(* Reads: the set of rows a query returns (at most one for a :one query).  *)
(***************************************************************************)
GetUserByEmail(e) == {x \in users : x.email = e}
GetUserByID(u)    == {x \in users : x.id = u}
GetSession(id)    == {s \in sessions : s.id = id
                                      /\ \E x \in users : x.id = s.user /\ x.active}
GetSessionCountByUser(u) == Cardinality(OfUser(sessions, u))

(***************************************************************************)
(* Locks: the other requests whose open transaction makes a statement of r *)
(* wait.  An INSERT or UPDATE that would duplicate an email waits for the  *)
(* transactions still deciding about that email; an INSERT referencing a   *)
(* user takes a KEY SHARE lock on the user's row, which only an UPDATE of  *)
(* the unique email column conflicts with.                                 *)
(***************************************************************************)
Others(r) == Requests \ {r}

UserHolders(u, r)  == {o \in Others(r) : \E w \in tx[o].wrote : w.id = u}
EmailHolders(e, r) == {o \in Others(r) : \E w \in tx[o].wrote :
                          \/ w.email = e
                          \/ \E x \in users : x.id = w.id /\ x.email = e}
FkHolders(u, r)    == {o \in Others(r) : \E w \in tx[o].wrote :
                          w.id = u /\ \E x \in users : x.id = u /\ x.email # w.email}
SessionHolders(S, r) == {o \in Others(r) : tx[o].sess \cap S # {}}
PwHolders(P, r)      == {o \in Others(r) : tx[o].pw \cap P # {}}
EmHolders(E, r)      == {o \in Others(r) : tx[o].em \cap E # {}}

\* The UNIQUE constraint on users.email, for a row with id u.
NotUnique(e, u) == FALSE
Taken(e, u) == \E x \in users : x.email = e /\ x.id # u

(***************************************************************************)
(* The end of a transaction.  Commit publishes the written rows at once;   *)
(* Rollback (deferred in runWithTx, so it runs on every other path out of  *)
(* the callback) drops them and releases the locks.                        *)
(***************************************************************************)
Commit(r) ==
    /\ users' = {x \in users : \A w \in tx[r].wrote : w.id # x.id} \cup tx[r].wrote
    /\ sessions' = sessions \ tx[r].sess
    /\ pwReqs' = pwReqs \ tx[r].pw
    /\ emReqs' = emReqs \ tx[r].em
    /\ tx' = [tx EXCEPT ![r] = NoTx]

RollbackCommits(r) == Commit(r)
Rollback(r) ==
    /\ tx' = [tx EXCEPT ![r] = NoTx]
    /\ UNCHANGED <<users, sessions, pwReqs, emReqs>>
=============================================================================
