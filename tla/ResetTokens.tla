----------------------------- MODULE ResetTokens -----------------------------
(***************************************************************************)
(* The age of a reset token, of either kind: an account's rows of a reset  *)
(* request table, the requests that present their tokens, and the clocks.  *)
(* created_at is Postgres's NOW(), the check reads the application's clock,*)
(* after the DELETE of the row and long before the commit.  A DELETE waits *)
(* for the transaction that holds its row (AccountService has the other    *)
(* statements and their locks).                                            *)
(***************************************************************************)
EXTENDS Integers

CONSTANTS
    Requests,   \* requests that present a token
    Tokens,     \* tokens the account asks for
    Life,       \* passwordResetTokenDuration, emailResetTokenDuration
    MaxSkew,    \* how far the application's clock is from the database's
    MaxTime     \* bound of the clock

ASSUME TokensAssumption == {Life, MaxSkew, MaxTime} \subseteq Nat

None == "none"
ASSUME NoneAssumption == None \notin Tokens

VARIABLES
    now,        \* the database's clock
    skew,       \* the application's clock is now + skew, all along
    created,    \* created[t]: created_at of the row of t (-1 before)
    rows,       \* the tokens whose rows are there
    lock,       \* lock[r]: the rows the transaction of r has deleted
    pc,         \* pc[r]: the next step of r
    presented,  \* presented[r]: the token r was sent, or None
    sentAt,     \* sentAt[r]: when (auxiliary)
    spent,      \* the tokens of committed resets (auxiliary)
    refused     \* tokens some request was told were expired (auxiliary)

vars == <<now, skew, created, rows, lock, pc, presented, sentAt, spent, refused>>

TypeOK ==
    /\ now \in 0..MaxTime /\ skew \in -MaxSkew..MaxSkew
    /\ created \in [Tokens -> -1..MaxTime]
    /\ rows \subseteq Tokens
    /\ lock \in [Requests -> SUBSET Tokens]
    /\ pc \in [Requests -> {"idle", "consume", "check", "hash", "delete", "commit", "end"}]
    /\ presented \in [Requests -> Tokens \cup {None}]
    /\ sentAt \in [Requests -> 0..MaxTime]
    /\ spent \subseteq Tokens /\ refused \subseteq Tokens

Init ==
    /\ now = 0 /\ skew \in -MaxSkew..MaxSkew
    /\ created = [t \in Tokens |-> -1]
    /\ rows = {}
    /\ lock = [r \in Requests |-> {}]
    /\ pc = [r \in Requests |-> "idle"]
    /\ presented = [r \in Requests |-> None]
    /\ sentAt = [r \in Requests |-> 0]
    /\ spent = {} /\ refused = {}

Goto(r, step) == pc' = [pc EXCEPT ![r] = step]
At(r, step)   == pc[r] = step

LockedByOther(r) == UNION {lock[o] : o \in Requests \ {r}}

Tick ==
    /\ now < MaxTime
    /\ now' = now + 1
    /\ UNCHANGED <<skew, created, rows, lock, pc, presented, sentAt, spent, refused>>

\* CreatePasswordResetRequest or CreateEmailResetRequest inserts a row
\* (AskExpiry: with the time it expires, for the mutant).
AskExpiry(t) ==
    /\ created[t] = -1
    /\ created' = [created EXCEPT ![t] = now + Life]
    /\ rows' = rows \cup {t}
    /\ UNCHANGED <<now, skew, lock, pc, presented, sentAt, spent, refused>>
Ask(t) ==
    /\ created[t] = -1
    /\ created' = [created EXCEPT ![t] = now]
    /\ rows' = rows \cup {t}
    /\ UNCHANGED <<now, skew, lock, pc, presented, sentAt, spent, refused>>

\* A request with a token that was mailed; several may have the same one.
Present(r) ==
    /\ At(r, "idle")
    /\ \E t \in Tokens : created[t] # -1 /\ presented' = [presented EXCEPT ![r] = t]
    /\ sentAt' = [sentAt EXCEPT ![r] = now]
    /\ Goto(r, "consume")
    /\ UNCHANGED <<now, skew, created, rows, lock, spent, refused>>

\* ConsumePasswordResetRequest, ConsumeEmailResetRequest: DELETE ... RETURNING
\* the row, or no such row (SelectRow: a SELECT, for the mutant).
SelectRow(r) ==
    /\ At(r, "consume")
    /\ Goto(r, IF presented[r] \in rows THEN "check" ELSE "end")
    /\ UNCHANGED <<now, skew, created, rows, lock, presented, sentAt, spent, refused>>
Consume(r) ==
    /\ At(r, "consume")
    /\ presented[r] \notin LockedByOther(r)
    /\ IF presented[r] \in rows
       THEN lock' = [lock EXCEPT ![r] = {presented[r]}] /\ Goto(r, "check")
       ELSE Goto(r, "end") /\ UNCHANGED lock
    /\ UNCHANGED <<now, skew, created, rows, presented, sentAt, spent, refused>>

\* time.Now().After(expiresAt)
NeverExpired(t) == FALSE
Expired(t)      == now + skew > created[t] + Life

\* Every path out of the transaction but its commit is a rollback.
Rollback(r) == lock' = [lock EXCEPT ![r] = {}] /\ Goto(r, "end")

Check(r) ==
    /\ At(r, "check")
    /\ \/ /\ Expired(presented[r])
          /\ Rollback(r)
          /\ refused' = refused \cup {presented[r]}
       \/ ~Expired(presented[r]) /\ Goto(r, "hash") /\ UNCHANGED <<lock, refused>>
    /\ UNCHANGED <<now, skew, created, rows, presented, sentAt, spent>>

\* createPasswordHash (only for a password) and the UPDATE of the user, which
\* lets one reset of the account through at a time.
Hash(r) ==
    /\ At(r, "hash")
    /\ \A o \in Requests : pc[o] \notin {"delete", "commit"}
    /\ Goto(r, "delete")
    /\ UNCHANGED <<now, skew, created, rows, lock, presented, sentAt, spent, refused>>

\* deleteOutstandingResetRequests.
Delete(r) ==
    /\ At(r, "delete")
    /\ rows \cap LockedByOther(r) = {}
    /\ lock' = [lock EXCEPT ![r] = rows]
    /\ Goto(r, "commit")
    /\ UNCHANGED <<now, skew, created, rows, presented, sentAt, spent, refused>>

Commit(r) ==
    /\ At(r, "commit")
    /\ rows' = rows \ lock[r]
    /\ spent' = spent \cup {presented[r]}
    /\ Rollback(r)
    /\ UNCHANGED <<now, skew, created, presented, sentAt, refused>>

\* A busy server, a failed statement, a cancelled request or a deadlock.
FailCommits(r) ==
    /\ pc[r] \in {"check", "hash", "delete", "commit"}
    /\ rows' = rows \ lock[r]
    /\ Rollback(r)
    /\ UNCHANGED <<now, skew, created, presented, sentAt, spent, refused>>
Fail(r) ==
    /\ pc[r] \notin {"idle", "end"}
    /\ Rollback(r)
    /\ UNCHANGED <<now, skew, created, rows, presented, sentAt, spent, refused>>

Quiesced == (\A r \in Requests : At(r, "end")) /\ UNCHANGED vars

Next ==
    \/ Tick
    \/ \E t \in Tokens : Ask(t)
    \/ \E r \in Requests : \/ Present(r) \/ Consume(r) \/ Check(r) \/ Hash(r)
                           \/ Delete(r) \/ Commit(r) \/ Fail(r)
    \/ Quiesced

Spec == Init /\ [][Next]_vars
-----------------------------------------------------------------------------
\* A token sent after its lifetime, by more than the clocks differ, is never
\* spent, however its request waits and whatever others do with it.
LateNeverSpent ==
    \A r \in Requests : pc[r] \in {"hash", "delete", "commit"} =>
        sentAt[r] <= created[presented[r]] + Life + MaxSkew

\* Of several requests with one token none is told it has expired while another
\* resets with it: the row stays locked from before the check to the commit.
ExpiredForGood == refused \cap spent = {}

\* A token that no reset has spent can be presented again: its row is there
\* until a reset of the account commits, expired or not.
KeptForRetry == \A t \in Tokens : created[t] # -1 /\ spent = {} => t \in rows
=============================================================================
