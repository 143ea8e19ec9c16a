--------------------------- MODULE AccountPromise ---------------------------
(***************************************************************************)
(* What the service promises about an account, with its statements, locks, *)
(* hashes and failures taken away: who can get in, by which grant, and     *)
(* what a reset does to that, in one step.  A grant is a session, a        *)
(* password token ("pw") or an email token ("em"), with the row that       *)
(* stands for it.  AccountService implements this.                         *)
(***************************************************************************)
VARIABLES
    accounts,   \* the accounts there are: rows of users
    grants,     \* the grants that still open one of them, as [kind, row]
    spent       \* ids of the tokens resets were made with

\* The grant was obtained with the password, and a password token mailed to
\* the address, that account x has.
Fresh(g, x) == IF g.kind = "pw" THEN g.row.addr = x.email ELSE g.row.via = x.hash

Of(x) == {g \in grants : g.row.user = x.id}

Unique == \A x, y \in accounts : x.id = y.id \/ x.email = y.email => x = y

\* A grant no reset overlapped opens the account as it is now.
FreshUnlessRaced == \A x \in accounts : \A g \in Of(x) : ~g.row.raced => Fresh(g, x)

Owned     == \A g \in grants : \E x \in accounts : x.id = g.row.user
SpentGone == \A g \in grants : g.row.id \notin spent

Kept == Unique /\ Owned /\ FreshUnlessRaced /\ SpentGone

Init == spent = {} /\ Kept

SignUp(x) ==
    /\ \A y \in accounts : y.id # x.id /\ y.email # x.email
    /\ accounts' = accounts \cup {x}
    /\ UNCHANGED <<grants, spent>>

\* Log in, or ask for a reset: a new grant of an existing account.
Open(x, g) ==
    /\ g.row.user = x.id
    /\ g.row.raced \/ Fresh(g, x)
    /\ g.row.id \notin spent
    /\ grants' = grants \cup {g}
    /\ UNCHANGED <<accounts, spent>>

\* Log out, expiry, the session limit.  A token goes by a reset only.
Close(g) ==
    /\ g.kind = "session"
    /\ grants' = grants \ {g}
    /\ UNCHANGED <<accounts, spent>>

\* x becomes y and every grant of x goes, but for some a reset overlapped.
Replace(x, y) ==
    /\ y.id = x.id /\ y.active = x.active
    /\ accounts' = (accounts \ {x}) \cup {y}
    /\ \A z \in accounts \ {x} : z.email # y.email
    /\ grants' \subseteq grants
    /\ \A g \in grants' : g.row.user = x.id => g.row.raced
    /\ \A g \in grants \ grants' : g.row.user = x.id

ChangePassword(x, y) ==
    /\ y.email = x.email
    /\ Replace(x, y)
    /\ UNCHANGED spent

\* The token was still there, the reset does what it says and ends it.
SpendToken(x, y, t) ==
    /\ t \in Of(x)
    /\ \/ t.kind = "pw" /\ y.email = x.email
       \/ t.kind = "em" /\ y.hash = x.hash /\ y.email = t.row.newEmail
    /\ Replace(x, y)
    /\ \A g \in grants' : g.row.id # t.row.id
    /\ spent' = spent \cup {t.row.id}

Deactivate(x, y) ==
    /\ y.id = x.id /\ y.email = x.email /\ y.hash = x.hash /\ ~y.active
    /\ accounts' = (accounts \ {x}) \cup {y}
    /\ UNCHANGED <<grants, spent>>

Next ==
    \/ \E x \in accounts' : SignUp(x)
    \/ \E g \in grants' : \E x \in accounts : Open(x, g)
    \/ \E g \in grants : Close(g)
    \/ \E x \in accounts, y \in accounts' :
          \/ ChangePassword(x, y) \/ Deactivate(x, y)
          \/ \E t \in grants : SpendToken(x, y, t)

vars == <<accounts, grants, spent>>

Spec == Init /\ [][Next]_vars
=============================================================================
