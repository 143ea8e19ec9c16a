---------------------------- MODULE SignInLimits ----------------------------
(***************************************************************************)
(* What the rate limits of internal/handlers protect: the accounts, the    *)
(* spellings of their addresses and the buckets of the four limited routes,*)
(* over a stretch of time in which no bucket is evicted (RateLimiter has   *)
(* the clock, the evictions and the races on a bucket).  The policies have *)
(* different Pers, so the stretch is given by what a bucket of each route  *)
(* can regain in it.  A handler is one step; AccountService has its        *)
(* statements and what interleaves with them.                              *)
(***************************************************************************)
EXTENDS EmailAddresses

CONSTANTS
    Texts,     \* what clients type for an email
    Limit,     \* Limit[route]: the Count of the route's policy
    Refills,   \* Refills[route]: the tokens its Per lets a bucket regain in the stretch
    MaxUsers   \* bound: accounts

FieldRoutes == {"POST /user/login", "POST /password-reset"}
UserRoutes  == {"PUT /user/password", "POST /email-reset"}

ASSUME LimitAssumption ==
    /\ Texts \subseteq Seq(Chars)
    /\ Limit \in [FieldRoutes \cup UserRoutes -> Nat \ {0}]
    /\ Refills \in [FieldRoutes \cup UserRoutes -> Nat]
    /\ MaxUsers \in Nat

VARIABLES
    users,    \* users[id]: the email column
    pending,  \* email_reset_requests: [user, new]
    spent,    \* spent[k]: tokens taken from the bucket of key k so far
    refilled, \* refilled[k]: tokens it regained
    asked,    \* asked[<<route, address>>]: calls of the service (history)
    tries,    \* tries[id]: passwords verified against the account (history)
    held,     \* held[id]: the addresses the account has had (history)
    mailed,   \* mailed[address]: mails the request routes sent (history)
    refused   \* <<route, address>> just answered 429 (history)

vars == <<users, pending, spent, refilled, asked, tries, held, mailed, refused>>

Ids       == 1..MaxUsers
Read      == [x \in Texts |-> Normalize(x)]  \* as tables, for TLC's sake
KeyOf     == [x \in Texts |-> Key(x)]
Addresses == UNION {Read[x] : x \in Texts}
Inboxes   == {Lower(a) : a \in Addresses}
InboxOf   == [x \in Texts |-> {Lower(a) : a \in Read[x]}]
Keys      == (FieldRoutes \X {KeyOf[x] : x \in Texts}) \cup (UserRoutes \X {<<i>> : i \in Ids})

\* What a bucket that starts full gives away in the stretch.
Most(route) == Limit[route] + Refills[route]

TypeOK ==
    /\ users \in Seq(Addresses) /\ Len(users) <= MaxUsers
    /\ pending \subseteq [user : 1..Len(users), new : Addresses]
    /\ DOMAIN spent = Keys /\ \A k \in Keys : spent[k] \in 0..Most(k[1])
    /\ DOMAIN refilled = Keys /\ \A k \in Keys : refilled[k] \in 0..Refills[k[1]]
    /\ asked \in [FieldRoutes \X Inboxes -> Nat]
    /\ tries \in [Ids -> Nat]
    /\ held \in [Ids -> SUBSET Inboxes]
    /\ mailed \in [Inboxes -> Nat]
    /\ refused \subseteq FieldRoutes \X Inboxes

Init ==
    /\ users = <<>> /\ pending = {}
    /\ spent = [k \in Keys |-> 0] /\ refilled = [k \in Keys |-> 0]
    /\ asked = [q \in FieldRoutes \X Inboxes |-> 0]
    /\ tries = [i \in Ids |-> 0]
    /\ held = [i \in Ids |-> {}]
    /\ mailed = [a \in Inboxes |-> 0]
    /\ refused = {}

\* GetUserByEmail, and the users a unique index on the column would refuse for.
Found(a) == {i \in DOMAIN users : SameAddress(users[i], a)}

-----------------------------------------------------------------------------
(***************************************************************************)
(* limited: a token of the key's bucket, or 429 and nothing else.          *)
(***************************************************************************)
AllowedOneMore(k) == spent[k] <= Limit[k[1]] + refilled[k]
Allowed(k)        == spent[k] < Limit[k[1]] + refilled[k]
Spend(k)          == spent' = [spent EXCEPT ![k] = @ + 1] /\ refilled' = refilled

LimitByField(route, x) ==
    /\ Allowed(<<route, KeyOf[x]>>)
    /\ Spend(<<route, KeyOf[x]>>)
    /\ asked' = [q \in DOMAIN asked |->
                   asked[q] + IF q[1] = route /\ q[2] \in InboxOf[x] THEN 1 ELSE 0]
    /\ refused' = {}
LimitByUser(route, i) ==
    /\ Allowed(<<route, <<i>>>>)
    /\ Spend(<<route, <<i>>>>)
    /\ refused' = {}
    /\ UNCHANGED asked

TooManyRequests(route, x) ==
    /\ ~Allowed(<<route, KeyOf[x]>>)
    /\ refused' = {route} \X InboxOf[x]
    /\ UNCHANGED <<users, pending, spent, refilled, asked, tries, held, mailed>>

\* With time a bucket regains a token, unless it is full.
Refill(k) ==
    /\ refilled[k] < Refills[k[1]] /\ refilled[k] < spent[k]
    /\ refilled' = [refilled EXCEPT ![k] = @ + 1]
    /\ refused' = {}
    /\ UNCHANGED <<users, pending, spent, asked, tries, held, mailed>>

Verified(ids) == tries' = [i \in Ids |-> tries[i] + IF i \in ids THEN 1 ELSE 0]
Mail(boxes)   == mailed' = [a \in Inboxes |-> mailed[a] + IF a \in boxes THEN 1 ELSE 0]

\* POST /user/signup, not limited.
SignUp(x) ==
    /\ Len(users) < MaxUsers
    /\ \E a \in Read[x] :
         /\ Found(a) = {}
         /\ users' = Append(users, a)
         /\ held' = [held EXCEPT ![Len(users')] = {Lower(a)}]
    /\ refused' = {}
    /\ UNCHANGED <<pending, spent, refilled, asked, tries, mailed>>

\* POST /user/login with any password.
LogIn(x) ==
    /\ LimitByField("POST /user/login", x)
    /\ Verified(UNION {Found(a) : a \in Read[x]})
    /\ UNCHANGED <<users, pending, held, mailed>>

\* POST /password-reset: the link goes to the address as it was typed.
Forgot(x) ==
    /\ LimitByField("POST /password-reset", x)
    /\ Mail({Lower(a) : a \in {b \in Read[x] : Found(b) # {}}})
    /\ UNCHANGED <<users, pending, tries, held>>

\* PUT /user/password with a wrong password (AccountService has the reset).
Reauthenticate(i) ==
    /\ LimitByUser("PUT /user/password", i)
    /\ Verified({i})
    /\ UNCHANGED <<users, pending, held, mailed>>

\* POST /email-reset: the limit is spent before the new address is read, and the
\* password is verified before the address is known to be free.
InUseByOther(i, a) == Found(a) \ {i} # {}
InUse(i, a)        == Found(a) # {}
AskEmail(i, x) ==
    /\ LimitByUser("POST /email-reset", i)
    /\ Verified(IF Read[x] = {} THEN {} ELSE {i})
    /\ \/ pending' = pending /\ mailed' = mailed
       \/ \E a \in Read[x] :
            /\ a # users[i] /\ ~InUse(i, a)
            /\ pending' = pending \cup {[user |-> i, new |-> a]}
            /\ mailed' = [b \in Inboxes |-> mailed[b] +
                            Cardinality({n \in {1, 2} : b = Lower(<<a, users[i]>>[n])})]
    /\ UNCHANGED <<users, held>>

\* PUT /email-reset: the unique index decides, and the account's other requests go.
ConfirmEmail(p) ==
    /\ Found(p.new) \ {p.user} = {}
    /\ users' = [users EXCEPT ![p.user] = p.new]
    /\ held' = [held EXCEPT ![p.user] = @ \cup {Lower(p.new)}]
    /\ pending' = {q \in pending : q.user # p.user}
    /\ refused' = {}
    /\ UNCHANGED <<spent, refilled, asked, tries, mailed>>

Next ==
    \/ \E x \in Texts : \/ SignUp(x) \/ LogIn(x) \/ Forgot(x)
                        \/ \E route \in FieldRoutes : TooManyRequests(route, x)
    \/ \E i \in DOMAIN users : \/ Reauthenticate(i)
                               \/ \E x \in Texts : AskEmail(i, x)
    \/ \E p \in pending : ConfirmEmail(p)
    \/ \E k \in Keys : Refill(k)

Spec == Init /\ [][Next]_vars
-----------------------------------------------------------------------------
\* A route takes its Count of requests about an address and what refills, however
\* they spell it ("password reset request rate limit key is case insensitive").
TriesPerAddress == \A q \in DOMAIN asked : asked[q] <= Most(q[1])

\* And refuses one only when a Count of them were about the same address: requests
\* about other addresses, well formed or not, do not count.
RefusalsEarned == \A q \in refused : asked[q] >= Limit[q[1]]

\* Passwords tried against an account, on any route: a changed address starts a
\* new bucket for login, and only login.
GuessesPerAccount ==
    \A i \in Ids : tries[i] <= Most("POST /user/login") * Cardinality(held[i])
                               + Most("PUT /user/password") + Most("POST /email-reset")

\* Whatever the limiter counts as the address of an account is read by the service
\* as that address: no spelling spends the bucket and then fails to find the user.
SpellingsReachAccount ==
    \A i \in DOMAIN users, x \in Texts :
        KeyOf[x] = Lower(users[i]) => \E a \in Read[x] : Found(a) = {i}

\* The mails the two request routes put in one inbox: what is asked for its
\* address, and one for each email change any of the accounts asks for.
MailsPerInbox ==
    \A a \in Inboxes : mailed[a] <= Most("POST /password-reset")
                                    + Len(users) * Most("POST /email-reset")
=============================================================================
