---------------------------- MODULE HttpAnswers ----------------------------
(***************************************************************************)
(* What a browser gets to see of one account: the status every handler     *)
(* answers with and the session cookie.  Requests of several tabs run at   *)
(* once through the middleware of NewMux and the handlers of               *)
(* internal/handlers/user.go; their answers arrive in any order.  What a   *)
(* service call does inside is AccountService; here it returns an error or *)
(* takes effect in one step.                                               *)
(***************************************************************************)
EXTENDS Integers, Sequences, SequencesExt

CONSTANTS
    Requests,     \* the requests of the browser; a session is named by its login
    OldSessions,  \* sessions the browser may have from before
    Faults        \* whether queries and mails fail, and rows vanish under a request

VARIABLES
    at,         \* at[r]: the stage request r is at
    op,         \* op[r]: the operation it asks for
    carried,    \* carried[r]: the session cookie it carried ({} for none)
    context,    \* context[r]: what the session middleware made of it
    cookies,    \* cookies[r]: the Set-Cookie headers of its answer
    wrote,      \* wrote[r]: the statuses passed to WriteHeader
    err,        \* err[r]: the error its service call returned
    effects,    \* effects[r]: what it changed for good (auxiliary)
    jar,        \* the session cookie of the browser
    rows,       \* the sessions of the account
    expired,    \* those too old to be used
    active      \* whether the account is active

world == <<jar, rows, expired, active>>
vars  == <<at, op, carried, context, cookies, wrote, err, effects, world>>

Authed  == {"logout", "get_user", "change_password", "change_email"}
Ops     == Authed \cup {"signup", "login", "forgot_password", "password_token", "email_token"}
Limited == {"login", "forgot_password", "change_password", "change_email"}
NoBody  == {"logout", "get_user", "email_token"}
Resets  == {"change_password", "password_token", "email_token"}

Junk  == "junk"    \* a cookie that is not base64
Clear == "clear"   \* ClearSessionCookie

ASSUME AnswersAssumption ==
    /\ Faults \in BOOLEAN
    /\ Requests \cap OldSessions = {} /\ {Junk, Clear} \cap (Requests \cup OldSessions) = {}

\* The named errors each method of the user service returns; weak stands for the
\* four of writeWeakPasswordError.
SignUpErrors         == {"busy", "email_blank", "email_taken", "invalid_email", "weak"}
LogInErrors          == {"busy", "credentials", "invalid_input", "invalid_email"}
ChangePasswordErrors == {"busy", "credentials", "weak"}
ForgotPasswordErrors == {"invalid_email", "user_not_found"}
PasswordTokenErrors  == {"busy", "reset_token", "weak"}
ChangeEmailErrors    == {"busy", "invalid_email", "email_taken", "credentials"}
EmailTokenErrors     == {"reset_token", "email_taken"}

\* The method each handler calls.
Returns(o) ==
    CASE o = "signup"          -> SignUpErrors
      [] o = "login"           -> LogInErrors
      [] o = "change_password" -> ChangePasswordErrors
      [] o = "forgot_password" -> ForgotPasswordErrors
      [] o = "password_token"  -> PasswordTokenErrors
      [] o = "change_email"    -> ChangeEmailErrors
      [] o = "email_token"     -> EmailTokenErrors
      [] OTHER                 -> {}

\* The write...Error function of each handler.
WriteError(o) ==
    CASE o = "signup"          -> [busy |-> 503, email_blank |-> 400, email_taken |-> 400,
                                   invalid_email |-> 400, weak |-> 400]
      [] o = "login"           -> [busy |-> 503, credentials |-> 401, invalid_input |-> 400,
                                   invalid_email |-> 400]
      [] o = "change_password" -> [busy |-> 503, credentials |-> 401, weak |-> 400]
      [] o = "forgot_password" -> [invalid_email |-> 400, user_not_found |-> 204]
      [] o = "password_token"  -> [busy |-> 503, reset_token |-> 400, weak |-> 400]
      [] o = "change_email"    -> [busy |-> 503, invalid_email |-> 400, email_taken |-> 400,
                                   credentials |-> 401]
      [] o = "email_token"     -> [reset_token |-> 400, email_taken |-> 400]

Status(o, e) == IF e \in DOMAIN WriteError(o) THEN WriteError(o)[e] ELSE 500

TypeOK ==
    /\ at \in [Requests -> {"idle", "session", "drop", "touch", "handler", "create",
                          "answered", "delivered"}]
    /\ op \in [Requests -> Ops \cup {"none"}]
    /\ \A r \in Requests : carried[r] \subseteq Requests \cup OldSessions \cup {Junk}
    /\ context \in [Requests -> {"unread", "none", "undeleted", "error", "user"}]
    /\ \A r \in Requests : /\ Len(cookies[r]) <= 2 /\ Len(wrote[r]) <= 1
                           /\ ToSet(wrote[r]) \subseteq 200..503
                           /\ ToSet(cookies[r]) \subseteq {Clear, r}
    /\ jar \subseteq Requests \cup OldSessions \cup {Junk}
    /\ rows \subseteq Requests \cup OldSessions
    /\ expired \subseteq Requests \cup OldSessions
    /\ active \in BOOLEAN

Init ==
    /\ at = [r \in Requests |-> "idle"]
    /\ op = [r \in Requests |-> "none"]
    /\ carried = [r \in Requests |-> {}]
    /\ context = [r \in Requests |-> "unread"]
    /\ cookies = [r \in Requests |-> <<>>]
    /\ wrote = [r \in Requests |-> <<>>]
    /\ err = [r \in Requests |-> "none"]
    /\ effects = [r \in Requests |-> {}]
    /\ jar \in {{}, {Junk}} \cup {{s} : s \in OldSessions}
    /\ rows \in SUBSET OldSessions
    /\ expired = {}
    /\ active = TRUE

At(r, stage)   == at[r] = stage
Goto(r, stage) == at' = [at EXCEPT ![r] = stage]

\* WriteJSONResponse, WriteAndReportInternalError or WriteHeader, then return.
WriteHeader(r, status) == wrote' = [wrote EXCEPT ![r] = Append(@, status)]
Answer(r, status) == WriteHeader(r, status) /\ Goto(r, "answered")

\* AddSessionToCookie and ClearSessionCookie add a header; the browser obeys
\* the headers in order.
SetCookie(r, c) == cookies' = [cookies EXCEPT ![r] = Append(@, c)]

-----------------------------------------------------------------------------
Send(r) ==
    /\ At(r, "idle")
    /\ \E o \in Ops : op' = [op EXCEPT ![r] = o]
    /\ carried' = [carried EXCEPT ![r] = jar]
    /\ Goto(r, "session")
    /\ UNCHANGED <<context, cookies, wrote, err, effects, world>>

\* CrossOriginProtection of net/http: safe methods pass.
CrossOrigin(r) ==
    /\ At(r, "session") /\ op[r] # "get_user"
    /\ Answer(r, 403)
    /\ UNCHANGED <<op, carried, context, cookies, err, effects, world>>

(***************************************************************************)
(* CreateSessionMiddleware.  A cookie without a session, and an expired    *)
(* one, is cleared, whether or not the expired session could be deleted;   *)
(* when the query fails the cookie stays.  A session judged in time is     *)
(* touched, which makes one usable again that grew too old meanwhile.  The *)
(* handler runs in any case.                                               *)
(***************************************************************************)
Found(r)         == carried[r] \cap rows # {} /\ active
Resolve(r, what) == context' = [context EXCEPT ![r] = what]

SessionClears(r) ==
    /\ At(r, "session")
    /\ \/ carried[r] = {} /\ Resolve(r, "none") /\ Goto(r, "handler") /\ UNCHANGED cookies
       \/ /\ carried[r] # {} /\ ~Found(r)
          /\ Resolve(r, "none") /\ SetCookie(r, Clear) /\ Goto(r, "handler")
       \/ /\ Faults /\ carried[r] \notin {{}, {Junk}}
          /\ Resolve(r, "error") /\ SetCookie(r, Clear) /\ Goto(r, "handler")
       \/ /\ Found(r) /\ Goto(r, IF carried[r] \subseteq expired THEN "drop" ELSE "touch")
          /\ UNCHANGED <<context, cookies>>
    /\ UNCHANGED <<op, carried, wrote, err, effects, world>>
Session(r) ==
    /\ At(r, "session")
    /\ \/ carried[r] = {} /\ Resolve(r, "none") /\ Goto(r, "handler") /\ UNCHANGED cookies
       \/ /\ carried[r] # {} /\ ~Found(r)
          /\ Resolve(r, "none") /\ SetCookie(r, Clear) /\ Goto(r, "handler")
       \/ /\ Faults /\ carried[r] \notin {{}, {Junk}}
          /\ Resolve(r, "error") /\ Goto(r, "handler") /\ UNCHANGED cookies
       \/ /\ Found(r) /\ Goto(r, IF carried[r] \subseteq expired THEN "drop" ELSE "touch")
          /\ UNCHANGED <<context, cookies>>
    /\ UNCHANGED <<op, carried, wrote, err, effects, world>>

DropIfDeleted(r) ==
    /\ At(r, "drop")
    /\ \/ rows' = rows \ carried[r] /\ Resolve(r, "none") /\ SetCookie(r, Clear)
       \/ Faults /\ Resolve(r, "undeleted") /\ UNCHANGED <<rows, cookies>>
    /\ Goto(r, "handler")
    /\ UNCHANGED <<op, carried, wrote, err, effects, jar, expired, active>>
Drop(r) ==
    /\ At(r, "drop")
    /\ \/ rows' = rows \ carried[r] /\ Resolve(r, "none")
       \/ Faults /\ Resolve(r, "undeleted") /\ UNCHANGED rows
    /\ SetCookie(r, Clear)
    /\ Goto(r, "handler")
    /\ UNCHANGED <<op, carried, wrote, err, effects, jar, expired, active>>

\* UpdateLastSeen writes, or finds last_seen_at recent enough, or fails.
Touch(r) ==
    /\ At(r, "touch")
    /\ expired' \in {expired \ carried[r], expired}
    /\ Resolve(r, "user")
    /\ Goto(r, "handler")
    /\ UNCHANGED <<op, carried, cookies, wrote, err, effects, jar, rows, active>>

(***************************************************************************)
(* What a handler checks before its service call: WithUser, the rate       *)
(* limit, the JSON body.                                                   *)
(***************************************************************************)
Admitted(r) == op[r] \in Authed => context[r] = "user"

Unauthorized(r) ==
    /\ At(r, "handler") /\ ~Admitted(r)
    /\ Answer(r, 401)
    /\ UNCHANGED <<op, carried, context, cookies, err, effects, world>>

\* WriteAndReportInternalError, whatever the error is called.
Fails(r, errors) ==
    /\ Faults /\ \E e \in errors : err' = [err EXCEPT ![r] = e]
    /\ Answer(r, 500)
    /\ UNCHANGED cookies

\* WithUser's getUser fails, or finds no user.
UserUnread(r) ==
    /\ At(r, "handler") /\ op[r] \in Authed /\ Admitted(r)
    /\ Fails(r, {"internal", "user_not_found"})
    /\ UNCHANGED <<op, carried, context, effects, world>>

RefuseAndGoOn(r) ==
    /\ At(r, "handler") /\ Admitted(r)
    /\ wrote[r] = <<>> /\ op[r] \in Limited /\ WriteHeader(r, 429)
    /\ UNCHANGED <<at, op, carried, context, cookies, err, effects, world>>
Refuse(r) ==
    /\ At(r, "handler") /\ Admitted(r)
    /\ \/ op[r] \in Limited /\ Answer(r, 429)
       \/ op[r] \notin NoBody /\ \E status \in {400, 413} : Answer(r, status)
    /\ UNCHANGED <<op, carried, context, cookies, err, effects, world>>

-----------------------------------------------------------------------------
(***************************************************************************)
(* The service call.                                                       *)
(***************************************************************************)
Called(r) == At(r, "handler") /\ Admitted(r)

\* It returns an error and has changed nothing: what a transaction did before
\* is rolled back.
ServiceError(r) ==
    /\ Called(r) /\ op[r] \notin {"logout", "get_user"}
    /\ \E e \in Returns(op[r]) \cup (IF Faults THEN {"internal"} ELSE {}) :
          /\ err' = [err EXCEPT ![r] = e]
          /\ Answer(r, Status(op[r], e))
    /\ UNCHANGED <<op, carried, context, cookies, effects, world>>

Change(r, what) == effects' = [effects EXCEPT ![r] = @ \cup what]

Succeed(r) == Answer(r, 204) /\ UNCHANGED err

\* The answer to a statement that took effect may be lost.
SignUp(r) ==
    /\ Called(r) /\ op[r] = "signup"
    /\ Change(r, {"user"})
    /\ \/ Goto(r, "create") /\ UNCHANGED <<cookies, wrote, err>>
       \/ Fails(r, {"internal"})
    /\ UNCHANGED <<op, carried, context, world>>

LogIn(r) ==
    /\ Called(r) /\ op[r] = "login" /\ active
    /\ Goto(r, "create")
    /\ UNCHANGED <<op, carried, context, cookies, wrote, err, effects, world>>

\* CreateSession after SignUp or LogIn: it may delete the least recently used
\* session, for good, before the insert, whose failure fails the whole request.
CreateSessionUnchecked(r) ==
    /\ At(r, "create")
    /\ \/ rows' = rows \cup {r} /\ Change(r, {"session"}) /\ SetCookie(r, r)
       \/ Faults /\ UNCHANGED <<rows, effects, cookies>>
    /\ Succeed(r)
    /\ UNCHANGED <<op, carried, context, jar, expired, active>>
CreateSession(r) ==
    /\ At(r, "create")
    /\ \E lru \in {{}} \cup {{s} : s \in rows} :
          LET evicted == {"evicted" : s \in lru} IN
          \/ /\ rows' = (rows \ lru) \cup {r} /\ Change(r, evicted \cup {"session"})
             /\ \/ Succeed(r) /\ SetCookie(r, r)
                \/ Fails(r, {"internal"})
          \/ /\ rows' = rows \ lru /\ Change(r, evicted)
             /\ Fails(r, {"internal", "user_not_found"})
    /\ UNCHANGED <<op, carried, context, jar, expired, active>>

\* A failed DeleteSession is logged, and the logout answered all the same.
Logout(r) ==
    /\ Called(r) /\ op[r] = "logout"
    /\ \/ rows' = rows \ carried[r] /\ Change(r, {"end"}) /\ UNCHANGED err
       \/ /\ Faults /\ err' = [err EXCEPT ![r] = "internal"]
          /\ UNCHANGED <<rows, effects>>
    /\ SetCookie(r, Clear) /\ Answer(r, 204)
    /\ UNCHANGED <<op, carried, context, jar, expired, active>>

GetUser(r) ==
    /\ Called(r) /\ op[r] = "get_user"
    /\ Answer(r, 200)
    /\ UNCHANGED <<op, carried, context, cookies, err, effects, world>>

\* The three resets change the account and delete every session in one
\* transaction; only the one by password clears the cookie.
ResetPiecemeal(r) ==
    /\ Called(r) /\ op[r] \in Resets
    /\ \/ /\ rows' = {} /\ Change(r, {"credentials", "wiped"})
          /\ Succeed(r)
          /\ IF op[r] = "change_password" THEN SetCookie(r, Clear) ELSE UNCHANGED cookies
       \/ /\ Change(r, {"credentials"}) /\ UNCHANGED rows
          /\ Fails(r, {"internal"})
    /\ UNCHANGED <<op, carried, context, jar, expired, active>>
Reset(r) ==
    /\ Called(r) /\ op[r] \in Resets
    /\ rows' = {} /\ Change(r, {"credentials", "wiped"})
    /\ \/ /\ Succeed(r)
          /\ IF op[r] = "change_password" THEN SetCookie(r, Clear) ELSE UNCHANGED cookies
       \/ Fails(r, {"internal"})
    /\ UNCHANGED <<op, carried, context, jar, expired, active>>

\* The mail goes out after the reset request is committed, and may fail.
RequestReset(r) ==
    /\ Called(r) /\ op[r] \in {"forgot_password", "change_email"}
    /\ \/ Change(r, {"request", "mail"}) /\ Succeed(r) /\ UNCHANGED cookies
       \/ Change(r, {"request"}) /\ Fails(r, {"internal"})
    /\ UNCHANGED <<op, carried, context, world>>

-----------------------------------------------------------------------------
\* The browser takes the answer; the last Set-Cookie wins.
Deliver(r) ==
    /\ At(r, "answered")
    /\ Goto(r, "delivered")
    /\ jar' = IF cookies[r] = <<>> THEN jar
              ELSE IF Last(cookies[r]) = Clear THEN {} ELSE {Last(cookies[r])}
    /\ UNCHANGED <<op, carried, context, cookies, wrote, err, effects, rows, expired, active>>

\* Another device resets the account, an operator deactivates it, or a session
\* gets too old.
Elsewhere ==
    /\ \/ rows # {} /\ rows' = {} /\ UNCHANGED <<expired, active>>
       \/ active /\ active' = FALSE /\ UNCHANGED <<rows, expired>>
       \/ \E s \in rows \ expired :
             expired' = expired \cup {s} /\ UNCHANGED <<rows, active>>
    /\ UNCHANGED <<at, op, carried, context, cookies, wrote, err, effects, jar>>

Quiesced == (\A r \in Requests : At(r, "delivered")) /\ UNCHANGED vars

Handle(r) ==
    \/ CrossOrigin(r) \/ Session(r) \/ Drop(r) \/ Touch(r) \/ Unauthorized(r) \/ UserUnread(r)
    \/ Refuse(r) \/ ServiceError(r) \/ SignUp(r) \/ LogIn(r) \/ CreateSession(r) \/ Logout(r)
    \/ GetUser(r) \/ Reset(r) \/ RequestReset(r)

Next == (\E r \in Requests : Send(r) \/ Handle(r) \/ Deliver(r)) \/ Elsewhere \/ Quiesced

Spec == Init /\ [][Next]_vars
-----------------------------------------------------------------------------
\* The status statusRecorder logs, which is the one net/http sends: the first.
Logged(r) == IF wrote[r] = <<>> THEN 200 ELSE Head(wrote[r])

Answered(r) == at[r] \in {"answered", "delivered"}

\* What an operation is for.
Goal(o) == CASE o = "signup" -> {"user", "session"}
             [] o = "login" -> {"session"}
             [] o = "logout" -> {"end"}
             [] o \in Resets -> {"credentials", "wiped"}
             [] o \in {"forgot_password", "change_email"} -> {"request", "mail"}
             [] OTHER -> {}

\* A request whose log line says it was refused, or the server was busy, has
\* changed nothing; that the middleware deleted its expired session aside.
RefusedChangesNothing ==
    \A r \in Requests : Answered(r) /\ Logged(r) \in 400..499 \cup {503} => effects[r] = {}

\* A request answered with success did what it is for; but a logout is also
\* answered so when the session could not be deleted, and a password reset
\* request when there is no such account.
SuccessIsReal ==
    \A r \in Requests : Answered(r) /\ Logged(r) \in 200..299 =>
        \/ Goal(op[r]) \subseteq effects[r]
        \/ op[r] = "logout" /\ err[r] = "internal"
        \/ op[r] = "forgot_password" /\ err[r] = "user_not_found"

\* What a failed request may leave behind: a user without a session, an eviction
\* without the new session, a reset request nobody was told of.
Leftover(o) == CASE o = "signup" -> {"user", "evicted"}
                 [] o = "login" -> {"evicted"}
                 [] o \in {"forgot_password", "change_email"} -> {"request"}
                 [] OTHER -> {}

\* What was done by halves is answered with 500 and is one of these leftovers:
\* never half a reset, and never a half that passes for a refusal or a success.
HalvesAreErrors ==
    \A r \in Requests : Answered(r) /\ effects[r] # {} /\ ~(Goal(op[r]) \subseteq effects[r]) =>
        Logged(r) = 500 /\ effects[r] \subseteq Leftover(op[r])

Delivered(r) == At(r, "answered") /\ at'[r] = "delivered"

\* A successful sign-up or login leaves the browser with its session, although
\* the answer of a request with a stale cookie clears that cookie as well.
LoginSticks ==
    [][\A r \in Requests : Delivered(r) /\ Logged(r) = 204 /\ op[r] \in {"signup", "login"}
         => jar' = {r}]_vars

Usable(s) == s \in rows \ expired /\ active

\* The browser loses the cookie of a session that still works to the answer of
\* a request that did not carry it, to a newer login, or to a logout or a drop
\* the database failed; never to a query that failed or to another answer.
KeepsUsable ==
    [][\A s \in jar \ jar' : Usable(s) =>
         \E r \in Requests : /\ Delivered(r)
                             /\ \/ s \notin carried[r] \/ r \in jar'
                                \/ op[r] = "logout" /\ err[r] = "internal"
                                \/ context[r] = "undeleted"]_vars

\* A cookie the middleware found no usable session for is gone with the answer.
StaleCleared ==
    [][\A r \in Requests : Delivered(r) /\ context[r] \in {"none", "undeleted"}
         => carried[r] \cap jar' = {}]_vars
=============================================================================
