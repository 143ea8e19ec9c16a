------------------------- MODULE HttpAnswersProofs --------------------------
(***************************************************************************)
(* Status and cookie of every answer, for any number of tabs and sessions. *)
(* Of a request by itself: what it has changed, answered and set at each   *)
(* stage (Progress), and what an answer means (Meant).  Of the requests    *)
(* together: the session a request carried was given out before, so that   *)
(* once a header clears it because it is gone, no login of another tab and *)
(* no late touch brings it back (Given, Cleared).                          *)
(***************************************************************************)
EXTENDS HttpAnswers, TLAPS

Early   == {"idle", "session", "drop", "touch"}
Stages  == Early \cup {"handler", "create", "answered", "delivered"}
Views   == {"unread", "none", "undeleted", "error", "user"}
Named   == UNION {Returns(o) : o \in Ops}
Errors  == Named \cup {"none", "internal"}
Changes == {"user", "evicted", "session", "end", "credentials", "wiped", "request", "mail"}
Names   == Requests \cup OldSessions \cup {Junk}

Shape ==
    /\ at \in [Requests -> Stages]
    /\ op \in [Requests -> Ops \cup {"none"}]
    /\ carried \in [Requests -> SUBSET Names]
    /\ context \in [Requests -> Views]
    /\ cookies \in [Requests -> Seq(Requests \cup {Clear})]
    /\ wrote \in [Requests -> Seq(Nat)]
    /\ err \in [Requests -> Errors]
    /\ effects \in [Requests -> SUBSET Changes]
    /\ jar \subseteq Names /\ rows \subseteq Requests \cup OldSessions
    /\ expired \subseteq Requests \cup OldSessions /\ active \in BOOLEAN

\* What a request has done by the time it is at a stage.
Progress(r) ==
    /\ at[r] \in Early => cookies[r] = <<>> /\ context[r] = "unread"
    /\ at[r] \in Early \cup {"handler"} => effects[r] = {}
    /\ ~Answered(r) => wrote[r] = <<>> /\ err[r] = "none"
    /\ at[r] # "idle" => op[r] \in Ops
    /\ at[r] = "create" => \/ op[r] = "login" /\ effects[r] = {}
                           \/ op[r] = "signup" /\ effects[r] = {"user"}
    /\ at[r] \in {"handler", "create"} => cookies[r] \in {<<>>, <<Clear>>}

\* What its answer says.
Meant(r, status) ==
    /\ status \in 400..499 \cup {503} => effects[r] = {}
    /\ status \in 200..299 => \/ Goal(op[r]) \subseteq effects[r]
                              \/ op[r] = "logout" /\ err[r] = "internal"
                              \/ op[r] = "forgot_password" /\ err[r] = "user_not_found"
    /\ \/ effects[r] = {} \/ Goal(op[r]) \subseteq effects[r]
       \/ status = 500 /\ effects[r] \subseteq Leftover(op[r])
    /\ status = 204 /\ op[r] \in {"signup", "login"} => cookies[r] \in {<<r>>, <<Clear, r>>}
Headers(r) ==
    Answered(r) => /\ cookies[r] \in {<<>>, <<Clear>>, <<Clear, Clear>>, <<r>>, <<Clear, r>>}
                   /\ \E status \in 200..503 : wrote[r] = <<status>> /\ Meant(r, status)

\* The sessions the browser has got: an answer brought them.
Got == OldSessions \cup {Junk} \cup {r \in Requests : at[r] = "delivered"}

Given(r)   == carried[r] \subseteq Got \ {r}
Gone(r)    == carried[r] \cap rows = {} \/ ~active
Spared(r)    == (op[r] = "logout" /\ err[r] = "internal") \/ context[r] = "undeleted"
Cleared(r) ==
    /\ cookies[r] \in {<<Clear>>, <<Clear, Clear>>} => Spared(r) \/ Gone(r)
    /\ context[r] \in {"none", "undeleted"} => carried[r] = {} \/ cookies[r] # <<>>

Fine(r) == Progress(r) /\ Headers(r) /\ Given(r) /\ Cleared(r)

AnswerInv == Shape /\ jar \subseteq Got /\ \A r \in Requests : Fine(r)

LEMMA AnswerInit == Init => AnswerInv
  <1> SUFFICES ASSUME Init PROVE AnswerInv
    OBVIOUS
  <1>1. Shape
    <2>1. /\ at \in [Requests -> Stages] /\ op \in [Requests -> Ops \cup {"none"}]
          /\ err \in [Requests -> Errors] /\ effects \in [Requests -> SUBSET Changes]
          /\ context \in [Requests -> Views]
      <3>1. "none" \in Errors
        BY DEF Errors
      <3>2. {} \in SUBSET Changes /\ "idle" \in Stages /\ "unread" \in Views
        BY DEF Stages, Early, Views
      <3> QED BY <3>1, <3>2 DEF Init
    <2>2. /\ carried \in [Requests -> SUBSET Names]
          /\ cookies \in [Requests -> Seq(Requests \cup {Clear})]
          /\ wrote \in [Requests -> Seq(Nat)]
      BY DEF Init
    <2>3. /\ jar \subseteq Names /\ rows \subseteq Requests \cup OldSessions
          /\ expired \subseteq Requests \cup OldSessions /\ active \in BOOLEAN
      BY DEF Init, Names
    <2> QED BY <2>1, <2>2, <2>3 DEF Shape
  <1>2. jar \subseteq Got
    BY DEF Init, Got
  <1>3. ASSUME NEW r \in Requests PROVE Fine(r)
    <2>1. /\ at[r] = "idle" /\ carried[r] = {} /\ context[r] = "unread" /\ cookies[r] = <<>>
          /\ wrote[r] = <<>> /\ err[r] = "none" /\ effects[r] = {}
      BY DEF Init
    <2> QED BY <2>1 DEF Fine, Progress, Headers, Answered, Given, Cleared, Early
  <1> QED BY <1>1, <1>2, <1>3 DEF AnswerInv

-----------------------------------------------------------------------------
\* The services' errors have the statuses of a refusal, one aside; any other is a 500.
LEMMA Statuses ==
    ASSUME NEW o \in Ops, NEW e \in Returns(o)
    PROVE  \/ Status(o, e) \in {400, 401, 503}
           \/ o = "forgot_password" /\ e = "user_not_found" /\ Status(o, e) = 204
  <1> USE DEF Returns, SignUpErrors, LogInErrors, ChangePasswordErrors, ForgotPasswordErrors,
             PasswordTokenErrors, ChangeEmailErrors, EmailTokenErrors
  <1>1. CASE o = "signup"
    BY <1>1 DEF WriteError, Status
  <1>2. CASE o = "login"
    BY <1>2 DEF WriteError, Status
  <1>3. CASE o = "change_password"
    BY <1>3 DEF WriteError, Status
  <1>4. CASE o = "forgot_password"
    BY <1>4 DEF WriteError, Status
  <1>5. CASE o = "password_token"
    BY <1>5 DEF WriteError, Status
  <1>6. CASE o = "change_email"
    BY <1>6 DEF WriteError, Status
  <1>7. CASE o = "email_token"
    BY <1>7 DEF WriteError, Status
  <1>8. CASE o \in {"logout", "get_user"}
    BY <1>8
  <1> QED BY <1>1, <1>2, <1>3, <1>4, <1>5, <1>6, <1>7, <1>8 DEF Ops, Authed

LEMMA InternalStatus ==
    ASSUME NEW o \in Ops \ {"logout", "get_user"}
    PROVE  Status(o, "internal") = 500
  <1>1. CASE o = "signup"
    BY <1>1 DEF WriteError, Status
  <1>2. CASE o = "login"
    BY <1>2 DEF WriteError, Status
  <1>3. CASE o = "change_password"
    BY <1>3 DEF WriteError, Status
  <1>4. CASE o = "forgot_password"
    BY <1>4 DEF WriteError, Status
  <1>5. CASE o = "password_token"
    BY <1>5 DEF WriteError, Status
  <1>6. CASE o = "change_email"
    BY <1>6 DEF WriteError, Status
  <1>7. CASE o = "email_token"
    BY <1>7 DEF WriteError, Status
  <1> QED BY <1>1, <1>2, <1>3, <1>4, <1>5, <1>6, <1>7 DEF Ops, Authed

LEMMA Goals ==
    /\ Goal("signup") = {"user", "session"} /\ Goal("login") = {"session"}
    /\ Goal("logout") = {"end"} /\ Goal("get_user") = {}
    /\ \A o \in Resets : Goal(o) = {"credentials", "wiped"}
    /\ \A o \in {"forgot_password", "change_email"} : Goal(o) = {"request", "mail"}
    /\ Leftover("signup") = {"user", "evicted"} /\ Leftover("login") = {"evicted"}
    /\ \A o \in {"forgot_password", "change_email"} : Leftover(o) = {"request"}
  BY DEF Goal, Leftover, Resets

-----------------------------------------------------------------------------
(***************************************************************************)
(* What a step does to the requests that do not take it.                   *)
(***************************************************************************)
Same(r) == /\ at'[r] = at[r] /\ op'[r] = op[r] /\ carried'[r] = carried[r]
           /\ context'[r] = context[r] /\ cookies'[r] = cookies[r] /\ wrote'[r] = wrote[r]
           /\ err'[r] = err[r] /\ effects'[r] = effects[r]

\* Sessions are created by requests that have not been delivered; and what is
\* inactive or delivered stays so.
Grows == /\ rows' \subseteq rows \cup {r \in Requests : at[r] = "create"}
         /\ (active' => active)
         /\ Got \subseteq Got'

LEMMA StaysGone ==
    ASSUME Grows, NEW r \in Requests, Given(r), Gone(r), carried'[r] = carried[r]
    PROVE  Gone(r)'
  <1> SUFFICES ASSUME NEW s \in carried[r], s \in rows', active'
               PROVE  FALSE
    BY DEF Gone
  <1>1. s \in Got /\ s \notin rows
    BY DEF Grows, Gone, Given
  <1>2. s \in Requests /\ at[s] = "create"
    BY <1>1 DEF Grows
  <1> QED BY <1>1, <1>2, AnswersAssumption DEF Got

LEMMA OthersStayFine ==
    ASSUME Grows, NEW r \in Requests, Fine(r), Same(r)
    PROVE  Fine(r)'
  <1>1. Given(r)'
    BY DEF Fine, Given, Same, Grows
  <1>2. Cleared(r)'
    BY StaysGone DEF Fine, Cleared, Spared, Same
  <1>3. Progress(r)'
    BY DEF Fine, Progress, Answered, Same
  <1>4. Headers(r)'
    <2>1. \A status : Meant(r, status) => Meant(r, status)'
      BY DEF Meant, Same
    <2> HIDE DEF Meant
    <2> QED BY <2>1 DEF Fine, Headers, Answered, Same
  <1> QED BY <1>1, <1>2, <1>3, <1>4 DEF Fine

-----------------------------------------------------------------------------
(***************************************************************************)
(* Steps of one request.                                                   *)
(***************************************************************************)
Stepped(r) == Shape' /\ Grows /\ jar' \subseteq Got' /\ Fine(r)'
              /\ \A o \in Requests \ {r} : Same(o)

LEMMA OneMoreHeader ==
    ASSUME NEW S, NEW a \in S, NEW c \in S
    PROVE  /\ Append(<<>>, c) = <<c>> /\ <<c>> \in Seq(S) /\ <<c>> # <<>>
           /\ Append(<<a>>, c) = <<a, c>> /\ <<a, c>> \in Seq(S) /\ <<a, c>> # <<>>
  <1>1. Append(<<>>, c) = <<c>> /\ <<c>> \in Seq(S) /\ <<c>> # <<>>
    OBVIOUS
  <1>2. <<a, c>> \in Seq(S) /\ <<a, c>> # <<>>
    OBVIOUS
  <1>3. Append(<<a>>, c) = <<a, c>>
    <2>1. <<a>> \in Seq(S) /\ Len(<<a>>) = 1 /\ <<a>>[1] = a
      OBVIOUS
    <2> DEFINE s == <<a>>  t == Append(s, c)
    <2> HIDE DEF s
    <2>2. t \in Seq(S) /\ Len(t) = 2 /\ t[1] = a /\ t[2] = c
      BY <2>1 DEF s
    <2> HIDE DEF t
    <2>3. t = <<a, c>>
      BY <2>2
    <2> QED BY <2>3 DEF t, s
  <1> QED BY <1>1, <1>2, <1>3

ErrorIs(r, e) == err' = [err EXCEPT ![r] = e]

\* What a request may do in the step that answers it.
Turn(r) ==
    /\ UNCHANGED <<op, carried, context, jar, expired, active>>
    /\ rows' \subseteq rows \cup {q \in {r} : at[q] = "create"}
    /\ cookies' = cookies \/ \E c \in {r, Clear} : SetCookie(r, c)
    /\ effects' = effects \/ \E what \in SUBSET Changes : Change(r, what)
    /\ err' = err \/ \E e \in Errors : ErrorIs(r, e)
    /\ \/ cookies' = cookies \/ SetCookie(r, r) \/ Gone(r)'
       \/ op[r] = "logout" /\ err'[r] = "internal"

\* An answer, in terms of what it says and what it does to the cookie.
LEMMA Answering ==
    ASSUME AnswerInv, NEW r \in Requests, at[r] \in {"session", "handler", "create"},
           NEW status \in 200..503, Answer(r, status), Turn(r), Meant(r, status)'
    PROVE  Stepped(r)
  <1> USE DEF Turn
  <1>1. Shape /\ Fine(r) /\ ~Answered(r)
    BY DEF AnswerInv, Answered
  <1>2. at' = [at EXCEPT ![r] = "answered"] /\ at' \in [Requests -> Stages] /\ at'[r] = "answered"
    BY <1>1 DEF Shape, Stages, Answer, Goto
  <1>3. wrote' \in [Requests -> Seq(Nat)] /\ wrote'[r] = <<status>>
        /\ \A o \in Requests \ {r} : wrote'[o] = wrote[o]
    <2>1. wrote[r] = <<>> /\ wrote' = [wrote EXCEPT ![r] = Append(wrote[r], status)]
      BY <1>1 DEF Fine, Progress, Answer, WriteHeader
    <2>2. Append(wrote[r], status) = <<status>> /\ <<status>> \in Seq(Nat)
      <3>1. status \in Nat
        OBVIOUS
      <3>2. Append(<<>>, status) = <<status>> /\ <<status>> \in Seq(Nat)
        BY <3>1, OneMoreHeader
      <3> QED BY <2>1, <3>2
    <2> QED BY <1>1, <2>1, <2>2 DEF Shape
  <1>4. cookies[r] \in {<<>>, <<Clear>>}
    BY <1>1 DEF Fine, Progress, Early
  <1>5. /\ cookies' \in [Requests -> Seq(Requests \cup {Clear})]
        /\ \A o \in Requests \ {r} : cookies'[o] = cookies[o]
        /\ \/ cookies' = cookies
           \/ cookies'[r] \in {<<Clear>>, <<Clear, Clear>>}
           \/ SetCookie(r, r) /\ cookies'[r] \in {<<r>>, <<Clear, r>>}
    <2>1. CASE cookies' = cookies
      BY <1>1, <2>1 DEF Shape
    <2>2. ASSUME NEW c \in {r, Clear}, SetCookie(r, c)
          PROVE  /\ cookies' \in [Requests -> Seq(Requests \cup {Clear})]
                 /\ \A o \in Requests \ {r} : cookies'[o] = cookies[o]
                 /\ cookies'[r] \in {<<c>>, <<Clear, c>>}
      <3>1. cookies' = [cookies EXCEPT ![r] = Append(cookies[r], c)]
        BY <2>2 DEF SetCookie
      <3> DEFINE S == Requests \cup {Clear}
      <3>2. c \in S /\ Clear \in S
        OBVIOUS
      <3> HIDE DEF S
      <3>3. Append(cookies[r], c) \in {<<c>>, <<Clear, c>>} /\ Append(cookies[r], c) \in Seq(S)
        <4>1. CASE cookies[r] = <<>>
          BY <3>2, <4>1, OneMoreHeader
        <4>2. CASE cookies[r] = <<Clear>>
          BY <3>2, <4>2, OneMoreHeader
        <4> QED BY <1>4, <4>1, <4>2
      <3> QED BY <1>1, <3>1, <3>3 DEF Shape, S
    <2> QED BY <2>1, <2>2
  <1>6. /\ effects' \in [Requests -> SUBSET Changes] /\ err' \in [Requests -> Errors]
        /\ \A o \in Requests \ {r} : effects'[o] = effects[o] /\ err'[o] = err[o]
    <2>1. effects' \in [Requests -> SUBSET Changes] /\ \A o \in Requests \ {r} : effects'[o] = effects[o]
      <3>1. CASE effects' = effects
        BY <1>1, <3>1 DEF Shape
      <3>2. ASSUME NEW what \in SUBSET Changes, Change(r, what)
            PROVE  effects' \in [Requests -> SUBSET Changes]
                   /\ \A o \in Requests \ {r} : effects'[o] = effects[o]
        <4>1. effects[r] \cup what \in SUBSET Changes
          BY <1>1 DEF Shape
        <4>2. effects' = [effects EXCEPT ![r] = effects[r] \cup what]
          BY <3>2 DEF Change
        <4> QED BY <1>1, <4>1, <4>2 DEF Shape
      <3> QED BY <3>1, <3>2
    <2>2. err' \in [Requests -> Errors] /\ \A o \in Requests \ {r} : err'[o] = err[o]
      BY <1>1 DEF Shape, ErrorIs
    <2> QED BY <2>1, <2>2
  <1>7. Shape'
    BY <1>1, <1>2, <1>3, <1>5, <1>6 DEF Shape
  <1>8. Grows /\ jar' \subseteq Got'
    BY <1>1, <1>2 DEF Grows, Got, AnswerInv, Shape
  <1>9. Fine(r)'
    <2>1. Progress(r)' /\ Given(r)'
      BY <1>1, <1>2, <1>8 DEF Fine, Progress, Given, Grows, Answered, Early
    <2>2. Headers(r)'
      BY <1>2, <1>3, <1>4, <1>5 DEF Headers, Answered
    <2>3. Cleared(r)'
      <3>1. r # Clear
        BY AnswersAssumption
      <3>2. ASSUME cookies'[r] \in {<<Clear>>, <<Clear, Clear>>}
            PROVE  Spared(r)' \/ Gone(r)'
        <4>1. CASE cookies' = cookies
          <5>1. Gone(r) \/ context[r] = "undeleted"
            BY <1>1, <3>2, <4>1 DEF Fine, Cleared, Progress, Spared
          <5> QED BY <1>1, <1>8, <5>1, StaysGone DEF Fine, Spared
        <4>2. CASE SetCookie(r, r)
          <5> DEFINE S == Requests \cup {Clear}
          <5>1. cookies'[r] = Append(cookies[r], r)
            BY <1>1, <4>2 DEF SetCookie, Shape
          <5>2. r \in S /\ Clear \in S
            OBVIOUS
          <5> HIDE DEF S
          <5>3. cookies'[r] \in {<<r>>, <<Clear, r>>}
            <6>1. CASE cookies[r] = <<>>
              BY <5>1, <5>2, <6>1, OneMoreHeader
            <6>2. CASE cookies[r] = <<Clear>>
              BY <5>1, <5>2, <6>2, OneMoreHeader
            <6> QED BY <1>4, <6>1, <6>2
          <5> QED BY <3>1, <3>2, <5>3
        <4> QED BY <4>1, <4>2 DEF Spared
      <3>3. context'[r] \in {"none", "undeleted"} => carried'[r] = {} \/ cookies'[r] # <<>>
        <4>1. context[r] \in {"none", "undeleted"} => carried[r] = {} \/ cookies[r] # <<>>
          BY <1>1 DEF Fine, Cleared
        <4>2. /\ <<Clear>> # <<>> /\ <<r>> # <<>>
              /\ <<Clear, Clear>> # <<>> /\ <<Clear, r>> # <<>>
          OBVIOUS
        <4>3. cookies' = cookies \/ cookies'[r] # <<>>
          BY <1>5, <4>2
        <4> QED BY <4>1, <4>3
      <3> QED BY <3>2, <3>3 DEF Cleared
    <2> QED BY <2>1, <2>2, <2>3 DEF Fine
  <1> QED BY <1>2, <1>3, <1>5, <1>6, <1>7, <1>8, <1>9 DEF Stepped, Same

\* An answer that refuses, or fails, and does nothing else.
LEMMA Refusing ==
    ASSUME AnswerInv, NEW r \in Requests, at[r] \in {"session", "handler"},
           NEW status \in 400..503, Answer(r, status),
           UNCHANGED <<op, carried, context, cookies, effects, world>>,
           err' = err \/ \E e \in Errors : ErrorIs(r, e)
    PROVE  Stepped(r)
  <1>1. effects'[r] = {}
    BY DEF AnswerInv, Fine, Progress, Early
  <1>2. Meant(r, status)'
    BY <1>1 DEF Meant
  <1>9. Turn(r)
    BY <1>2 DEF Turn, world
  <1> QED BY <1>2, <1>9, Answering

LEMMA CrossOriginStepped ==
    ASSUME AnswerInv, NEW r \in Requests, CrossOrigin(r)
    PROVE  Stepped(r)
  BY Refusing DEF CrossOrigin, At

LEMMA UnauthorizedStepped ==
    ASSUME AnswerInv, NEW r \in Requests, Unauthorized(r)
    PROVE  Stepped(r)
  BY Refusing DEF Unauthorized, At

LEMMA ErrorSet ==
    ASSUME AnswerInv, NEW r \in Requests, NEW e, ErrorIs(r, e)
    PROVE  err'[r] = e
  BY DEF AnswerInv, Shape, ErrorIs

LEMMA UserUnreadStepped ==
    ASSUME AnswerInv, NEW r \in Requests, UserUnread(r)
    PROVE  Stepped(r)
  <1>1. {"internal", "user_not_found"} \subseteq Errors
    BY DEF Errors, Named, Returns, ForgotPasswordErrors, Ops
  <1>2. PICK e \in Errors : ErrorIs(r, e)
    BY <1>1 DEF UserUnread, Fails, ErrorIs
  <1> QED BY <1>2, Refusing DEF UserUnread, Fails, At

LEMMA RefuseStepped ==
    ASSUME AnswerInv, NEW r \in Requests, Refuse(r)
    PROVE  Stepped(r)
  <1>1. PICK status \in {400, 413, 429} : Answer(r, status)
    BY DEF Refuse
  <1> QED BY <1>1, Refusing DEF Refuse, At

\* An error of a service is refused as its handler says, or is a 500, and a password
\* reset for an unknown address is answered as if it had been sent.
LEMMA ServiceErrorStepped ==
    ASSUME AnswerInv, NEW r \in Requests, ServiceError(r)
    PROVE  Stepped(r)
  <1>1. PICK e \in Returns(op[r]) \cup {"internal"} :
            ErrorIs(r, e) /\ Answer(r, Status(op[r], e))
    BY DEF ServiceError, ErrorIs
  <1>2. /\ at[r] = "handler" /\ op[r] \in Ops \ {"logout", "get_user"} /\ effects[r] = {}
        /\ UNCHANGED <<op, carried, context, cookies, effects, world>>
    BY DEF ServiceError, Called, At, AnswerInv, Fine, Progress
  <1>3. e \in Errors /\ err'[r] = e
    BY <1>1, <1>2, ErrorSet DEF Errors, Named
  <1>4. CASE e = "internal"
    BY <1>1, <1>2, <1>3, <1>4, InternalStatus, Refusing
  <1>5. CASE e \in Returns(op[r]) /\ Status(op[r], e) \in {400, 401, 503}
    BY <1>1, <1>2, <1>3, <1>5, Refusing
  <1>6. CASE op[r] = "forgot_password" /\ e = "user_not_found" /\ Status(op[r], e) = 204
    <2>1. Meant(r, 204)'
      BY <1>2, <1>3, <1>6 DEF Meant
    <2>9. Turn(r)
      BY <1>1, <1>2, <1>3, <1>6, <2>1 DEF Turn, world
    <2> QED BY <1>1, <1>2, <1>3, <1>6, <2>1, <2>9, Answering
  <1> QED BY <1>1, <1>2, <1>4, <1>5, <1>6, Statuses

LEMMA GetUserStepped ==
    ASSUME AnswerInv, NEW r \in Requests, GetUser(r)
    PROVE  Stepped(r)
  <1>1. /\ at[r] = "handler" /\ op[r] = "get_user" /\ Answer(r, 200)
        /\ UNCHANGED <<op, carried, context, cookies, err, effects, world>>
    BY DEF GetUser, Called, At
  <1>2. Meant(r, 200)'
    BY <1>1, Goals DEF Meant
  <1>9. Turn(r)
    BY <1>1, <1>2 DEF Turn, world
  <1> QED BY <1>1, <1>2, <1>9, Answering

LEMMA Changed ==
    ASSUME AnswerInv, NEW r \in Requests, NEW what, Change(r, what)
    PROVE  effects'[r] = effects[r] \cup what
  BY DEF AnswerInv, Shape, Change

\* The handler's step comes first.
LEMMA NothingYet ==
    ASSUME AnswerInv, NEW r \in Requests, at[r] = "handler"
    PROVE  effects[r] = {} /\ op[r] \in Ops
  BY DEF AnswerInv, Fine, Progress

LEMMA LogoutStepped ==
    ASSUME AnswerInv, NEW r \in Requests, Logout(r)
    PROVE  Stepped(r)
  <1>1. /\ at[r] = "handler" /\ op[r] = "logout" /\ Answer(r, 204) /\ SetCookie(r, Clear)
        /\ UNCHANGED <<op, carried, context, jar, expired, active>>
    BY DEF Logout, Called, At
  <1>2. CASE rows' = rows \ carried[r] /\ Change(r, {"end"}) /\ UNCHANGED err
    <2>1. Meant(r, 204)'
      <3>1. "end" \in effects'[r] /\ op'[r] = "logout"
        BY <1>1, <1>2, Changed
      <3> QED BY <3>1, Goals DEF Meant
    <2>2. Gone(r)'
      BY <1>1, <1>2 DEF Gone
    <2>9. Turn(r)
      BY <1>1, <1>2, <2>1, <2>2 DEF Turn, Changes
    <2> QED BY <1>1, <1>2, <2>1, <2>9, Answering
  <1>3. CASE ErrorIs(r, "internal") /\ UNCHANGED <<rows, effects>>
    <2>1. err'[r] = "internal" /\ "internal" \in Errors
      BY <1>3, ErrorSet DEF Errors
    <2>2. Meant(r, 204)'
      BY <1>1, <1>3, <2>1, NothingYet DEF Meant
    <2>9. Turn(r)
      BY <1>1, <1>3, <2>1, <2>2 DEF Turn
    <2> QED BY <1>1, <1>3, <2>1, <2>2, <2>9, Answering
  <1> QED BY <1>2, <1>3 DEF Logout, ErrorIs

\* What was done before a failure is all there was to do, or a leftover.
LEMMA FailsMeant ==
    ASSUME AnswerInv, NEW r \in Requests, NEW E, Fails(r, E),
           E \subseteq {"internal", "user_not_found"},
           Goal(op'[r]) \subseteq effects'[r] \/ effects'[r] \subseteq Leftover(op'[r])
    PROVE  /\ Answer(r, 500) /\ UNCHANGED cookies /\ Meant(r, 500)'
           /\ \E e \in Errors : ErrorIs(r, e)
  <1>1. {"internal", "user_not_found"} \subseteq Errors
    BY DEF Errors, Named, Returns, ForgotPasswordErrors, Ops
  <1>2. Meant(r, 500)'
    BY DEF Meant
  <1> QED BY <1>1, <1>2 DEF Fails, ErrorIs

\* A reset is done in full, whatever is answered.
LEMMA ResetStepped ==
    ASSUME AnswerInv, NEW r \in Requests, Reset(r)
    PROVE  Stepped(r)
  <1> DEFINE done == {"credentials", "wiped"}
  <1>1. /\ at[r] = "handler" /\ op[r] \in Resets /\ rows' = {} /\ Change(r, done)
        /\ UNCHANGED <<op, carried, context, jar, expired, active>>
    BY DEF Reset, Called, At
  <1>2. /\ Goal(op'[r]) \subseteq effects'[r] /\ op'[r] \notin {"signup", "login"}
        /\ done \in SUBSET Changes
    BY <1>1, Changed, Goals DEF Resets, Changes
  <1>3. CASE Succeed(r) /\ (SetCookie(r, Clear) \/ UNCHANGED cookies)
    <2>1. Meant(r, 204)'
      BY <1>2 DEF Meant
    <2>2. Gone(r)'
      BY <1>1 DEF Gone
    <2>3. Turn(r)
      BY <1>1, <1>2, <1>3, <2>2 DEF Turn, Succeed
    <2> QED BY <1>1, <1>3, <2>1, <2>3, Answering DEF Succeed
  <1>4. CASE Fails(r, {"internal"})
    <2>1. Turn(r)
      BY <1>1, <1>2, <1>4, FailsMeant DEF Turn
    <2> QED BY <1>1, <1>2, <1>4, FailsMeant, <2>1, Answering
  <1> QED BY <1>3, <1>4 DEF Reset

LEMMA RequestResetStepped ==
    ASSUME AnswerInv, NEW r \in Requests, RequestReset(r)
    PROVE  Stepped(r)
  <1>1. /\ at[r] = "handler" /\ op[r] \in {"forgot_password", "change_email"}
        /\ UNCHANGED <<op, carried, context, world>>
    BY DEF RequestReset, Called, At
  <1>2. CASE Change(r, {"request", "mail"}) /\ Succeed(r) /\ UNCHANGED cookies
    <2>1. Goal(op'[r]) \subseteq effects'[r] /\ op'[r] \notin {"signup", "login"}
      BY <1>1, <1>2, Changed, Goals
    <2>2. Meant(r, 204)'
      BY <2>1 DEF Meant
    <2>3. Turn(r)
      BY <1>1, <1>2 DEF Turn, Changes, Succeed, world
    <2> QED BY <1>1, <1>2, <2>2, <2>3, Answering DEF Succeed
  <1>3. CASE Change(r, {"request"}) /\ Fails(r, {"internal"})
    <2>1. effects'[r] \subseteq Leftover(op'[r])
      BY <1>1, <1>3, Changed, NothingYet, Goals
    <2>2. Turn(r)
      BY <1>1, <1>3, <2>1, FailsMeant DEF Turn, Changes, world
    <2> QED BY <1>1, <1>3, <2>1, <2>2, FailsMeant, Answering
  <1> QED BY <1>2, <1>3 DEF RequestReset

\* A new session is all that was left to do; without it an eviction may remain.
LEMMA CreateSessionStepped ==
    ASSUME AnswerInv, NEW r \in Requests, CreateSession(r)
    PROVE  Stepped(r)
  <1>1. /\ at[r] = "create"
        /\ UNCHANGED <<op, carried, context, jar, expired, active>>
    BY DEF CreateSession, At
  <1>2. /\ \/ op'[r] = "login" /\ effects[r] = {}
           \/ op'[r] = "signup" /\ effects[r] = {"user"}
        /\ cookies[r] \in {<<>>, <<Clear>>}
    BY <1>1 DEF AnswerInv, Fine, Progress
  <1>3. PICK lru \in {{}} \cup {{s} : s \in rows} :
          LET evicted == {"evicted" : s \in lru} IN
          \/ /\ rows' = (rows \ lru) \cup {r} /\ Change(r, evicted \cup {"session"})
             /\ \/ Succeed(r) /\ SetCookie(r, r)
                \/ Fails(r, {"internal"})
          \/ /\ rows' = rows \ lru /\ Change(r, evicted)
             /\ Fails(r, {"internal", "user_not_found"})
    BY DEF CreateSession
  <1> DEFINE evicted == {"evicted" : s \in lru}
  <1>4. rows' \subseteq rows \cup {q \in {r} : at[q] = "create"}
    BY <1>1, <1>3
  <1>5. /\ evicted \in SUBSET Changes /\ evicted \cup {"session"} \in SUBSET Changes
        /\ evicted \subseteq {"evicted"}
    BY DEF Changes
  <1> HIDE DEF evicted
  <1>6. CASE Change(r, evicted \cup {"session"}) /\ Succeed(r) /\ SetCookie(r, r)
    <2>1. Goal(op'[r]) \subseteq effects'[r]
      BY <1>2, <1>6, Changed, Goals
    <2>2. cookies'[r] \in {<<r>>, <<Clear, r>>}
      <3> DEFINE S == Requests \cup {Clear}
      <3>1. cookies'[r] = Append(cookies[r], r)
        BY <1>6 DEF SetCookie, AnswerInv, Shape
      <3>2. r \in S /\ Clear \in S
        OBVIOUS
      <3> HIDE DEF S
      <3>3. CASE cookies[r] = <<>>
        BY <3>1, <3>2, <3>3, OneMoreHeader
      <3>4. CASE cookies[r] = <<Clear>>
        BY <3>1, <3>2, <3>4, OneMoreHeader
      <3> QED BY <1>2, <3>3, <3>4
    <2>3. Meant(r, 204)'
      BY <2>1, <2>2 DEF Meant
    <2>4. Turn(r)
      BY <1>1, <1>4, <1>5, <1>6 DEF Turn, Succeed
    <2> QED BY <1>1, <1>6, <2>3, <2>4, Answering DEF Succeed
  <1>7. CASE Change(r, evicted \cup {"session"}) /\ Fails(r, {"internal"})
    <2>1. Goal(op'[r]) \subseteq effects'[r]
      BY <1>2, <1>7, Changed, Goals
    <2>2. Turn(r)
      BY <1>1, <1>4, <1>5, <1>7, <2>1, FailsMeant DEF Turn
    <2> QED BY <1>1, <1>7, <2>1, <2>2, FailsMeant, Answering
  <1>8. CASE Change(r, evicted) /\ Fails(r, {"internal", "user_not_found"})
    <2>1. effects'[r] = effects[r] \cup evicted
      BY <1>8, Changed
    <2>2. effects'[r] \subseteq Leftover(op'[r])
      BY <1>2, <1>5, <2>1, Goals
    <2>3. Turn(r)
      BY <1>1, <1>4, <1>5, <1>8, <2>2, FailsMeant DEF Turn
    <2> QED BY <1>1, <1>8, <2>2, <2>3, FailsMeant, Answering
  <1> QED BY <1>3, <1>6, <1>7, <1>8 DEF evicted

-----------------------------------------------------------------------------
(***************************************************************************)
(* The steps that do not answer.                                           *)
(***************************************************************************)
LEMMA SendStepped ==
    ASSUME AnswerInv, NEW r \in Requests, Send(r)
    PROVE  Stepped(r)
  <1>1. /\ at[r] = "idle" /\ at' = [at EXCEPT ![r] = "session"]
        /\ carried' = [carried EXCEPT ![r] = jar]
        /\ UNCHANGED <<context, cookies, wrote, err, effects, world>>
    BY DEF Send, At, Goto
  <1>2. PICK o \in Ops : op' = [op EXCEPT ![r] = o]
    BY DEF Send
  <1>3. Shape /\ Fine(r) /\ jar \subseteq Got
    BY DEF AnswerInv
  <1>4. Shape'
    BY <1>1, <1>2, <1>3 DEF Shape, Stages, Early, world
  <1>5. at'[r] = "session" /\ op'[r] \in Ops /\ carried'[r] = jar
        /\ \A q \in Requests \ {r} : Same(q)
    BY <1>1, <1>2, <1>3 DEF Shape, Same
  <1>6. Grows /\ jar' \subseteq Got'
    BY <1>1, <1>3, <1>5 DEF Grows, Got, Same, world
  <1>7. Given(r)'
    <2>1. r \notin Got
      BY <1>1, AnswersAssumption DEF Got
    <2> QED BY <1>3, <1>5, <1>6, <2>1 DEF Given, Grows
  <1>8. Progress(r)' /\ Headers(r)'
    BY <1>1, <1>3, <1>5 DEF Fine, Progress, Headers, Answered, Early
  <1>9. Cleared(r)'
    <2>1. cookies'[r] = <<>> /\ context'[r] = "unread"
      BY <1>1, <1>3, <1>5 DEF Fine, Progress, Early
    <2>2. <<>> # <<Clear>> /\ <<>> # <<Clear, Clear>>
      OBVIOUS
    <2> QED BY <2>1, <2>2 DEF Cleared
  <1> QED BY <1>4, <1>5, <1>6, <1>7, <1>8, <1>9 DEF Stepped, Fine

\* The middleware clears a cookie only if its session is gone, or is one it failed
\* to delete.
LEMMA MiddlewareStepped ==
    ASSUME AnswerInv, NEW r \in Requests, at[r] \in {"session", "drop", "touch"},
           NEW stage \in {"drop", "touch", "handler"}, Goto(r, stage),
           UNCHANGED <<op, carried, wrote, err, effects, jar, active>>,
           rows' \subseteq rows, expired' \subseteq expired,
           \/ UNCHANGED <<cookies, context>> /\ stage # "handler"
           \/ /\ UNCHANGED cookies /\ stage = "handler"
              /\ \/ Resolve(r, "none") /\ carried[r] = {}
                 \/ Resolve(r, "error") \/ Resolve(r, "user")
           \/ /\ SetCookie(r, Clear) /\ stage = "handler"
              /\ (Resolve(r, "none") /\ Gone(r)') \/ Resolve(r, "undeleted")
    PROVE  Stepped(r)
  <1>1. Shape /\ Fine(r) /\ jar \subseteq Got
    BY DEF AnswerInv
  <1>2. /\ cookies[r] = <<>> /\ wrote[r] = <<>> /\ err[r] = "none" /\ effects[r] = {}
        /\ op[r] \in Ops /\ context[r] = "unread"
    BY <1>1 DEF Fine, Progress, Answered, Early
  <1>3. at' \in [Requests -> Stages] /\ at'[r] = stage
        /\ \A o \in Requests \ {r} : at'[o] = at[o]
    BY <1>1 DEF Shape, Stages, Early, Goto
  <1>4. PICK view \in Views :
          /\ context' = [context EXCEPT ![r] = view]
          /\ \/ cookies' = cookies /\ view = "unread" /\ stage # "handler"
             \/ /\ cookies' = cookies /\ stage = "handler"
                /\ view \in {"error", "user"} \/ (view = "none" /\ carried[r] = {})
             \/ /\ SetCookie(r, Clear) /\ stage = "handler"
                /\ (view = "none" /\ Gone(r)') \/ view = "undeleted"
    <2>1. context' = context => context' = [context EXCEPT ![r] = "unread"]
      BY <1>1, <1>2 DEF Shape
    <2>2. CASE UNCHANGED <<cookies, context>> /\ stage # "handler"
      BY <2>1, <2>2 DEF Views
    <2>3. CASE /\ UNCHANGED cookies /\ stage = "handler"
               /\ \/ Resolve(r, "none") /\ carried[r] = {}
                  \/ Resolve(r, "error") \/ Resolve(r, "user")
      BY <2>3 DEF Views, Resolve
    <2>4. CASE /\ SetCookie(r, Clear) /\ stage = "handler"
               /\ (Resolve(r, "none") /\ Gone(r)') \/ Resolve(r, "undeleted")
      BY <2>4 DEF Views, Resolve
    <2> QED BY <2>2, <2>3, <2>4
  <1>5. /\ context' \in [Requests -> Views] /\ context'[r] = view
        /\ \A o \in Requests \ {r} : context'[o] = context[o]
    BY <1>1, <1>4 DEF Shape
  <1>6. /\ cookies' \in [Requests -> Seq(Requests \cup {Clear})]
        /\ \A o \in Requests \ {r} : cookies'[o] = cookies[o]
        /\ SetCookie(r, Clear) => cookies'[r] = <<Clear>>
        /\ UNCHANGED cookies => cookies'[r] = <<>>
    <2> DEFINE S == Requests \cup {Clear}
    <2>1. Clear \in S
      OBVIOUS
    <2>2. Append(<<>>, Clear) = <<Clear>> /\ <<Clear>> \in Seq(S)
      <3> HIDE DEF S
      <3> QED BY <2>1, OneMoreHeader
    <2>3. SetCookie(r, Clear) => cookies' = [cookies EXCEPT ![r] = <<Clear>>]
      BY <1>2, <2>2 DEF SetCookie
    <2>4. cookies' = cookies \/ cookies' = [cookies EXCEPT ![r] = <<Clear>>]
      BY <1>4, <2>3
    <2>5. cookies \in [Requests -> Seq(S)]
      BY <1>1 DEF Shape
    <2> HIDE DEF S
    <2>6. /\ cookies' \in [Requests -> Seq(S)]
          /\ \A o \in Requests \ {r} : cookies'[o] = cookies[o]
      BY <2>2, <2>4, <2>5
    <2>7. SetCookie(r, Clear) => cookies'[r] = <<Clear>>
      BY <2>3, <2>5
    <2> QED BY <1>2, <2>6, <2>7 DEF S
  <1>7. Shape' /\ \A o \in Requests \ {r} : Same(o)
    BY <1>1, <1>3, <1>5, <1>6 DEF Shape, Same
  <1>8. Grows /\ jar' \subseteq Got'
    BY <1>1, <1>3 DEF Grows, Got
  <1>9. Progress(r)' /\ Headers(r)' /\ Given(r)'
    <2>1. cookies'[r] \in {<<>>, <<Clear>>}
      BY <1>4, <1>6
    <2>2. stage # "handler" => cookies'[r] = <<>> /\ context'[r] = "unread"
      BY <1>4, <1>5, <1>6
    <2>3. Progress(r)' /\ Headers(r)'
      BY <1>2, <1>3, <2>1, <2>2 DEF Progress, Headers, Answered, Early
    <2>4. Given(r)'
      BY <1>1, <1>8 DEF Fine, Given, Grows
    <2> QED BY <2>3, <2>4
  <1>10. Cleared(r)'
    <2>1. <<>> # <<Clear>> /\ <<>> # <<Clear, Clear>>
      OBVIOUS
    <2> QED BY <1>4, <1>5, <1>6, <2>1 DEF Cleared, Spared
  <1> QED BY <1>7, <1>8, <1>9, <1>10 DEF Stepped, Fine

LEMMA SessionStepped ==
    ASSUME AnswerInv, NEW r \in Requests, Session(r)
    PROVE  Stepped(r)
  <1>1. at[r] = "session" /\ UNCHANGED <<op, carried, wrote, err, effects, world>>
    BY DEF Session, At
  <1>2. UNCHANGED <<jar, rows, expired, active>>
    BY <1>1 DEF world
  <1>3. ~Found(r) => Gone(r)'
    BY <1>1, <1>2 DEF Found, Gone
  <1>4. CASE /\ UNCHANGED <<context, cookies>>
             /\ Goto(r, IF carried[r] \subseteq expired THEN "drop" ELSE "touch")
    <2>1. PICK stage \in {"drop", "touch"} : Goto(r, stage)
      BY <1>4
    <2> QED BY <1>1, <1>2, <1>4, <2>1, MiddlewareStepped
  <1>5. CASE carried[r] = {} /\ Resolve(r, "none") /\ Goto(r, "handler") /\ UNCHANGED cookies
    BY <1>1, <1>2, <1>5, MiddlewareStepped
  <1>6. CASE ~Found(r) /\ Resolve(r, "none") /\ SetCookie(r, Clear) /\ Goto(r, "handler")
    BY <1>1, <1>2, <1>3, <1>6, MiddlewareStepped
  <1>7. CASE Resolve(r, "error") /\ Goto(r, "handler") /\ UNCHANGED cookies
    BY <1>1, <1>2, <1>7, MiddlewareStepped
  <1> QED BY <1>4, <1>5, <1>6, <1>7 DEF Session

LEMMA DropStepped ==
    ASSUME AnswerInv, NEW r \in Requests, Drop(r)
    PROVE  Stepped(r)
  <1>1. /\ at[r] = "drop" /\ Goto(r, "handler") /\ SetCookie(r, Clear)
        /\ UNCHANGED <<op, carried, wrote, err, effects, jar, expired, active>>
    BY DEF Drop, At
  <1>2. CASE rows' = rows \ carried[r] /\ Resolve(r, "none")
    <2>1. Gone(r)'
      BY <1>1, <1>2 DEF Gone
    <2> QED BY <1>1, <1>2, <2>1, MiddlewareStepped
  <1>3. CASE Resolve(r, "undeleted") /\ UNCHANGED rows
    BY <1>1, <1>3, MiddlewareStepped
  <1> QED BY <1>2, <1>3 DEF Drop

LEMMA TouchStepped ==
    ASSUME AnswerInv, NEW r \in Requests, Touch(r)
    PROVE  Stepped(r)
  <1>1. /\ at[r] = "touch" /\ Goto(r, "handler") /\ Resolve(r, "user")
        /\ UNCHANGED <<op, carried, cookies, wrote, err, effects, jar, rows, active>>
        /\ expired' \subseteq expired
    BY DEF Touch, At
  <1> QED BY <1>1, MiddlewareStepped

\* Sign-up and login go on to their session.
LEMMA GoesOn ==
    ASSUME AnswerInv, NEW r \in Requests, at[r] = "handler", Goto(r, "create"),
           UNCHANGED <<op, carried, context, cookies, wrote, err, world>>,
           \/ op[r] = "login" /\ effects' = effects
           \/ op[r] = "signup" /\ Change(r, {"user"})
    PROVE  Stepped(r)
  <1>1. Shape /\ Fine(r) /\ jar \subseteq Got
    BY DEF AnswerInv
  <1>2. at' \in [Requests -> Stages] /\ at'[r] = "create"
        /\ \A o \in Requests \ {r} : at'[o] = at[o]
    BY <1>1 DEF Goto, Shape, Stages
  <1>3. /\ effects' \in [Requests -> SUBSET Changes]
        /\ \A o \in Requests \ {r} : effects'[o] = effects[o]
        /\ \/ op[r] = "login" /\ effects'[r] = {}
           \/ op[r] = "signup" /\ effects'[r] = {"user"}
    <2>1. effects[r] \cup {"user"} \in SUBSET Changes
      BY <1>1 DEF Shape, Changes
    <2>2. effects' = effects \/ effects' = [effects EXCEPT ![r] = effects[r] \cup {"user"}]
      BY DEF Change
    <2>3. effects[r] = {}
      BY NothingYet
    <2>4. op[r] = "signup" => effects'[r] = {"user"}
      BY <2>3, Changed
    <2>5. op[r] = "login" => effects'[r] = {}
      BY <2>3
    <2>6. /\ effects' \in [Requests -> SUBSET Changes]
          /\ \A o \in Requests \ {r} : effects'[o] = effects[o]
      BY <1>1, <2>1, <2>2 DEF Shape
    <2> QED BY <2>4, <2>5, <2>6
  <1>4. Shape' /\ \A o \in Requests \ {r} : Same(o)
    BY <1>1, <1>2, <1>3 DEF Shape, Same, world
  <1>5. Grows /\ jar' \subseteq Got'
    BY <1>1, <1>2 DEF Grows, Got, world
  <1>6. Progress(r)' /\ Headers(r)' /\ Given(r)'
    <2>1. Progress(r)'
      <3>1. /\ cookies[r] \in {<<>>, <<Clear>>} /\ wrote[r] = <<>> /\ err[r] = "none"
            /\ op[r] \in Ops
        BY <1>1 DEF Fine, Progress, Answered
      <3> QED BY <1>2, <1>3, <3>1 DEF Progress, Early
    <2>2. Headers(r)' /\ Given(r)'
      BY <1>1, <1>2, <1>5 DEF Fine, Headers, Given, Answered, Grows
    <2> QED BY <2>1, <2>2
  <1>7. Cleared(r)'
    BY <1>1, <1>5, StaysGone DEF Fine, Cleared, Spared
  <1> QED BY <1>4, <1>5, <1>6, <1>7 DEF Stepped, Fine

LEMMA LogInStepped ==
    ASSUME AnswerInv, NEW r \in Requests, LogIn(r)
    PROVE  Stepped(r)
  <1>1. /\ at[r] = "handler" /\ op[r] = "login" /\ Goto(r, "create")
        /\ UNCHANGED <<op, carried, context, cookies, wrote, err, effects, world>>
    BY DEF LogIn, Called, At
  <1> QED BY <1>1, GoesOn

LEMMA SignUpStepped ==
    ASSUME AnswerInv, NEW r \in Requests, SignUp(r)
    PROVE  Stepped(r)
  <1>1. /\ at[r] = "handler" /\ op[r] = "signup" /\ Change(r, {"user"})
        /\ UNCHANGED <<op, carried, context, world>>
    BY DEF SignUp, Called, At
  <1>2. CASE Goto(r, "create") /\ UNCHANGED <<cookies, wrote, err>>
    BY <1>1, <1>2, GoesOn
  <1>3. CASE Fails(r, {"internal"})
    <2>1. effects'[r] \subseteq Leftover(op'[r])
      BY <1>1, Changed, NothingYet, Goals
    <2>2. Turn(r)
      BY <1>1, <1>3, <2>1, FailsMeant DEF Turn, Changes, world
    <2> QED BY <1>1, <1>3, <2>1, <2>2, FailsMeant, Answering
  <1> QED BY <1>2, <1>3 DEF SignUp

\* The last header of an answer.
LEMMA LastHeader ==
    ASSUME AnswerInv, NEW r \in Requests, Answered(r), cookies[r] # <<>>
    PROVE  \/ cookies[r] \in {<<Clear>>, <<Clear, Clear>>} /\ Last(cookies[r]) = Clear
           \/ cookies[r] \in {<<r>>, <<Clear, r>>} /\ Last(cookies[r]) = r
  <1>1. \A c, d : Last(<<c>>) = c /\ Last(<<c, d>>) = d
    BY DEF Last
  <1>2. cookies[r] \in {<<>>, <<Clear>>, <<Clear, Clear>>, <<r>>, <<Clear, r>>}
    BY DEF AnswerInv, Fine, Headers
  <1>3. CASE cookies[r] = <<Clear>>
    BY <1>1, <1>3
  <1>4. CASE cookies[r] = <<Clear, Clear>>
    BY <1>1, <1>4
  <1>5. CASE cookies[r] = <<r>>
    BY <1>1, <1>5
  <1>6. CASE cookies[r] = <<Clear, r>>
    BY <1>1, <1>6
  <1> QED BY <1>2, <1>3, <1>4, <1>5, <1>6

\* What a delivered answer leaves in the jar.
LEMMA Jar ==
    ASSUME AnswerInv, NEW r \in Requests, Deliver(r)
    PROVE  \/ cookies[r] = <<>> /\ jar' = jar
           \/ cookies[r] \in {<<Clear>>, <<Clear, Clear>>} /\ jar' = {}
           \/ cookies[r] \in {<<r>>, <<Clear, r>>} /\ jar' = {r}
  <1>1. Answered(r) /\ r # Clear
    BY AnswersAssumption DEF Deliver, At, Answered
  <1>2. CASE cookies[r] = <<>>
    BY <1>2 DEF Deliver
  <1>3. CASE cookies[r] # <<>>
    BY <1>1, <1>3, LastHeader DEF Deliver
  <1> QED BY <1>2, <1>3

LEMMA DeliverStepped ==
    ASSUME AnswerInv, NEW r \in Requests, Deliver(r)
    PROVE  Stepped(r)
  <1>1. /\ at[r] = "answered" /\ at' = [at EXCEPT ![r] = "delivered"]
        /\ UNCHANGED <<op, carried, context, cookies, wrote, err, effects, rows, expired, active>>
    BY DEF Deliver, At, Goto
  <1>2. Shape /\ Fine(r) /\ jar \subseteq Got
    BY DEF AnswerInv
  <1>3. at' \in [Requests -> Stages] /\ at'[r] = "delivered"
        /\ \A o \in Requests \ {r} : at'[o] = at[o]
    BY <1>1, <1>2 DEF Shape, Stages
  <1>4. jar' \subseteq jar \cup {r}
    BY Jar
  <1>5. Shape' /\ \A o \in Requests \ {r} : Same(o)
    BY <1>1, <1>2, <1>3, <1>4 DEF Shape, Same, Names
  <1>6. Got \subseteq Got' /\ r \in Got'
    BY <1>1, <1>3 DEF Got
  <1>7. Grows /\ jar' \subseteq Got'
    BY <1>1, <1>2, <1>4, <1>6 DEF Grows
  <1>8. Progress(r)' /\ Given(r)'
    BY <1>1, <1>2, <1>3, <1>7 DEF Fine, Progress, Given, Answered, Grows, Early
  <1>9. Headers(r)'
    <2>1. \A status : Meant(r, status) => Meant(r, status)'
      BY <1>1 DEF Meant
    <2> HIDE DEF Meant
    <2> QED BY <1>1, <1>2, <1>3, <2>1 DEF Fine, Headers, Answered
  <1>10. Cleared(r)'
    BY <1>1, <1>2, <1>7, StaysGone DEF Fine, Cleared, Spared
  <1> QED BY <1>5, <1>7, <1>8, <1>9, <1>10 DEF Stepped, Fine

LEMMA SteppedKeeps ==
    ASSUME AnswerInv, NEW r \in Requests, Stepped(r)
    PROVE  AnswerInv'
  <1>1. ASSUME NEW o \in Requests PROVE Fine(o)'
    BY OthersStayFine DEF Stepped, AnswerInv
  <1> QED BY <1>1 DEF Stepped, AnswerInv

LEMMA ElsewhereKeeps ==
    ASSUME AnswerInv, Elsewhere \/ UNCHANGED vars
    PROVE  AnswerInv'
  <1>1. Shape /\ jar \subseteq Got
    BY DEF AnswerInv
  <1>2. UNCHANGED <<at, op, carried, context, cookies, wrote, err, effects, jar>>
    BY DEF Elsewhere, vars, world
  <1>3. Shape'
    <2>1. /\ rows' \subseteq rows /\ expired' \subseteq expired \cup rows
          /\ active' \in BOOLEAN
      BY <1>1 DEF Elsewhere, vars, world, Shape
    <2> QED BY <1>1, <1>2, <2>1 DEF Shape
  <1>4. Grows
    BY <1>2 DEF Grows, Got, Elsewhere, vars, world
  <1>5. \A r \in Requests : Fine(r)'
    BY <1>2, <1>4, OthersStayFine DEF AnswerInv, Same
  <1> QED BY <1>1, <1>2, <1>3, <1>4, <1>5 DEF AnswerInv, Grows

\* Every step of a request is one of the above.
LEMMA AnswerActs ==
    ASSUME AnswerInv, NEW r \in Requests, Send(r) \/ Handle(r) \/ Deliver(r)
    PROVE  Stepped(r)
  BY CrossOriginStepped, SessionStepped, DropStepped, TouchStepped, UnauthorizedStepped, UserUnreadStepped,
     RefuseStepped, ServiceErrorStepped, SignUpStepped, LogInStepped, CreateSessionStepped,
     LogoutStepped, GetUserStepped, ResetStepped, RequestResetStepped, SendStepped,
     DeliverStepped DEF Handle

LEMMA AnswerStep == AnswerInv /\ [Next]_vars => AnswerInv'
  BY AnswerActs, SteppedKeeps, ElsewhereKeeps DEF Next, Quiesced

-----------------------------------------------------------------------------
\* Requests, answers and cookies of every reachable state, for any number of tabs.
THEOREM AlwaysAnswerInv == Spec => []AnswerInv
  BY AnswerInit, AnswerStep, PTL DEF Spec

LEMMA LoggedIs ==
    ASSUME AnswerInv, NEW r \in Requests, Answered(r)
    PROVE  Logged(r) \in 200..503 /\ wrote[r] = <<Logged(r)>> /\ Meant(r, Logged(r))
  <1>1. PICK status \in 200..503 : wrote[r] = <<status>> /\ Meant(r, status)
    BY DEF AnswerInv, Fine, Headers
  <1>2. Logged(r) = status
    <2>1. <<status>> # <<>> /\ Head(<<status>>) = status
      OBVIOUS
    <2> QED BY <1>1, <2>1 DEF Logged
  <1> QED BY <1>1, <1>2

\* Handlers: what is logged as refused or busy has changed nothing.
THEOREM RefusedChangesNothingHolds == Spec => []RefusedChangesNothing
  <1>1. AnswerInv => RefusedChangesNothing
    BY LoggedIs DEF RefusedChangesNothing, Meant
  <1> QED BY <1>1, AlwaysAnswerInv, PTL

\* Handlers: what is logged as success has been done, the two pretended ones aside.
THEOREM SuccessIsRealHolds == Spec => []SuccessIsReal
  <1>1. AnswerInv => SuccessIsReal
    BY LoggedIs DEF SuccessIsReal, Meant
  <1> QED BY <1>1, AlwaysAnswerInv, PTL

\* Handlers: what is done by halves is a 500, and no half of a reset.
THEOREM HalvesAreErrorsHolds == Spec => []HalvesAreErrors
  <1>1. AnswerInv => HalvesAreErrors
    BY LoggedIs DEF HalvesAreErrors, Meant
  <1> QED BY <1>1, AlwaysAnswerInv, PTL

LEMMA DeliveredOnly ==
    ASSUME AnswerInv, NEW r \in Requests, [Next]_vars, Delivered(r)
    PROVE  Deliver(r)
  <1>1. at[r] = "answered" /\ at'[r] = "delivered" /\ Shape
    BY DEF Delivered, At, AnswerInv
  <1>2. ASSUME NEW o \in Requests, o # r, Send(o) \/ Handle(o) \/ Deliver(o) PROVE FALSE
    <2>1. Stepped(o)
      BY <1>2, AnswerActs
    <2> QED BY <1>1, <1>2, <2>1 DEF Stepped, Same
  <1>3. ~Send(r) /\ ~Handle(r)
    BY <1>1 DEF Send, Handle, At, Called, CrossOrigin, Session, Drop, Touch, Unauthorized,
       UserUnread, Refuse, ServiceError, SignUp, LogIn, CreateSession, Logout, GetUser, Reset, RequestReset
  <1>4. ~Elsewhere /\ ~UNCHANGED vars
    BY <1>1 DEF Elsewhere, vars
  <1> QED BY <1>2, <1>3, <1>4 DEF Next, Quiesced

\* The jar changes by an answer only.
LEMMA JarChanges ==
    ASSUME [Next]_vars, jar' # jar
    PROVE  \E r \in Requests : Deliver(r)
  <1>1. ASSUME NEW r \in Requests, Send(r) \/ Handle(r) PROVE jar' = jar
    BY <1>1 DEF Send, Handle, CrossOrigin, Session, Drop, Touch, Unauthorized, UserUnread, Refuse,
       ServiceError, SignUp, LogIn, CreateSession, Logout, GetUser, Reset, RequestReset, world
  <1> QED BY <1>1 DEF Next, Quiesced, Elsewhere, vars, world

\* Middleware and handlers: the browser is left with the session it has just got.
THEOREM LoginSticksHolds == Spec => LoginSticks
  <1>1. AnswerInv /\ [Next]_vars =>
          [\A r \in Requests : Delivered(r) /\ Logged(r) = 204 /\ op[r] \in {"signup", "login"}
             => jar' = {r}]_vars
    <2> SUFFICES ASSUME AnswerInv, [Next]_vars, NEW r \in Requests, Delivered(r),
                        Logged(r) = 204, op[r] \in {"signup", "login"}
                 PROVE  jar' = {r}
      OBVIOUS
    <2>1. Deliver(r) /\ Answered(r)
      BY DeliveredOnly DEF Delivered, At, Answered
    <2>2. cookies[r] \in {<<r>>, <<Clear, r>>} /\ r # Clear
      BY <2>1, LoggedIs, AnswersAssumption DEF Meant
    <2>3. /\ <<r>> # <<>> /\ <<Clear, r>> # <<>> /\ <<r>>[1] = r /\ <<Clear, r>>[2] = r
          /\ <<Clear>>[1] = Clear /\ <<Clear, Clear>>[2] = Clear
          /\ Len(<<r>>) = 1 /\ Len(<<Clear>>) = 1
          /\ Len(<<Clear, r>>) = 2 /\ Len(<<Clear, Clear>>) = 2
      OBVIOUS
    <2> QED BY <2>1, <2>2, <2>3, Jar
  <1> QED BY <1>1, AlwaysAnswerInv, PTL DEF Spec, LoginSticks

\* Middleware: no answer takes the cookie of a session that works from a browser that
\* asked with it, but for a newer login and a deletion that failed.
THEOREM KeepsUsableHolds == Spec => KeepsUsable
  <1> DEFINE Keeps == \A s \in jar \ jar' : Usable(s) =>
         \E r \in Requests : /\ Delivered(r)
                             /\ \/ s \notin carried[r] \/ r \in jar'
                                \/ op[r] = "logout" /\ err[r] = "internal"
                                \/ context[r] = "undeleted"
  <1>1. AnswerInv /\ [Next]_vars => [Keeps]_vars
    <2> SUFFICES ASSUME AnswerInv, [Next]_vars, NEW s \in jar \ jar', Usable(s)
                 PROVE  \E r \in Requests :
                          /\ Delivered(r)
                          /\ \/ s \notin carried[r] \/ r \in jar'
                             \/ op[r] = "logout" /\ err[r] = "internal"
                             \/ context[r] = "undeleted"
      OBVIOUS
    <2>1. PICK r \in Requests : Deliver(r)
      BY JarChanges
    <2>2. Delivered(r)
      BY <2>1, DeliverStepped DEF Delivered, Deliver, Goto, At, AnswerInv, Shape
    <2>3. CASE cookies[r] = <<>> /\ jar' = jar
      BY <2>3
    <2>4. CASE cookies[r] \in {<<Clear>>, <<Clear, Clear>>}
      <3>1. Spared(r) \/ Gone(r)
        BY <2>4 DEF AnswerInv, Fine, Cleared
      <3> QED BY <2>2, <3>1 DEF Spared, Gone, Usable
    <2>5. CASE jar' = {r}
      BY <2>2, <2>5
    <2> QED BY <2>1, <2>3, <2>4, <2>5, Jar
  <1> QED BY <1>1, AlwaysAnswerInv, PTL DEF Spec, KeepsUsable

\* Middleware: a cookie without a usable session does not survive its answer.
THEOREM StaleClearedHolds == Spec => StaleCleared
  <1>1. AnswerInv /\ [Next]_vars =>
          [\A r \in Requests : Delivered(r) /\ context[r] \in {"none", "undeleted"}
             => carried[r] \cap jar' = {}]_vars
    <2> SUFFICES ASSUME AnswerInv, [Next]_vars, NEW r \in Requests, Delivered(r),
                        context[r] \in {"none", "undeleted"}
                 PROVE  carried[r] \cap jar' = {}
      OBVIOUS
    <2>1. Deliver(r)
      BY DeliveredOnly
    <2>2. carried[r] = {} \/ cookies[r] # <<>>
      BY DEF AnswerInv, Fine, Cleared
    <2>3. r \notin carried[r]
      BY DEF AnswerInv, Fine, Given
    <2> QED BY <2>1, <2>2, <2>3, Jar
  <1> QED BY <1>1, AlwaysAnswerInv, PTL DEF Spec, StaleCleared

\* Stages, headers and statuses of every request keep their types.
THEOREM AnswersTypeCorrect == Spec => []TypeOK
  <1>1. AnswerInv => TypeOK
    <2> SUFFICES ASSUME AnswerInv PROVE TypeOK
      OBVIOUS
    <2>1. ASSUME NEW r \in Requests
          PROVE  /\ Len(cookies[r]) <= 2 /\ ToSet(cookies[r]) \subseteq {Clear, r}
                 /\ Len(wrote[r]) <= 1 /\ ToSet(wrote[r]) \subseteq 200..503
      <3>1. cookies[r] \in {<<>>, <<Clear>>, <<Clear, Clear>>, <<r>>, <<Clear, r>>}
        <4>1. Shape /\ Fine(r)
          BY DEF AnswerInv
        <4>2. CASE Answered(r)
          BY <4>1, <4>2 DEF Fine, Headers
        <4>3. CASE ~Answered(r)
          BY <4>1, <4>3 DEF Shape, Stages, Early, Answered, Fine, Progress
        <4> QED BY <4>2, <4>3
      <3>2. wrote[r] = <<>> \/ \E status \in 200..503 : wrote[r] = <<status>>
        <4>1. Progress(r) /\ Headers(r)
          BY DEF AnswerInv, Fine
        <4>2. CASE Answered(r)
          BY <4>1, <4>2 DEF Headers
        <4>3. CASE ~Answered(r)
          BY <4>1, <4>3 DEF Progress
        <4> QED BY <4>2, <4>3
      <3>3. /\ Len(<<>>) = 0 /\ ToSet(<<>>) = {}
            /\ \A c : Len(<<c>>) = 1 /\ ToSet(<<c>>) = {c}
            /\ \A c, d : Len(<<c, d>>) = 2 /\ ToSet(<<c, d>>) = {c, d}
        BY DEF ToSet
      <3>4. Len(cookies[r]) <= 2 /\ ToSet(cookies[r]) \subseteq {Clear, r}
        <4>1. CASE cookies[r] = <<>>
          BY <3>3, <4>1
        <4>2. ASSUME NEW c \in {Clear, r}, cookies[r] = <<c>>
              PROVE  Len(cookies[r]) <= 2 /\ ToSet(cookies[r]) \subseteq {Clear, r}
          BY <3>3, <4>2
        <4>3. ASSUME NEW c \in {Clear, r}, NEW d \in {Clear, r}, cookies[r] = <<c, d>>
              PROVE  Len(cookies[r]) <= 2 /\ ToSet(cookies[r]) \subseteq {Clear, r}
          BY <3>3, <4>3
        <4> QED BY <3>1, <4>1, <4>2, <4>3
      <3>5. Len(wrote[r]) <= 1 /\ ToSet(wrote[r]) \subseteq 200..503
        <4>1. CASE wrote[r] = <<>>
          BY <3>3, <4>1
        <4>2. ASSUME NEW c \in 200..503, wrote[r] = <<c>>
              PROVE  Len(wrote[r]) <= 1 /\ ToSet(wrote[r]) \subseteq 200..503
          <5>1. Len(wrote[r]) = 1 /\ ToSet(wrote[r]) = {c}
            BY <3>3, <4>2
          <5> QED BY <5>1
        <4> QED BY <3>2, <4>1, <4>2
      <3> QED BY <3>4, <3>5
    <2> QED BY <2>1 DEF AnswerInv, Shape, Stages, Early, Views, Names, TypeOK
  <1> QED BY <1>1, AlwaysAnswerInv, PTL
=============================================================================
