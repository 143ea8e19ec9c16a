# A TLA+ model of GoBootstrapWeb

GoBootstrapWeb is the account layer of a web application: sign-up, login with
cookie sessions, password and email resets, on PostgreSQL, behind a JSON HTTP
API. Most of its code is a sequence of SQL statements per request, and Go runs
every request in a goroutine of its own. What is hard to get right, and hard to
test, is what concurrent requests on one account do to each other. That is what
this project models.

## The system

| part | source | state | operations |
|---|---|---|---|
| user service | `internal/service/user/service.go` | semaphore of hash slots | SignUp, LogIn, ResetPasswordForAuthenticatedUser, Create/ResetPasswordFromResetRequest, Create/ResetEmailFromResetRequest, GetUserByID |
| transactions | `internal/service/user/transaction.go` | open transaction | begin, run the callback, commit, deferred rollback |
| database | `sqlc/migrations`, `sqlc/query`, `internal/db` | users, sessions, password and email reset requests | one statement per query |
| session service | `internal/service/session` | none of its own | CreateSession (count, evict, insert), GetSession, UpdateLastSeen, DeleteSession, DeleteAllSessionsForUser |
| session middleware | `internal/middleware/session.go` | request context | look the session up, expire or touch it; `WithUser` fetches the user later |
| rate limiter | `internal/service/ratelimit` | LRU cache of token buckets, throttle of the eviction warning | Allow |
| handlers, router | `internal/handlers`, `internal/server` | none | limit, body, service calls, then a status and cookies |
| mail | `internal/service/email` | none (SMTP) | SendMail |
| cookies | `internal/web/cookies.go` | kept by the browser | AddSessionToCookie, ClearSessionCookie |
| input validation | `user/service.go`, `user/weak_password.go` | list of common passwords | normalizeAndValidateEmail, isValidPassword |
| logging, JSON, pgerr, main | `internal/middleware/logging.go`, `internal/web`, `internal/pgerr`, `cmd` | none shared | |

How they interact. A request passes the router and the session middleware, which
reads and may delete or touch a session row; a protected handler then fetches
the user in a second statement. Handlers ask the rate limiter (login and the
three requests that mail or re-authenticate), call the user service, and the
sign-up and login handlers call the session service afterwards. The user service
takes a hash slot for every argon2 computation, sends mail outside
transactions, and runs the three resets in a transaction that also deletes
sessions through a session service bound to it. All requests share the
database, the hash slots and the rate limiter, and nothing else.

What is hard about each part, and what makes it correct:

* **Resets.** A reset reads the account, computes a hash, and only then opens its
  transaction (or, with a token, opens it first). Requests that read the account
  before may insert sessions and reset requests afterwards. Correct: nothing
  obtained with the old credentials survives except from a request the reset
  overlapped; a token works once; a failed reset costs nothing; deadlocks are
  resolved and nobody waits for ever.
* **Sign-up and email change.** Address checked when the request is made, decided
  when the token is used. Correct: one user per address.
* **Hash slots.** Correct: exactly as many taken as computations run.
* **Sessions in time.** Cap enforced by three separate statements; expiry judged on a
  row read earlier; `last_seen_at` written seldom, and a touch or deletion that fails only
  logged. Correct: the cap is exceeded only by overlapping logins, deleted sessions stay
  deleted, idleness is measured closely enough unless a touch failed, dormant sessions
  let nobody in.
* **Rate limiter.** Two callers may miss the same key, keys evict each other, the
  clock is read outside the bucket's lock. Correct: one bucket per key, burst plus
  refill, lost buckets reported but not too often.
* **Tokens in time.** Stamped by one clock and judged by another, after the row is
  deleted and before the commit. Correct: a late token is never spent, and a refused
  one is still there.
* **Answers.** Two layers set cookies, every handler maps errors by hand, and the answers of
  two tabs arrive in any order. Correct: status and cookie tell what happened, what was done
  by halves is answered 500, and nobody loses a session that works, unless its deletion failed.
* **Addresses.** The rate limiter counts an address as typed, the service a
  normalised one, the database compares with `CITEXT`. Correct: all three agree on who is
  who, so that limits bound the passwords tried against an account and the mails into an inbox.

## The modules

| module | models | extends |
|---|---|---|
| `Database` | schema, queries, row locks, commit and rollback | |
| `AccountService` | handlers, middleware, user and session service as concurrent requests | `Database` |
| `AccountServiceProofs` | type correctness, hash slots, what resets and unique emails guarantee | `AccountService` |
| `AccountTokenProofs` | what happens to reset tokens, deadlocks | `AccountServiceProofs` |
| `AccountPromise` | an account without statements, locks and failures | |
| `AccountRefinement` | the mapping of `AccountService` to `AccountPromise` | `AccountService` |
| `AccountRefinementProofs` | every step of `AccountService` is one of the promise, or a stutter; what follows | `AccountTokenProofs`, `AccountRefinement` |
| `ResetTokens` | the age of reset tokens, on two clocks | |
| `ResetTokensProofs` | what is refused, spent and kept, and when | `ResetTokens` |
| `HttpAnswers` | status and cookie of every request of a browser | |
| `HttpAnswersProofs` | what answers mean, what cookies survive | `HttpAnswers` |
| `EmailAddresses` | normalisation, `CITEXT`, rate limit keys | |
| `SignInLimits` | the limited routes, over the spellings of addresses | `EmailAddresses` |
| `SignInLimitsProofs` | what the limits bound | `SignInLimits` |
| `SessionLifecycle` | one user's sessions, with a clock | |
| `SessionLifecycleProofs` | deletion, touching, expiry, eviction and number of sessions | `SessionLifecycle` |
| `RateLimiter` | `InMemoryLimiter` with a clock | |
| `KeyQuota` | what a rate limiter owes each key, without buckets, cache and locks | |
| `RateLimiterProofs` | the throttle of the eviction warning, the buckets, the refinement of `KeyQuota` | `RateLimiter` |
| `MC...` | the instances TLC checks | their module |

### Database

A table is the set of its committed rows. PostgreSQL runs at READ COMMITTED, so
a statement reads the committed rows only; `tx[r]` holds the rows the open
transaction of request `r` has written (`wrote`) or deleted (`sess`, `pw`,
`em`), which are also the rows it has locked. `Commit` publishes all of it in one step,
`Rollback` drops it. `UserHolders`, `EmailHolders`, `FkHolders`,
`SessionHolders`, `PwHolders` and `EmHolders` say which open transactions a
statement has to wait for; a statement that must wait is an action that is not
enabled. These six model PostgreSQL, and so do the deadlock actions of
`AccountService`; everything else is the repository's.

A password hash is represented by the password, ids are the requests that drew
them (128 random bits), emails are values up to `CITEXT` equality. Three fields of a row
are no columns: `via`, the password checked for it; `addr`, where its token is
mailed; `raced`, whether a reset of the account overlapped the request that
inserted it.

### AccountService

`pc[r]` is the next step of request `r`; an action is one statement, one mail, or
the start or end of an argon2 computation, with the code up to the next one.

| code | actions |
|---|---|
| `NewMux` | `Arrive` |
| `CreateSessionMiddleware`, `WithUser` | `FindSession`, `DropSession`, `FetchAccount` |
| `CreateLogoutHandler` | `DropSession` |
| `SignUp` | `BeginHash`, `EndHash`, `CreateUser`, then `CreateSession` |
| `LogIn` | `FindUser`, `BeginHash`, `EndVerify`, then `CreateSession` |
| `CreateSession` | `CountSessions`, `PickLru`, `DeleteLru`, `InsertSession` |
| `createPasswordHash`, `verifyPassword` | `BeginHash`, `HashingBusy`, `EndHash`, `EndVerify` |
| `CreatePasswordResetRequest` | `FindUser`, `InsertPwReq`, `MailLink` |
| `CreateEmailResetRequest` | `EndVerify`, `CheckEmail`, `InsertEmReq`, `MailLink`, `MailWarning` |
| `ResetPasswordForAuthenticatedUser` | `EndVerify`, `EndHash`, `Update` .. `CommitReset`, `Notify` |
| `ResetPasswordFromResetRequest` | `ConsumePw`, `RefuseToken`, hash, `Update` .. `CommitReset`, `Notify` |
| `ResetEmailFromResetRequest` | `ConsumeEm`, `RefuseToken`, `Update` .. `CommitReset` |
| end of every reset | `Update`, `DeleteSessions`, `DeletePwReqs`, `DeleteEmReqs`, `CommitReset` |
| `UPDATE users SET is_active = false`, run by an operator | `Deactivate` |
| failing statement or mail, client gone, process killed | `Fail` (with the deferred rollback and release) |
| PostgreSQL failing one of two transactions that wait for each other | `DeadlockVictim` |

Choices worth knowing:

* A DELETE claims the rows its snapshot shows in one step and finishes, which is the
  guard of the next step, when no other transaction holds one of them. An UPDATE of
  the email takes its row lock and its place in the unique index in one step; where the
  code could deadlock between the two (two accounts exchanging addresses)
  both requests fail either way.
* Input that is refused before anything is read or written (malformed body or email,
  unacceptable password, exhausted rate limit) has the effect of a request that
  does not arrive; a refusal later on is one of the failing outcomes of its step.
  `HttpAnswers` and `SignInLimits` have these refusals.
* An expired and an unknown token are refused alike (`RefuseToken`); whether a session or
  a token is expired is left open here and decided in `SessionLifecycle` and `ResetTokens`.
* The middleware runs on public routes as well, where all it can do is touch or
  delete a session; that is an interleaved request of its own. A touch changes no
  field this module has.
* A crash of the process is a `Fail` of every request in flight: nothing else is in
  memory except the hash slots, which start empty.
* The pool's connections are not modelled: no request waits for one while holding
  another, so they can delay a request but not block a cycle of them.
* `DeadlockVictim` resolves a cycle of two waiting transactions. A longer cycle would stop
  `liveness`, where nothing fails, at the deadlock check; in `requests`, where `Fail` is always
  a way out, it would not show. So that there is none is checked on one account only.

### SessionLifecycle

The sessions of one user with `created_at` and `last_seen_at` and a clock. A
request opens a session (`Count`, `PickLru`, `DeleteLru`, `Insert`), presents one
(`Look`, `Check`, then `Drop`, or `Touch` and `Write`, and possibly `Logout`), or is a
reset that deletes them all (`DeleteAllSessionsForUser`). Each acts on `row`, as
it was read. A failing statement is `WriteFails` for the touch, which is logged and lets the request
through with `last_seen_at` as it was (`unwritten` remembers the session until the next
request that is let through), and `Fail` for the rest: a login ends in an error, a drop still refuses
and a logout is still answered although the row stays. 90 days, 14 days and 20 minutes become `Absolute`, `Idle` and
`TouchAfter` ticks. The clocks of Go and PostgreSQL are taken to be one.

### RateLimiter

`Get`, `PeekOrAdd`, `OnEvict`, `ReadClock` and `AllowN` are the sections of
`Allow` between locks and clock reads. A bucket gains one unit of credit a tick
and an occurrence costs `Cost`, so `Count * Cost` ticks are one `Per`. The cache
(golang-lru) and the bucket arithmetic (x/time/rate) are external and modelled
as this code uses them. The warning is logged under the throttle's lock, so
`Throttled` is one step. `OnEvict` takes the two clock reads of an eviction (`ratelimit.go:44`, for what
the bucket has left, and `:75`, the throttle's own) as one; `WarningsApart` is about the throttle's. `grants[k][t]` counts what a key was allowed up to `t`, `evicted` and `skewed`
remember the keys whose bucket was lost or that were granted an occurrence of a time before one they had:
only the properties read them.

`KeyQuota` is what the answers promise. A caller asks about a key, an answer is as of a moment between
question and answer (`Fix`), a grant keeps every stretch of time within the burst and the refill, and a
refusal is given only to a key for which one occurrence more would not be (`Exhausted`), or that has an
occurrence after that moment. `RateLimiter` maps `key` to `asks` and the time a caller read to `asOf`;
lookup, insertion and reporting are stutters, but for an eviction, which is `Forget`.

### ResetTokens

The rows of one reset request table of one account, and requests that present their
tokens. The password and the email table behave alike here, and so does the code.

| code | actions |
|---|---|
| `CreatePasswordResetRequest`, `CreateEmailResetRequest` | `Ask` |
| `ConsumePasswordResetRequest`, `ConsumeEmailResetRequest` | `Consume`: DELETE .. RETURNING, waits for the row's lock |
| `time.Now().After(expiresAt)` | `Check`, on the application's clock |
| `createPasswordHash` and the UPDATE of the user | `Hash`: one reset of an account passes at a time |
| `deleteOutstandingResetRequests` | `Delete` |
| commit; any other way out | `Commit`; `Check` or `Fail`, which roll back |

`created_at` is `NOW()` of the database; the application's clock is `skew` ahead or
behind, by the same all along. Nothing in the code bounds the difference, so `MaxSkew` is a
parameter the properties mention. A missing and an expired token are answered with the same
`ErrInvalidResetToken`; only the model tells them apart. The code never deletes expired tokens, and neither does the model.

### HttpAnswers

A browser with several tabs. A request passes `Send`, `CrossOrigin` (403), the middleware
(`Session` finds the session or not, `Drop` deletes an expired one, `Touch` updates one in time; each
decides whether the cookie is cleared), then a handler: `Unauthorized` and
`UserUnread` (`WithUser`), `Refuse` (429, 400, 413), `ServiceError` (the error a
service method returns, mapped by the handler's `write...Error`), or one of the
actions that take effect (`SignUp`, `LogIn`, `CreateSession`, `Logout`, `GetUser`,
`Reset`, `RequestReset`), and `Deliver`, where the browser obeys the cookie headers in their
order. `Elsewhere` is what others do to the account meanwhile.

`expired` are the sessions too old to be used, by idle or by absolute age. A touch by a request that judged
its session in time may make it usable again after another request judged it expired, and if that
one's deletion failed (`context` is then `undeleted`) it still clears the cookie.

`SignUpErrors`, `LogInErrors` and so on list the errors each service method names, `WriteError` the
status each handler gives them. `Fails` is `WriteAndReportInternalError`, reached by errors without
a name and by two with one: `session.ErrUserNotFound` of `CreateSession` and `user.ErrUserNotFound` of
`GetUserByID`, both for a user deleted under the request (`user_not_found`). A service call is one step here because
`AccountService` shows that a failed transaction changes nothing; the exceptions leave something behind: a
commit whose answer is lost, a mail that fails after the insert, the user row that stays when
`CreateSession` fails, and the eviction that is committed before its insert fails.

### EmailAddresses and SignInLimits

A text is a sequence of characters, `Small` their lower case. `Normalize` is
`normalizeAndValidateEmail` (trim, parse, length, one `@`, local part and domain, lower-case
domain), as the set of at most one address; `SameAddress` is `CITEXT`; `Key` is the value part of
`limitByField`. Go's `ToLower` and PostgreSQL's `lower` are taken to agree, which `EmailAssumption`
contains: no character becomes a mark or stops being one.

`SignInLimits` has the four limited routes and the two that change addresses, each
handler in one step: `LogIn`, `Forgot` (keyed by the text), `Reauthenticate`, `AskEmail` (keyed by
user), `SignUp`, `ConfirmEmail`, and `TooManyRequests`. A 429 of a route keyed by user changes
nothing the model has and is a stutter. It covers any stretch of time in which no bucket is evicted. Buckets
refill meanwhile (`Refill`), and as the policies have different `Per`s, `Refills[route]` says what a
bucket of the route can regain in the stretch: `Most(route)`, its `Count` and that, bounds what it gives away, and
the properties add up `Most` over routes. For one `Per` of a route the refill is up to its `Count`. When a token comes
back is left open, which allows more than the clock does; the clock, evictions and races on a bucket are in
`RateLimiter`. Mails that report a completed reset are not
counted, as no limit is meant to bound them.

### AccountPromise and the refinement

`AccountPromise` says what an account is worth to its user, without statements, locks, hashes
and failures: accounts, the grants that open them (sessions and tokens of either kind) and the
tokens spent. `ChangePassword` and `SpendToken` replace the credentials and end every grant of the
account in one step, but for grants of requests the reset overlapped; `Open`, `Close`, `SignUp` and
`Deactivate` are the only other steps. `AccountRefinement` maps `users` to `accounts`, the
rows of the three other tables to `grants`, and the tokens of committed resets to
`spent`. What an open transaction has written or deleted maps to nothing, so its statements are
stutters and the reset happens at its commit; a failed reset is no step at all.

## What is checked

Every run of `requests`, `liveness`, `sessions`, `limiter`, `answers`, `tokens` and `limits`
passes, with the deadlock check on: requests that have ended, and a clock that has reached its
bound, stutter explicitly (`Quiesced`, `Done`).

| run | properties | what it shows |
|---|---|---|
| `requests` | `TypeOK`, `HashSlotsExact`, `UnracedCurrent`, `ResetWipes`, `TokenSpentOnce`, `FailedKeepsToken`, `OneUserPerEmail`, `DeadlockNeedsToken`, `KeepsPromise` | any three requests, with a failure at any step, implement `AccountPromise` |
| `liveness` | `EveryRequestEnds` | resets, logins and reset requests on one account are all answered, without any failure to help |
| `sessions` | `TypeOK`, `CapPlusOverlaps`, `NoResurrection`, `TouchKeepsUp`, `DormantRefused`, `EvictsLruUnlessTouched`, `ExpiresDormantUnlessTouched` | four requests over a session's whole life |
| `limiter` | `TypeOK`, `OneBucketPerKey`, `WarningsApart`, `LossReported`, `KeepsQuota` | two callers, two keys, room for one, implement `KeyQuota` |
| `answers` | `TypeOK`, `RefusedChangesNothing`, `SuccessIsReal`, `HalvesAreErrors`, `LoginSticks`, `KeepsUsable`, `StaleCleared` | two tabs, any two operations, answers in any order, with faults |
| `tokens` | `TypeOK`, `LateNeverSpent`, `ExpiredForGood`, `KeptForRetry` | three requests, two tokens, around their expiry |
| `limits` | `TypeOK`, `TriesPerAddress`, `RefusalsEarned`, `GuessesPerAccount`, `SpellingsReachAccount`, `MailsPerInbox` | two accounts, three texts, login buckets that refill, until every limit is spent |

The other runs each show one statement of the repository that concurrent requests,
or the passing of time, refute. All are listed with file and line under "findings".

| run | statement | counterexample |
|---|---|---|
| `stale_session` | a password reset deletes the sessions | a login verifies the old password, the reset commits, the login inserts its session |
| `stale_password` | a reset with an incorrect password fails | two resets verify the same password, the second commits over the first |
| `stale_reset_request` | a credential change invalidates in-flight resets | a forgotten-password request reads the account, an email reset commits, the request is inserted with the former address |
| `inactive_user` | an inactive user is never added to context | deactivated between `GetSession` and `GetUserByID` |
| `limiter_window` | at most `Count` within `Per` | the burst, then a token refilled within the same `Per` |

The passing properties say precisely how far the refuted statements still hold:
`UnracedCurrent` and `ResetWipes` for every row no reset overlapped,
`KeepsQuota` for
every stretch of time (its grants alone are `BurstPlusRefill`, which no run repeats). `CapPlusOverlaps` says of
"creating eleventh session deletes only least recently used session" (`session_integration_test.go:39`) that
logins that overlap may all count before any of them inserts and delete nothing, so that the cap of ten is exceeded by
as many as overlap and no more; `sessions` reaches that bound. `EvictsLruUnlessTouched` does so for "only the least recently used
session" (`session_integration_test.go:39`): the DELETE rechecks the id alone, so a session touched
after it was picked goes too. `ExpiresDormantUnlessTouched` says the same of an expiry: a session read
just before it expired can be touched by one request and deleted by another that read it before the touch. It
and `TouchKeepsUp` except a session whose last touch failed: its last use is not in the row, and it can be
deleted although it was just used. `UnracedCurrent` says nothing of rows a reset overlapped;
`stale_session` and `stale_reset_request` show what becomes of them. `SuccessIsReal` names its two exceptions, a logout the
database failed and a password reset of an unknown address. `HalvesAreErrors` says what a failed request may leave
behind (`Leftover`): a user without a session, an eviction without a login, a reset request nobody was told of, and
never half a reset. `KeepsUsable` excepts the answers of a logout and of a drop whose deletion failed:
both take the cookie of a session that works.

Bounds. Two requests suffice for every race named above and the third one puts
another reset, login or failure in between; deadlocks need two and a bystander.
The initial account has one session and one token of each kind; two emails
let an email change collide with a sign-up; as many user ids as emails, so a sign-up
never lacks an id; two passwords tell old from new. `MaxConcurrentHashes = 2`
with three requests reaches the busy branch. `MaxNumberOfActiveSessions = 2` reaches
eviction by the second login. In `sessions`, `TouchAfter < Idle < Absolute < MaxTime`, so that every
branch of the middleware happens. In `limiter`, `MaxCalls = 5` exceeds the burst by three and
`MaxTime` covers a refill and a warning interval. In `answers`, two requests suffice because tabs meet only in the cookie jar and the
sessions, and `Elsewhere` stands for everybody else. In `tokens`, `Life = 2`, `MaxSkew = 1` and five
ticks let a token be asked for late and still expire while its request waits; the third request
retries what the first two contend for. In `limits`, one of the two addresses has two spellings (case and
blanks), so that one can take what the other needs; every policy allows one, and a bucket of login
regains one, so that a refused client may ask again; refills of the other routes and texts that are no
address are left to the proofs. Requests (and callers, keys and tokens) are interchangeable, which the passing safety runs but
`limits` use as symmetry; `liveness` does not.

Fairness. `FairSpec` asks weak fairness of each request's `Work`: a goroutine is
scheduled, PostgreSQL wakes the waiters of a lock when it is released and breaks
deadlocks by itself. For a mail it assumes that `smtp.SendMail` returns, for which the code sets no
timeout. Fairness asks nothing of `Arrive` (no client has to come) or `Fail`.
Weak fairness is enough because a request that waits is waiting for transactions that
are finitely many and each end.

## What is proved

TLAPS proves, of `AccountService` for any finite set of requests, any emails, passwords and users, any
initial database that satisfies the schema (`DatabaseAssumption`), any bounds
(`ServiceAssumption`, `OpsAssumption`), with and without faults; of the other modules for any
requests, callers, keys, intervals, clocks, alphabets, texts and limits that satisfy
`LifecycleAssumption`, `RateLimiterAssumption`, `TokensAssumption`, `AnswersAssumption`,
`EmailAssumption` and `LimitAssumption`:

| theorem | states |
|---|---|
| `TypeCorrect` | `Spec => []TypeOK` |
| `SlotsExact` | `Spec => []HashSlotsExact` |
| `AlwaysResetInv` | `Spec => []ResetInv`, the invariant behind the next three |
| `UnracedCurrentHolds` | `Spec => []UnracedCurrent` |
| `OneUserPerEmailHolds` | `Spec => []OneUserPerEmail` |
| `ResetWipesHolds` | `Spec => ResetWipes` |
| `AlwaysTokenInv` | `Spec => []TokenInv`, the invariant behind the next three |
| `TokenSpentOnceHolds`, `FailedKeepsTokenHolds` | `Spec => []TokenSpentOnce`, `Spec => []FailedKeepsToken` |
| `DeadlockNeedsTokenHolds` | `Spec => []DeadlockNeedsToken`: of two transactions that wait for each other one at least has a token; the other, and the victim, may be an authenticated reset |
| `KeepsPromiseHolds` | `Spec => KeepsPromise`: `AccountService` implements `AccountPromise` |
| `PromiseKept` | `Spec => []Promise!Kept`: owners, unique accounts, fresh grants, spent tokens |
| `LifeTypeCorrect` | `Spec => []TypeOK` of `SessionLifecycle` |
| `NoResurrectionHolds`, `TouchKeepsUpHolds` | `Spec => []NoResurrection`, `Spec => []TouchKeepsUp` |
| `DormantRefusedHolds`, `EvictsLruHolds`, `ExpiresDormantHolds` | `Spec => DormantRefused`, `Spec => EvictsLruUnlessTouched`, `Spec => ExpiresDormantUnlessTouched` |
| `CapPlusOverlapsHolds` | `Spec => []CapPlusOverlaps` |
| `AlwaysTokensInv`, `TokensTypeCorrect` | `Spec => []TokensInv` and `[]TypeOK` of `ResetTokens` |
| `LateNeverSpentHolds`, `ExpiredForGoodHolds`, `KeptForRetryHolds` | `Spec => []LateNeverSpent`, and so on |
| `AlwaysLimitInv` | `Spec => [](UserInv /\ LimitInv)` of `SignInLimits` |
| `TriesPerAddressHolds`, `RefusalsEarnedHolds`, `SpellingsReachAccountHolds` | `Spec => []TriesPerAddress`, and so on |
| `GuessesPerAccountHolds`, `MailsPerInboxHolds` | `Spec => []GuessesPerAccount`, `Spec => []MailsPerInbox` |
| `LimitsTypeCorrect` | `Spec => []TypeOK` of `SignInLimits` |
| `AlwaysAnswerInv`, `AnswersTypeCorrect` | `Spec => []AnswerInv` and `[]TypeOK` of `HttpAnswers` |
| `RefusedChangesNothingHolds`, `SuccessIsRealHolds`, `HalvesAreErrorsHolds` | `Spec => []RefusedChangesNothing`, and so on |
| `LoginSticksHolds`, `KeepsUsableHolds`, `StaleClearedHolds` | `Spec => LoginSticks`, and so on |
| `WarningsApartHolds`, `LossReportedHolds` | `Spec => []WarningsApart`, `Spec => []LossReported` of `RateLimiter` |
| `AlwaysLimiterInv`, `LimiterTypesHold` | `Spec => []LimiterInv` and `[]TypeOK` of `RateLimiter` |
| `OneBucketHolds`, `BurstPlusRefillHolds` | `Spec => []OneBucketPerKey`, `Spec => []BurstPlusRefill` |
| `UnderTwiceHolds` | `Spec => []UnderTwice`: fewer than `2 * Count` in any `Per` for a key that was never evicted nor granted out of order, what is left of the policy `limiter_window` refutes |
| `KeepsQuotaHolds` | `Spec => KeepsQuota`: `RateLimiter` implements `KeyQuota` |

`hashSlots \in 0..MaxConcurrentHashes` is not inductive by itself, since a release
could reach -1; `TypeCorrect` follows from the typing of everything else together with
the count of `SlotsExact`.

`UnracedCurrent` needs more. A commit changes the credentials, so it preserves
the property only because its DELETEs had claimed every unraced row (`Claims`); rows
inserted after a DELETE's snapshot are marked `raced` by the insert. An insert preserves it
because the account the request read is current unless a reset raced it
(`Snapshots`). For both, the transaction has to write the account of its own
request and no other (`Writes`), and two open transactions must not write the same
account or address (`Locks`, which is where row locks and the unique index are
needed). `ForeignKeys` ensures that a row's account exists. The conjunction `ResetInv` is
inductive: one lemma per kind of step (reads, drops, rollback, creation, inserts,
update, claims, commit, deactivation), combined per action in
`WorkKeepsResetInv`. `OneUserPerEmail` is one of its conjuncts and `ResetWipes` follows
from `Claims` at the commit.

`TokenInv` is about the rows of tokens. A transaction that consumed a token holds its row, still in
the table, until it ends (`TokenHeld`); at its commit no other one holds a row it deletes (`Exclusive`); it
writes and deletes rows of its own account only (`OwnRows`, `Written`); ids are never drawn twice
(`FreshIds`); and a token that was presented is in its table until a reset of the account commits (`Lasts`),
and in none after its own did (`Ended`). Spending it twice would need two holders.

The refinement proof has one lemma for each kind of step: reads and statements inside a transaction leave
the three mapped variables as they are; an insert is `Open`, a deletion `Close`, and
`CommitReset` is `ChangePassword` or `SpendToken`. The commit needs `ResetInv` (what survives was raced, the
written account is the one read) and `TokenInv` (the token was there, and is not afterwards).
`PromiseKept` is then proved of the steps of the promise alone, and holds of the service because it implements it.

`NoResurrection`, `TouchKeepsUp` and `DormantRefused` speak of the rows of the
table and of the last use, while requests act on rows they read before. `LifeInv` adds
what relates the two: ids are unique and a request's own id is unseen until it inserts
(`Fresh`), and a row that was read is no younger than the same row of the
table, nor than its last use (`Kept`). A row that lags its last use by more than `TouchAfter` has an id in
`unwritten`, which a request leaves only by using the row in time. `Picked`, for the eviction, is of the same kind: no row is older
than the picked one was. `DropInv` says that a row about to be dropped was read expired and still is, and that the table's
row of that id is of the same age. `CapInv` counts rows together with the logins that have counted and not
inserted yet: the sum exceeds the cap by the overlaps, and by one more only while a login
still has a row to delete that is really there; a login that fails is counted no more. `WarnInv` adds to the two properties of the
throttle that `nextRun` is the end of the interval the last warning opened.

`TokensInv` rests on the lock: a request judges a token while it holds its row, so between its check and
its commit nobody else can judge it (`Locks`); what was refused is expired for every later check, and what was
accepted has not been refused (`Judged`). A row leaves the table by a commit only.

`LimitInv` states that what is spent of a bucket is what was asked about its address, that it is at most the
`Count` and what was refilled, and that this is at most `Refills`. It rests on two
facts about texts, for any alphabet: the key of a text with an address is that address in lower case, and a
text whose key is the key of a text with an address has one too, which is equal for
`CITEXT`. Without the second, a spelling the service refuses would spend the bucket of an account.
`GuessInv` and `MailInv` add up several buckets: the logins of every address an account has had with its
own two buckets, and the resets of an address with the changes every account asked. The sums are sizes of sets
of numbered tokens (`Tokens`), so that a step that spends a token adds an element to one of them
(`TokensGrow`) and the bound is the size of a product (`TokensFinite`). `HistInv` says that the addresses an account
has had are finitely many and include its own, so that a login that reaches it counts for one of them.

`AnswerInv` says of each request what it has changed, answered and set at its stage (`Progress`, `Meant`), so that what an
answer means is decided by the step that gives it, and of the requests together that a cookie a request carried was
brought by an answer delivered before it was sent (`Given`). That is what `KeepsUsable` needs. A request whose
answer clears the cookie carried one whose session is gone, or whose account is inactive, unless the
deletion failed (`Cleared`); and what is gone stays so until the header arrives (`StaysGone`), because a
touch revives no row that is deleted and the session another tab is about to create has not been given out. Being too old is
no such fact, as a touch undoes it, and the invariant does not use it.

`LimiterInv` is about the buckets. `BucketInv` says whose they are: a bucket serves one key, and a key that was never
evicted has at most one, in the cache, which is where the next caller looks. A bucket that is made has a
number of its own because each belongs to a call that has missed (`CountInv`). `CreditInv` is the upper
bound in the form a grant preserves: from any time on, what a key was granted and what its bucket has left is
at most the burst and the refill (`Balanced`). `BurstPlusRefill` alone is not inductive, since it does not know
the credit. `SpentInv` is the lower bound, and what makes a refusal due: from *some* time on, the last
at which the bucket was full, nothing of the burst and the refill is lost (`Spent`). It holds of evicted buckets too.
With both, `AllowN` is a `Grant` or a `Refuse` of `KeyQuota`, and each other action one of its steps or a stutter.

Only model-checked: `EveryRequestEnds`, because liveness under fairness and `ENABLED` are outside what
the prover handles, as is induction over recursively defined data. The lists of the cache are changed by
position, not by recursion, so that what `RemoveAt`, `Front` and putting an entry in front keep could be proved
(`MovedToFront`, `LastDropped`, `PutInFront`).

## Not modelled

* `isValidPassword`, beyond its refusals: two lengths and the lookup in a list of common passwords.
* SMTP is I/O: a mail is sent or fails. The slice mail service exists for tests.
* The argon2 computation is the comparison of two passwords.
* `pgerr` classifies driver errors; its classes are the refusing branches of
  `CreateUser` and `Update`.
* Start-up wires the components and listens. There is no graceful shutdown: a stop is a
  `Fail` of every request in flight.
* The wording of answers, cookie attributes, log attributes and the 404 and 405 of
  `ServeMux`, which reach no handler.
* A limiter that fails: the in-memory one never returns an error.

## Plan

Done: the three components in time and concurrency (`AccountService`, `SessionLifecycle`,
`RateLimiter`), the abstract account and the abstract quota with their refinements, token ages, answers,
addresses and limits, and the theorems above. What could follow, in this order:

1. Liveness with sign-ups and deactivation, and with two accounts that exchange their addresses.
2. The rate limiter composed with the answers: what a client that retries on 429 gets to see.
