# Formal models of the Portal SDK

TLA+ models of `go.lumeweb.com/portal-sdk`, the Go client of the LumeWeb portal
services, with the configurations that check them with TLC and the proofs that
TLAPS checks. Source references are to the files of the repository
(`account.go:1768` is line 1768 of `account.go`).

## 1. The system

The SDK is a client library. It runs in the process of an application, keeps
almost no state of its own, and talks to services it does not control. What is
hard in it is therefore not data but order: goroutines of the application that
share one client, a token that is swapped while requests are under way, answers
that arrive after a deadline, redirects that may or may not be followed, an event
stream with a goroutine of its own, and 143 operations that turn responses into
errors in several ways.

| Component | Files | State | Operations | Hard behaviour |
|---|---|---|---|---|
| Operation polling | `account.go` 22-44, 830-868, 1633-1645, 1761-1802 | local to a call: ticker, context, settled states | `WaitForOperation`, `GetOperation`, `WithPoll*` | tick and deadline ready together, deadline inside a request, caller cancelling, slow polls and dropped ticks, a service that never answers |
| Authentication and request pipeline | `account.go` 1139-1408, 2490-2547; `internal/http/client.go`; `applyEditors` in `internal/client/client.gen.go` | `Client.jwt` under `mu`, `disableRedirect` | `NewClient`, `SetAuthToken`, `Login`, `LoginWithAPIKey`, `ValidateOTP`, `SocialLogin`, `SocialLogout`, `LinkSocialProvider`, every other call | hot-swap and revocation during a call, order of the editors that set `Authorization`, per-request redirect control on a shared `http.Client` |
| Billing event stream | `account.go` 660-745, 2342-2363 | `conn`, `eventChan`, handlers, `jwt` | `SubscribeBillingEvents`, `OnEvent`, `OnMessage`, `Connect`, `Disconnect`, `dispatchEvents` | registration while dispatching, reconnecting while an old dispatcher runs, unsynchronised fields, buffered events after `Disconnect` |
| Response handling | `internal/http/errors.go`; `account.go` 55-137, 254-457, 870-903; `admin/*.go`, `meta/*.go`; every operation | none (tables) | `HandleResponse`, `ValidateJSON200`, `ValidateJSON201` and the ends of 143 operations | hand-written tables and call sites that must agree with each other and with the API specifications |
| Download rate limiters | `account.go` 1988-2055 | none; the quota is the service's | `CreateDownloadRateLimiter`, `CreateDownloadPercentLimitedRateLimiter` | check-then-act against a shared quota by downloads that run together, a quota that changes between reading and verdict, unlimited and negative sizes, a rounded percentage |
| List options | `account.go` 784-828, 1532-1719 | none | pagination, search, filters, sorts | zero and nil boundaries of a page |
| Host override transport | `internal/http/client.go` 13-88 | none | `RoundTrip` | redirects to other hosts pass through the override too, and come back to the target |
| Admin client and services | `admin/*.go` | none (token per client) | quota, billing, users, websites, domains, social providers, pprof | error tables per service, two of which test for a nil request; `GetSubscriber` loses `PausedAt` (`admin/billing.go:1124`) |
| Meta client | `meta/*.go` | none (token per client) | statistics and export of CIDs, statistics of the service | error paths |
| Generated clients | `internal/*/client.gen.go` | none | `New...Request`, the client methods, `Parse...Response` of 143 operations | redirects that turn a writing request into a GET, repetitions by `net/http`, broken connections, a context that ends in any of these, bodies that do not decode |
| Mocks, specifications | `mocks`, `specs` | none | | inputs and outputs of generators |

Components interact by calls only. `WaitForOperation` calls `GetOperation`, which
goes through the request pipeline and response handling; the event stream takes
the token and endpoint of the client when it is created and is independent
afterwards; the rate limiters call `GetQuota` through the `AccountAPI` interface. Each
operation of the three clients is one exchange: the generated client builds and
sends the request, `net/http` follows redirects through the host override, the
generated Parse function decodes the answer, and response handling judges it.

What makes each component correct:

- *Polling*: it returns an operation only in a state the caller asked for and the
  operation really had; it blames the context only when the context is done; it
  does not burden the service beyond its pace; it always returns; it misses no
  operation that settled in time.
- *Pipeline*: each request carries the credential it is meant to carry; rotation
  of tokens is invisible to calls that begin after it; a redirect is captured by
  exactly the requests that want it; a login never succeeds without a token.
- *Event stream*: exactly-once, in-order delivery to each handler from its
  registration on; no leaked connection or goroutine; current credentials.
- *Response handling*: no failure passes for success nor the reverse; the
  sentinels callers test for with `errors.Is` are present and true.
- *Exchange*: a success was performed, what was performed is not reported as
  failed, and nothing is performed twice; missing data is an error and not a panic;
  a call whose context is done returns.
- *Rate limiters*: a verdict is that of the quota at one instant of the call; what
  concurrent downloads exceed the quota by together is bounded.

## 2. Modules

| Module | What it models |
|---|---|
| `AwaitSettled` | The abstract promise of a wait: one outcome; a settled status the operation had; context errors only under a done context; a done context ends the wait. No time, ticker or request. |
| `WaitForOperation` | The code of the wait with clock, ticker, context, request and operation. `Promise == INSTANCE AwaitSettled` is the refinement mapping (`expired` is `CtxDone`; `seen` is a history variable). |
| `PromptWait` | `WaitForOperation` restricted to a prompt environment (scheduler and service faster than the clock, nobody cancels), for the timeliness property that only holds there. |
| `WaitForOperationProofs` | Theorems about `WaitForOperation` and their proofs. |
| `PromptWaitProofs` | The theorem about `PromptWait` and its proof; extends `WaitForOperationProofs`. |
| `AuthClient` | The request pipeline under concurrent callers. |
| `AuthClientProofs` | Theorems about `AuthClient` and their proofs. |
| `EventStream` | The billing event stream. |
| `EventStreamProofs` | Theorems about `EventStream` and their proofs. |
| `OperationTables` | The vocabulary of the tables: the ways of handling a response, the messages, requests and decoded codes. |
| `OperationTablesProofs` | The entries of what those constructors make: the lemmas by which the proofs read a table. |
| `AccountOperations` | The 53 operations of `account.Client`, and `httpErrorMessages`. |
| `AdminOperations` | The 85 operations of the admin services and the 5 of the meta services, and their error messages. |
| `ResponseHandling` | Extends both tables: what an operation makes of a response. The abstract specification of a call. |
| `ResponseHandlingProofs` | Theorems about `ResponseHandling` and its tables, and their proofs. |
| `AccountWire`, `AdminWire` | The same 143 operations in the generated clients: method and path of the request, and the codes whose JSON body is decoded. |
| `Exchange` | Extends `ResponseHandling` and both wire tables: a call of any operation over HTTP. `ImplementsHandling` is the refinement: the variables of `ResponseHandling` keep their meaning, everything on the wire is a stutter. |
| `ExchangeProofs` | Theorems about `Exchange` and their proofs; extends `ResponseHandlingProofs`. |
| `AdmissionCheck` | The abstract promise of a rate limiter: a verdict is one judgement of the quota as it is at one instant of the call, or an error. |
| `DownloadQuota` | Both rate limiters, concurrent downloads and the quota they share. `Check == INSTANCE AdmissionCheck WITH ...` is the refinement mapping. |
| `DownloadQuotaProofs` | Theorems about `DownloadQuota` and their proofs. |
| `MC*` | Values of constants for TLC. |

Definitions whose comment starts with "Mutant:" are not used by any
specification. Each is a plausible bug of the definition that follows it, and is
kept to show that the property it belongs to can fail (section 6).

### WaitForOperation

`pc` is the place of the calling goroutine: `select` (1787), `calling` (a tick was
taken, no request yet), `sent`, `replied` (the service has read the operation, the
answer travels), `returned`. `SelectDone` and `SelectTick` are the two cases of the
select and may both be enabled. The ticker is Go's: period `Interval`, a channel of
one tick, a tick that finds it full is dropped (`TimePasses`). `CtxDone` is the
context of `context.WithTimeout`, done by deadline or by the caller. A request
under a done context fails (`PollAborted`) at any point until its answer is
handled; an answer that is complete first may still win. `PollFails` is any other
error of `GetOperation`: the code returns it at once, without a retry.

### AuthClient

A call goes `built` (generated parameters have set their header: only the API key
of `LoginWithAPIKey`), `edited` (the editor of `NewClient` has overwritten it with
the current token, if there is one), `sent` (the call's own editors have run: only
`ValidateOTP` has one), `responded`, possibly `sent` again by a redirect, `done`.
Tokens of the client are numbers in the order of `SetAuthToken`, which `issued` counts;
`ClearAuthToken` is `SetAuthToken("")`, after which the client has none (`jwt = 0`) until the
next. Two fields of a call are history: `since` is the oldest token it may carry, the one
current when it began, and `found` says whether the client had one at every moment until the
header was made. `Result` is what the operations return: `OTPRequired` of a login is false for a
302 and the `otp` flag of the body for a 200, independently of the token.

Assumptions: an application installs fresh tokens only, and a service revokes a token only
when the client no longer has it, so that refusals because of rotation are distinguishable;
the login endpoint sets the `otp` flag with an intermediate token and not with another
(`Answers`). `Ping` stands for every operation that just sends the token. A redirect stays on
its host. What the page behind a login redirect answers is unknown to the repository and left
open (`PageAnswers`), its flag too.

### EventStream

`link[k]` is the connection that the `k`-th `Connect` made, with the log of events the
service put on it and how many were taken from its channel; `dispatcher[k]` is the
goroutine that `Connect` started, with the channel it ranges over. `dispatchEvents`
evaluates `s.eventChan` when it starts to run, unsynchronised with a later
`Connect`: `StartDispatch` takes its own channel or the field's current one. The
look-up of handlers under the read lock (`Snapshot`) and the calls outside it
(`CallHandler`) are separate steps. Two calls of `Connect` may dial at the same time, and
`s.conn` is the connection of the later one; that `Connect` reads `s.conn` a second time to dial,
and may find there the connection of another `Connect`, is left out. The connection of sse-go is
external: it delivers in order, and a `Close` during the dial makes `Connect` fail.

### ResponseHandling

Each operation is `Call(errors, codes, needs)`: how its error is made, the codes it
accepts, and what it needs from the response. `Status`, `Raw`, `Data` and `Unchecked` end
in `HandleResponse`; `Validated` is `ValidateJSON200` and `Created` is `ValidateJSON201`,
which look for a 401 first; `Bare` is an operation that compares the status itself.
`Messages` are the error tables of the services with messages reduced to the sentinel
they wrap. `account.go` calls `ValidateJSON200` with the operation -1, so those
operations have no messages; the admin and meta services pass theirs. `Unchecked`
operations dereference `JSON200` without a test. Four admin operations refuse a nil
request themselves (`RejectNilRequest`); the others dereference it and are assumed
to be given one. Names are qualified by service (`quota.GetPlan`), except those of
`account.Client`.

### Exchange

`wire` is the request under way, with its method, its place (host, and whether the path
is the operation's own) and the host that is dialed;
`answer` is what came back. The phases are `idle` (nothing sent), `sent`, `answered`
(headers are there, the body is not read), `parsed` and `failed`. `Send` is the client method
of the generated client: build the request, run the editors, `Do`. `FollowRedirect` is
`net/http`'s (external) under the `CheckRedirect` of `internal/http/client.go`, which
captures a redirect for a client built `WithDisableFollowRedirect` and for the requests
of `ValidateOTP`, `SocialLogin`, `SocialLogout` and `LinkSocialProvider`, and otherwise
lets it go on. Every hop passes through `RoundTrip`, the host override, so that under an
override a hop to another host comes back to the service, and to what performs the
operation if its path and method are those (`AtHandler`). `DecodingFails` and
`Parse` are the Parse functions: a body that says it is JSON must decode if the function
knows the code. `Repeat` is `net/http`'s repetition of a GET whose connection broke, and
`ConnectionFails` any other error of the transport, before or after the service acted.
`Handle` is `ResponseHandling`.

Assumptions about what is outside the repository, each in a definition marked external:
a 2xx that the operation's own handler gives means that the operation was performed; a page,
which is anything but that handler, answers a GET with 200 and any body, JSON too, and gives no
other 2xx (`CanAnswer`); a token in a redirect is the operation's; a redirect that is no success
of the operation comes before it is performed (`Performances`); `net/http` keeps the method over
307 and 308 only, and repeats GET only. The endpoint has a scheme. Query parameters, headers
(and with them which hops keep `Authorization`) and the content of bodies are left out.

What the model showed, and what its properties make room for by name:

- `CanBeMisled`: a client that follows redirects may take the 200 of the page behind a 302 for
  the success of any operation that accepts a 200: most need nothing from the body or test
  only that it was JSON. `SocialLogin`, `SocialLogout` and `LinkSocialProvider` take any
  redirect for theirs, also one of a proxy in between. `SuccessMeansPerformed` is what is left:
  the operations that accept only 201, 204 or 302, and all but those three on a client that
  follows no redirects.
- An undecodable JSON body of a 401 is an error of the Parse function and not
  `ErrUnauthorized`; `RejectedTokenIsUnauthorized` is about answers that decode.
- `GetAccount`, `GetPermissions` and `quota.ListUserConfigs` panic on a 200 whose body is not
  JSON (result "panic"), and on nothing else (`PanicsAreForeignBodies`).

### DownloadQuota

A downloader goes `idle`, `asked` (the limiter was called with a size it does not refuse at
once), `read` (the service has answered `GetQuota`; the answer travels), `downloading` (the
limiter returned true), `idle` again when the service has charged the download or it was
abandoned. `Admits` is the end of the two closures (2004-2017, 2040-2054). The quota, its
plan and window are external: `ChangePlan` and `ResetWindow` may happen at any moment, the
percentage is an integer rounded in any direction, and an unlimited plan has no
`Remaining`. `peak` (the highest limit so far) and `overlapped` (a limiter was asked while
another downloader was not idle) are history variables for the two bounds.

## 3. Runs

| Run | Checks | Bounds |
|---|---|---|
| `wait_default` | `TypeOK`, `ResultIsFinal`, `ContextBlamedOnlyWhenDone`, `PollsArePaced`, `NeverPollsPastSettled`, `AlwaysReturns`, `ImplementsPromise` | interval 2, timeout 5, clock to 7; default settled states |
| `wait_prompt` | `NoSettledOperationMissed` | interval 3, timeout 12, clock to 13 |
| `auth_default` | `TypeOK`, `RotationIsSeamless`, `NoStaleCredential`, `OTPCarriesIntermediate`, `OTPTokenIsReturned`, `PlainCallsFollowRedirects`, `IntermediateIsFlagged`, `NoTokenNoSuccess`, `UnfollowedLoginReturnsToken` | 2 callers (symmetric), 2 tokens, 2 redirects; clients built with and without `WithDisableFollowRedirect`, with and without `WithJWT` |
| `stream_once` | `TypeOK`, `ExactDelivery` | 1 connection, 3 events of 2 types and heartbeats, 4 handlers (2 catch-all), 2 tokens |
| `stream_reconnect` | `ExactDelivery`, `NoDuplicateDelivery`, `NoOrphanConnection`, `DispatchersEnd` | 2 connections, in turn or overlapping, of 2 events; 1 catch-all handler, 1 token |
| `response_all` | `ExchangeTypeOK`, `SentinelsAreTruthful`, `NoSilentFailure`, `PanicsAreForeignBodies`, `RejectedTokenIsUnauthorized`, `SuccessMeansPerformed`, `EffectsHappenOnce`, `DoneIsReportedDone`, `ImplementsHandling`, `CancelledCallReturns` | all 143 operations over the wire, 15 status codes; any number of redirects and repetitions; clients that capture redirects or not, with and without an override; the service performs a call at most twice |
| `download_quota` | `TypeOK`, `OvershootIsBounded`, `SequentialUseFits`, `ImplementsCheck` | 2 downloaders (symmetric) with 2 calls each, sizes -1 to 2, limits 2, 3 and none, threshold 90, both limiters |

Why the bounds are enough. Timeout 5 is not a multiple of interval 2, so the
deadline falls between ticks, and the clock runs past it; with interval 3 and
timeout 12 the last tick falls on the deadline. A wait polls at most twice before
its deadline in the first and three times in the second, which is what it takes
to drop a tick, to poll on a piled-up one and to poll after an unsettled answer.
Settled states that a caller chose are covered by the proofs, which hold for every
set of them.
Two callers and two tokens give a call that overlaps two swaps, from no token, or a swap, a
clearing and a revocation, beside another call; redirect chains of two follow a redirect by a redirect. Three
events with two types let a handler register before, between and after events
that do and do not concern it. Two connections are what it takes to overwrite
`s.conn` and `s.eventChan` while the first dispatcher runs, and two events on each
let two dispatchers that share a channel take one apiece. Two dispatchers on one channel
may hand a handler its events out of order, and a channel without a dispatcher
delivers nothing; `ExactDelivery` therefore speaks of dispatchers that share no channel
(`Alone`), which is every one in `stream_once`, and in `stream_reconnect` those of a
stream that was reconnected after its dispatcher had begun to range.

The handling of a response depends on nothing but the operation, the status and the
payload, and the wire keeps no count of hops: redirect loops and repetitions are
cycles of the state graph, so `response_all` is exhaustive up to the choice of
statuses (all that the code and the specifications name, and two that neither does;
303 and 308 are treated like 302 and 307) and the bound of two performances,
which is what it takes to perform something twice.

In `download_quota` both limits of overshoot are attained: with the bound lowered by one
TLC finds it exceeded, for either limiter. Two downloaders with two calls each let one
admit on a quota that the other's first download has not been charged to, and
the plan change in between. Three downloaders were checked as well and
fit the same bounds; the proofs cover any number of them, any sizes, limits and threshold.

`NoOrphanConnection` is about applications that disconnect before they connect
again: the history variable `careless` records a `Connect` on a stream that is still
connected, after which the code does leak the first connection: that hazard is described
in `PROJECT.json` and excluded from the property.

`CHECK_DEADLOCK FALSE` is set where the system really stops: a wait that returned
with the clock at its bound, a stream with nothing left to do, a response handled.
`AuthClient` never stops, and deadlock is checked there.

### Where the code disagrees with its documentation

Each of these is a run that is expected to find a violation.

| Run | Property | What happens |
|---|---|---|
| `auth_login` | `LoginTokenIsReturned` | `Login` does not disable redirects: with the default options the client follows the 302 that carries the token and loses it. The regression test sets `WithDisableFollowRedirect`. |
| `auth_api_key` | `APIKeyIsPresented` | The client's editor overwrites the API key with the client's JWT. |
| `stream_token` | `ConnectCarriesCurrentToken` | The stream keeps the token it was created with; a `Connect` after `SetAuthToken`, the first or a later one, sends the old one. |
| `wait_deadline` | `DeadlineReportedAsTimeout` | A deadline inside a poll is not `ErrOperationTimeout`. |
| `response_webhook` | `WebhookProcessedIsReported` | `HandleWebhook` rejects the documented 204. |

Others are plain from one line of the code and have no run: a wait that its caller
cancels returns `ErrOperationTimeout` too (`account.go:1789`); the status `error`,
documented as settled (`account.go:1006`, 1767), is not in `DefaultSettledStates`;
`ListAPIKeys` and `DeleteAPIKey` compare the status themselves (`account.go:1566`, 1600), so
that a 401 is not the `ErrUnauthorized` of `account.go:114`; many 404 messages, `errAccountNotFound` for one, do not wrap
`ErrNotFound`; the message of a 403 is plain in the admin and meta services
(`admin/billing.go:20`, `meta/cid.go:30`), so that `errors.Is` does not find the
`ErrForbidden` that `admin/admin.go:22` speaks of; `ListUserConfigs` dereferences data it
has not tested (`admin/quota.go:539`); `GetSubscriber` loses `PausedAt` (`admin/billing.go:1124`).

## 4. Fairness

- `WaitForOperation`: weak fairness of the clock and of the calling goroutine's own
  steps (the Go scheduler runs it, and select returns when a case is ready). None
  for the service: it may never answer and the operation may never settle, and
  `AlwaysReturns` holds all the same, because a request is bound to the context.
- `EventStream`: weak fairness of each dispatching goroutine. This includes that
  handlers return, since the code calls them in that goroutine. The service owes no
  event, and the application no call; `DispatchersEnd` therefore allows a dispatcher to
  wait as long as the connection whose channel it ranges over is not closed, and no longer,
  whatever it was doing when that ended.
- `Exchange`: weak fairness of `Abort` (`http.Client.Do` and the reading of the body watch the
  context of the request, which the generated client binds to the caller's) and of
  `Handle` (code that waits for nothing). None for the service, the connection or the
  redirects: a call whose caller never gives up may hang or be redirected for ever,
  since `CheckRedirect` sets no limit and the HTTP client has no timeout.
- `AuthClient`, `DownloadQuota`, `ResponseHandling`: safety only.

## 5. Proofs

No proof assumes anything but the named assumptions on constants, which TLC evaluates.

### WaitForOperation

`WaitForOperationProofs.tla` proves, for every `Interval` in Nat \ {0}, `Timeout`, `Horizon`
and `SettledStates` (assumptions `TimingAssumption` and `SettledAssumption`), about
`SafeSpec == Init /\ [][Next]_vars`:

| Theorem | Statement |
|---|---|
| `TypeCorrect` | `SafeSpec => []TypeOK` |
| `Invariance` | `SafeSpec => []IInv`, the inductive invariant |
| `ReturnedOperationIsFinal` | `SafeSpec => []ResultIsFinal` |
| `ContextBlame` | `SafeSpec => []ContextBlamedOnlyWhenDone` |
| `Pacing` | `SafeSpec => []PollsArePaced` |
| `SettledAnswerIsLast` | `SafeSpec => NeverPollsPastSettled` |
| `Refinement` | `SafeSpec => Promise!SafeSpec` |

`IInv` is `TypeOK` and three parts that the properties are not inductive without.
`PaceInv` counts what has been `Used`, the requests sent with the tick in the channel
and the tick in hand (`pc = "calling"`), and pays for each with an interval:
`Used * Interval + Interval <= nextTick`, where `now < nextTick <= now + Interval`.
Without the tick in hand the step from `SelectTick` to `SendRequest` would break
`PollsArePaced`. `ReplyInv` says that the reply a call holds is a status the operation
had, that if it is a default settled state the operation is still in it (the
service never leaves those), and that a call that goes on polling holds no settled
one. `OutcomeInv` says that the outcome is set exactly when the call has returned,
a settled one from such a reply and one that blames the context under a done one.
The lemmas `IntervalsMonotone`, `OneMoreTick` and `NoMoreTicks` hold the arithmetic with
the unknown interval. `Refinement` maps each action to a step of `AwaitSettled` or a
stutter, with `IInv` for the step that returns a settled operation.

### PromptWait

`PromptWaitProofs.tla` proves `NothingIsMissed`: `PromptSpec => []NoSettledOperationMissed`,
for every interval and timeout, assuming `SettledStates \subseteq FinalStates`, the states
that the service does not leave. The condition is needed: with `processing` among the
settled states an operation can pass through it between two polls. `PromptSpec` implies
`SafeSpec`, so that the invariant of `WaitForOperation` holds too; `PromptInv` adds that a
waiting call has dealt with every tick before this moment, and one that is back in its
select with this moment's as well. `NoTickBetween` is the arithmetic: while the next tick is
ahead, there is no multiple of the interval to miss.

### AuthClient

`AuthClientProofs.tla` proves, for any set of callers, any number of tokens and hops and
either configuration of the client, about `Spec`:

| Theorem | Statement |
|---|---|
| `TypesCorrect` | `[]TypeOK` |
| `SeamlessRotation` | `[]RotationIsSeamless` |
| `StaleCredentialGone` | `[]NoStaleCredential` |
| `OTPCredential` | `[]OTPCarriesIntermediate` |
| `PlainCallsFollow` | `[]PlainCallsFollowRedirects` |
| `TokenOrFailure` | `[]NoTokenNoSuccess` |
| `IntermediateFlagged` | `[]IntermediateIsFlagged` |
| `OTPToken` | `[]OTPTokenIsReturned` |
| `UnfollowedLogin` | `[]UnfollowedLoginReturnsToken` |

`IInv` is the types, `TokenInv` (the token installed is the last one issued, and newer than any
revoked) and five facts of each call. `HeaderInv`: the token a request carries is at least as new
as the oldest it may carry (`since`), or no token was found; at the time of sending, an OTP's
request has its own. `RefusalInv`: a call that was answered 401 began no later than the last token
revoked, or found none, which is `RotationIsSeamless` before the call is done; a 401 means that
the token carried was revoked, and by `HeaderInv` it is no older than the call. `FlagInv`: what the
login endpoint itself answered has the flag with an intermediate token, and a redirect a final
one; what `Result` makes of status and flag then agrees with the token. `GrantInv`: where redirects
are captured, what the service granted is in the answer, since no hop follows. `OutcomeInv`: the
result is that of the answer, and a redirect is an answer only where redirects are captured. An action of a caller touches only
its own call (`OthersKeep`).

### EventStream

`EventStreamProofs.tla` proves, for any handlers, event types, and numbers of connections and
events, about `Spec`:

| Theorem | Statement |
|---|---|
| `TypeCorrect` | `[]TypeOK` |
| `DeliveredOnce` | `[]NoDuplicateDelivery` |
| `DeliveredExactly` | `[]ExactDelivery` |
| `OrphanFree` | `[]NoOrphanConnection` |

Two dispatchers may share a channel after a reconnection, so that an event is
delivered once because taking it off its channel is one step, and not because each
dispatcher has a channel of its own. `DeliveryInv` says so: what was delivered, or is held by
a dispatcher, has an index at most that of the last event taken (`TakenInv`, `EventInv`), so
that the next one is new; an event is held by one dispatcher only, and the handlers it has
still to call have not received it (`HeldInv`); and the handlers to call are distinct,
because each is registered once and in one place (`HandlerInv`). The types need
`EventInv` too: `s.eventChan` is set before a goroutine that reads it exists. `OrphanInv` is
the property, which is inductive.

Exact delivery speaks of the moments between two events only; `AloneInv` says what is true of
a dispatcher in the midst of one. For each installed handler (`Served`): what it has received
of the connection is in order, begins no earlier than its registration, and is each event
taken that it wants, but for the one that is being dispatched, and that one only while the
handler is still to be called or its event still to be looked up (`Pending`). The event held is the last one taken,
which is where being alone is needed: with a second dispatcher on the channel another event
may have been taken since. The property is an equality of two sets of indices, of which
one inclusion is that part and the other is `WantedInv` (no handler was, or is about to be, called
with an event it does not want). Three more parts carry these over the steps of others.
`RegistryInv`: a handler that is not registered has received nothing and nobody is
about to call it, and a registered one is found by the next look-up, or
is a catch-all that a later `OnMessage` has replaced. `ChannelInv`: a channel that no
dispatcher has taken is unread, so that a dispatcher that starts on it finds nothing missed; and
an event held is of the channel of its holder. That `NoHandler` is no handler (in
`HandlerAssumption`) is needed for a nil `messageHandler`.

### Response handling

`ResponseHandlingProofs.tla` proves, for every set of status codes, about `Spec` of
`ResponseHandling`:

| Theorem | Statement |
|---|---|
| `HandlingTypes` | `[]TypeOK` |
| `SentinelsTrue` | `[]SentinelsAreTruthful` |
| `RejectionsReported` | `[]RejectedTokenIsUnauthorized` |
| `SuccessHadAnswer` | `[]NoSilentFailure` |

These are facts about each row of the hand-written tables, and the proofs read every row: nothing
about the tables is assumed. A table is built from rows by `:>`, `Each`, `PlainAt` and `@@`, which
`OperationTables` defines itself so that a proof can expand them.
What makes a row right is a predicate of one entry: a message
wraps nothing or the sentinel of its status, and that of a 401 its sentinel
(`Truthful`); an operation accepts codes of 2xx only, but for the redirects of those that capture them, and
only three leave their data untested (`Sound`). A closure lemma
for each constructor says that the predicate holds of what it makes if it holds of its
parts, so that a service is one step (`MessagesTruthful`, `CallsSound`), and a row that
breaks the predicate breaks that step. `Maps` and `Lacks` say which entry a union of
tables has at a key, for the few rows that a property names (`SentinelEntries`). `ErrorFacts` is then what
`ErrorOf` makes of an operation and a code, by each of the three ways an error is made. The
invariant is short: `ResultInv` says that a result is that of the response there is, or one of a
call that had none, and with `ErrorFacts` it gives the theorems.

### Exchange

`ExchangeProofs.tla` proves, for every set of status codes and every `MaxPerformed`, about
`ExchangeSpec`:

| Theorem | Statement |
|---|---|
| `TypesCorrect` | `[]ExchangeTypeOK` |
| `HandlingImplemented` | `ImplementsHandling`, the specification of `ResponseHandling` |
| `SuccessPerformed` | `[]SuccessMeansPerformed` |
| `EffectsOnce` | `[]EffectsHappenOnce` |
| `PanicsNeedForeignBodies` | `[]PanicsAreForeignBodies` |
| `DoneReported` | `[]DoneIsReportedDone` |
| `SentinelsTrueOnWire` | `[]SentinelsAreTruthful` |
| `RejectionsReportedOnWire` | `[]RejectedTokenIsUnauthorized` |
| `FailuresShow` | `[]NoSilentFailure` |

The last three are what was proved of `ResponseHandling`, carried over by the refinement
`HandlingImplemented`: whatever redirects, repetitions and failures a call goes through, its
caller sees one response handled. The methods of the requests, the codes that are accepted and what each
operation needs are proved from the rows of the tables (`TableFacts`). Two facts about
them are assumed, and TLC evaluates them over all 143 rows: `WireAssumption`, that the
generated clients have a request of its own for every operation, and
`TablesAssumption`, that each success in `DocumentedSuccess` is accepted (but for `HandleWebhook`) and, where
data is needed, decoded, which only `DoneReported` and `PanicsNeedForeignBodies` use.
`DocumentedSuccess` leaves out the boilerplate 200 "Success" that the specifications list beside
another success code, a 204 or a 302, and that the code does not accept. An operation added to the tables keeps the theorems if
it keeps these and its rows keep the lemmas. The inductive invariant `IInv` is
the types and four parts. `FlowInv`: the response is that of the answer, which decodes, and the
result that of the response, a panic only where data is missing and untested. `PlaceInv`: a request is made by the operation's method or by GET, and
one that captures redirects is still where it was sent, at the operation's handler. `AnswerInv`: an answer is one that can
be given where the request is, and a success from the operation's handler is counted in
`performed`; with `FlowInv` and `PlaceInv` this is `SuccessMeansPerformed`. `EffectInv`: an
operation that writes has been performed at most once, and not at all while its request
may still be sent again by its own method (before it is answered, or on a 307 or 308, which
is a success of no operation that writes); without the last part following a 307 would break
`EffectsHappenOnce`. The step lemmas group the
actions by what they do to the wire (`ByWire`).

### DownloadQuota

`DownloadQuotaProofs.tla` proves, for every finite set of downloaders and every size, limit and
threshold within `QuotaAssumption`, about `Spec`:

| Theorem | Statement |
|---|---|
| `TypeCorrect` | `[](TypeOK /\ SizesFit)`: no download makes the usage negative |
| `LimiterIsACheck` | `ImplementsCheck`, the refinement of `AdmissionCheck` |
| `OvershootBounded` | `[]OvershootIsBounded` |
| `SequentialFits` | `[]SequentialUseFits` |

The bound on usage is not inductive, since an admitted download is charged later. The
invariant speaks of the downloaders that are `Committed`: downloading, or holding an answer
that will admit them. `Fits(H, u, sz, B)` says that the usage `u`, the size of some member
of `H` and `MaxSize` for each other stay within `B`; a reading that admits establishes it
whatever the others hold, for its own size fits the quota as it was read (`FitsWith`), and a
charge or an abandoned download keeps it (`FitsWithout`). `AloneInv` is the same with at most one downloader busy, and `PeakInv`
carries the bound over a change of plan. `AdmittedFits` is the arithmetic of the rounded
percentage: a percentage below the threshold means that usage is below the limit.

### Only model-checked

Liveness, which is out of the prover's reach: `AlwaysReturns`, the fairness part of
`ImplementsPromise`, `DispatchersEnd` and `CancelledCallReturns`. Every invariant and
action property of a passing run is a theorem.

## 6. Mutants

For each property of a passing run one definition has a mutated form beside it
under which TLC finds that property violated: a dropped guard, a zero value, a
token captured too early, a shared flag, a lost nil test, a skipped event. They are
listed in `PROJECT.json`.

## 7. Not modelled

- The encoding of requests (query and header parameters, bodies) and with it list options,
  pagination, filters and sorts: they decide nothing in the SDK; the serializers and what
  the service makes of the parameters are outside the repository.
- The conversions between generated and public types: responses are abstracted to whether
  they hold the data that the operation looks for. `GetSubscriber` losing `PausedAt`
  (`admin/billing.go:1124`) is therefore without a property.
- The construction of the admin and meta clients (the editor that sets their token or API key).
- Endpoints without a scheme, as the defaults are (`account.go:200`, `admin/admin.go:39`,
  `meta/meta.go:39`): the models assume that the URL of a request has a host.
- Which hops of a redirect chain keep the `Authorization` header: a rule of `net/http`
  (subdomains and other ports of the first host keep it), to which `CheckRedirect` adds nothing.
- A `Connect` that dials the connection of a concurrent `Connect`, which replaced `s.conn` between
  the two statements that use it (`account.go:703` and 708).
- The value of the `Host` header that the override sets; TLS.
- The panic of `time.NewTicker` for an interval of zero or less (an assumption on `Interval`).
- The contents of messages; sse-go's own reconnection and buffering.
- Thresholds that are not whole numbers: the percentage is a whole number, so that a
  threshold admits what the next whole number above it admits. Plans with a limit of zero, for which
  a percentage is not defined.
- Mocks, specifications and build files, which are inputs and outputs of generators;
  the specifications serve as the reference for `DocumentedSuccess`.

Hazards that stay without a property are listed in `PROJECT.json` with the reason.

## 8. Plan

Done, in the order of importance:

1. Polling: `AwaitSettled`, `WaitForOperation`, refinement, proofs.
2. Request pipeline: `AuthClient`.
3. Event stream: `EventStream`.
4. Response handling of the three clients: `AccountOperations`, `AdminOperations`,
   `ResponseHandling`.
5. Rate limiters: `AdmissionCheck`, `DownloadQuota`, refinement, proofs.
6. The exchange of every operation over HTTP with redirects, host override, failures and
   cancellation: `AccountWire`, `AdminWire`, `Exchange`, refinement, proofs.

7. Proofs of `AuthClient`, `EventStream` and `PromptWait`.
8. Proofs about the tables of operations and `ResponseHandling`, and of exact delivery.

Left: conversions of the subscribers and the construction of the admin and meta clients, if a
property is found that says more than the tables do.
