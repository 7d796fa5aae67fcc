# Sentinel in TLA+

A verification project for the Sentinel fraud platform (`src/`): TLA+ models of
its services, TLC runs over small instances, and TLAPS proofs for all instances.
`PROJECT.json` is the machine-readable index: components, runs, the source lines
behind every definition, the seeded faults, hazards, findings and theorems.

## 1. The system

| Part | State it keeps | Operations | Talks to |
| --- | --- | --- | --- |
| gateway (Go) | Redis ZSET per client IP, the JWT public key in memory | rate limit, verify, proxy, poll the key | Redis, auth-service, the services behind it |
| auth-service (Go) | `users` in PostgreSQL, sessions and families in Redis, the signing key file | register, login, refresh, logout | PostgreSQL, Redis, topic `auth.events` |
| risk-engine (Python) | rules in PostgreSQL with a memory cache, velocity ZSETs in Redis | consume `auth.events`, score, manage rules | PostgreSQL, Redis, topic `risk.decisions` |
| analytics-service (Go) | committed offsets in Kafka, rows in ClickHouse, a queue and a batch in memory, WebSocket clients | consume four topics, `/ingest`, batch, flush, stream | Kafka, ClickHouse, dashboards |
| alert-service (Go) | committed offset, deduplication and rate keys in Redis | consume `risk.decisions`, allow, post, dead-letter | Kafka, Redis, a webhook |
| dashboard (Next.js): session | the token pair in localStorage, shared by the tabs | gate, login page, fetch with refresh, sign out | gateway, auth-service |
| dashboard: live feed | one WebSocket, the list of events, the demo flag; shared by all pages through `LiveContext` | reconnect, poll, prepend, simulate | analytics-service |
| dashboard: pages | per page: rows, rollups, filter, modals; beyond a page: toasts, the shapes of the map | probe, fetch, alert, edit rules | gateway, risk-engine, the live feed |

What is hard: goroutines that hand work to one another through bounded channels
and are stopped in a given order; at-least-once delivery with crashes between the
external effect and the commit; check-then-act over PostgreSQL and Redis by
concurrent requests; retries of calls that may have taken effect; timeouts that
race the answer; in the dashboard, callbacks that close over an older render,
overlapping requests that end in any order, clean-ups that race timers, and tabs
that share storage. The hazards are listed, each at its line, in `PROJECT.json`.

What makes each part correct, in a sentence:

* write path - nothing is accepted, shown or committed unless it is stored or was
  explicitly given up; every request is answered; a stop always completes and
  never panics;
* live stream - a slow or dead client costs the others nothing, and is cleaned up;
* alerts - bounded posts per alert and alerts per user; no alert blocks the next;
  none is lost (which the code promises and does not keep, see `alert_loss`);
* accounts - exactly the bootstrap registrations become admin; the lockout bounds
  guesses although it is checked on stale rows;
* sessions - revocation and logout are final; reuse means reuse;
* rate limiter - a client gets no more than the limit through, whatever the order
  in which its requests reach Redis, and is refused for no other reason;
* rules - an engine at rest scores with the enabled rules, and a write it missed
  is made good by the next load; the page that manages them never waits for nothing;
* dashboard session - a sign-out is not undone, no page hangs on the gate;
* live feed - one stream, restored after every failure, a LIVE status that is backed
  by a socket, no row that is not stored or more often than it is, and in the end the
  rows the backend has;
* pages - overlapping probes and fetches end up with the truth, alerts are raised
  once, toasts go away, the map is complete and figures derived by different loops
  agree.

## 2. Modules

| Module | Models | Runs |
| --- | --- | --- |
| `AnalyticsIngest` | `batch/engine.go`, `kafka/consumer.go`, `handleIngest`, `main.go` of analytics-service | `ingest` |
| `DurableIngest` | the contract of the write path (abstract) | refined by `AnalyticsIngest` |
| `Hub` | `api/websocket.go` | `hub` |
| `AnalyticsProofs` | proofs about the three above | - |
| `AlertService`, `MCAlertService` | alert-service | `alert`, `alert_loss` |
| `AlertServiceProofs` | proofs about it | - |
| `AuthAccounts` | `RegisterUser`, the account half of `Login`, `user_postgres.go` | - |
| `AuthSessions` | the session half of `Login`, `Refresh`, `Logout`, `session_redis.go` | `refresh_reuse` |
| `AuthService` | the two behind one API | `auth` |
| `AuthProofs` | proofs about the three above | - |
| `RateLimiter` | `sliding_window.go` and the `RateLimit` middleware of the gateway | `limiter` |
| `RateLimiterProofs` | proofs about it | - |
| `RulesEngine` | `rules_engine.py`, `api/v1/rules.py`, `rules_repo.py` of risk-engine | - |
| `RuleScoring` | the rule evaluation of `POST /score`, over `RulesEngine` | `rule_hit` |
| `RulesConsole`, `MCRulesConsole` | the Rules page of the dashboard, composed with `RulesEngine` | `rules` |
| `DashboardSession` | `api.ts`, `fetchWithRefresh`, `AuthGate`, the login page, sign out | `session` |
| `DashboardSessionProofs` | proofs about it | - |
| `ListOps` | `Array.prototype.filter`, as `useAnalytics.ts` and `Toast.tsx` use it | - |
| `ListProofs` | induction over lists, and what `ListOps` computes | - |
| `LiveStream` | `useWebSocket.ts`, `useAnalytics.ts`, the simulation | `live` |
| `LiveStreamProofs` | proofs about it | - |
| `LiveValues` | what `LiveContext` and the services give to the pages | - |
| `SystemPage`, `ThreatsPage`, `Rollups`, `Figures`, `Toasts`, `WorldMap` | the System page, the Threats page, the rollups of the Analytics page, the derived figures, `Toast.tsx`, the map's data | - |
| `Pages`, `MCPages` | the shell that shows one page at a time, composing the six above | `pages` |
| `PagesProofs` | proofs about `Pages`, `RulesConsole` and `RulesEngine` | - |

Conventions. A variable is a variable of the program or a table, key or topic of
the service it talks to; variables marked *history* only record what happened, so
that properties can speak about it. An action is what one goroutine does up to
its next blocking or externally visible call; a request that stops between two
calls (a disconnected client, a failed statement, a crash) is an action too.
Operators introduced by `Seeded fault:` are not used by the models: each is a
plausible mistake in the definition that follows it, and `PROJECT.json` lists the
property that catches it.

### AnalyticsIngest

A message is the i-th record of a topic. `pc` is the control state of each
consumer goroutine (`loop`, `fetch`, `send`, `wait`, `commit`) and of each HTTP
handler; `eventChan`, `batch`, `attempt` and `err` are the engine's; `acked` and
`failed` stand for the per-event `done` channels (capacity 1, so the worker never
blocks on a caller that left). `main` follows `main()`: consumers run before the
HTTP server and the event handler exist (`boot`), the signal handler shuts the
server down (`drain`), the deferred calls stop the consumers one by one
(`consumers`) and then the engine (`engine`). `Crash` may happen at any step;
`log`, `committed` and `stored` survive. A failing insert may have stored any part
of the batch. `missed` holds what `StartOffset: LastOffset` jumps over, `skipped`
what the consumer moved past after an error; both are *given up* in the contract.
Not modelled: the fields of an event (geo extraction, normalisation), the pool of
slices, the duration of the timeouts (a timeout may strike whenever it is armed).
`handleIngest` passes Fiber's `UserContext`, which is never cancelled.

### Hub

One action per case of `Hub.Run`'s select, per blocking call of `WsHandler` and
of its writer. A frame is an event number or 0 for a ping. Peers stall, recover
and close at will; data written to a closed connection may vanish without error
or fail.

### AlertService

One goroutine walks `fetch - allow - validate - post/backoff - dlq - commit`. The
Lua script is one step because Redis runs it atomically; `RedisError` covers the
lost answer (the script ran) and the lost call. TTLs run out at any moment, except
that the 600 s deduplication key outlives the at most 65 s of posts of the
dispatch that set it. A record that the reader has buffered may still be handled
after the stop signal (`main` = "stopping"), while the calls it makes fail or are cut
short. `interrupted` remembers the alerts whose handling was broken off: by a Redis
error, a dead letter that could not be written, a stop or a crash. The records without a `decision_id` are committed
unprocessed (the log line announces the dead-letter topic, the code does not use
it).

### AuthAccounts, AuthSessions and AuthService

Every SQL statement and Redis command is a step of its own, since requests run
concurrently; `SessionRedis` uses `Pipeline`, which is not a transaction, so its
commands interleave with others. `locked` abstracts `locked_until` to null, in the
future or in the past. A refresh token is a session and a number, its hash that
number; `Marshal` is JSON encoding, which drops the field tagged `json:"-"`. The
family key's TTL is cut to whole seconds by `EXPIRE` while the session's is in
milliseconds: `fading` is the last second in which the session outlives its
family. `AuthService` puts the two behind one API. No request has a step in one store
depend on what others did in the other (the only statement that would, `GetByID` in
`Refresh`, comes after a hash has matched, and none does), so a behaviour follows the
requests of one half while the other rests: interleaving them would multiply states
and add none that a property tells apart.

### RateLimiter

The requests of one client, which share a Redis key (other clients have their
own). `Arrive` reads the clock; `Allow` is the MULTI/EXEC transaction with its
answer. In between, other requests and the clock move on, by at most `MaxDelay`,
which covers the retries of go-redis: `AnswerLost` is a transaction that ran and
is sent again, with the same member. `Unavailable` is the 503 on an error, after
any number of such attempts. A refused request stays in the sorted set, as in the
code, so a client that goes on sending at more than the limit stays refused. Left
out: how the client's address is found, and the rounding of the nanosecond score
to a float64 (some 256 ns).

### RulesEngine, RuleScoring and RulesConsole

The handlers of the rules API are coroutines, so another one may run at each
`await`: after the write, after the select, never while the cache is emptied and
filled (`LoopFree`). A worker thread that scores may look in between, which is what
`RuleScoring` adds. A row has the number of the write that made it, and the
compiled copy the version it was compiled from: that is all the properties tell
apart, expressions are left out. A statement may be committed although the handler
sees an error (`WriteLost`); it then answers 500 without a reload. `cacheAt` is the
write up to which the selection in the cache goes, so a load that replaces a newer
selection by an older one sets it back. `missed` is set by what makes the engine miss
a write (a failed load, a lost answer, such a replacement) and cleared by the next
load that includes every write: `EngineFresh` claims nothing in between, and nothing
less after it. Other clients of the API (`OtherRequest`) act beside the page.

`Answer` is the conversion of what a handler returns: the `id` column is a UUID,
`RuleResponse` has `id: str`, and pydantic does not turn the one into the other, so
every answer with a rule in it becomes a 500, after the write and the reload. For the
page that means: a save always fails, and the list is either empty or `DEMO_RULES`,
which it shows after an error and lets the user edit. In `RulesConsole` every request
of the page is one of `RulesEngine`; the answer, or the loss of it (`AnswerLost`),
runs the rest of the page's handler. `list` are the calls of `refresh`, which overlap.

### DashboardSession

Tabs run side by side over one localStorage; a handler stores the two tokens one
after the other and another tab may run in between (`pending`, `StoreRest`).
`Unload` is what a hard navigation does to the document it leaves. The gate
navigates at once and again after 3 s; the model lets the first navigation be
blocked and assumes that not both are. Of a token the client only looks at whether it
is there, so a token is none, the made-up one of demo mode or one that was issued.
The refresh endpoint is the client's environment: it may refuse, stay silent or issue
a pair at any time. The server as it is always refuses (`refresh_reuse`), which is one
of these behaviours; what holds for all of them holds today and after that is fixed.

### LiveStream

React is modelled by three steps: a handler changes state, `Render` fixes what
effects will see, `RunEffects` runs them with those values; two frames between two
renders leave one. The socket's URL contains the access token: a token that is
replaced replaces the socket, one that is removed makes the URL null and leaves none.
Sockets are named by their token. `OnClose` has no regard to which socket it belongs
to, as in the code. The backend inserts a batch first (`Insert`) and then hands its
events to the hub (`Broadcast`); an insert that is answered with an error may have
stored the batch, and a retry or a redelivery stores it again: the table keeps every
row it is given (`copies`), and `GetEvents` returns the newest rows without removing
duplicates (`IsNewest`). Events are numbered in the order of their timestamps; rows of
one event are listed in a fixed order, since which of two equal rows comes first is
not visible. Polls overlap and are answered from what is stored then. A poll of an
empty table is answered `null`; the next render throws, and React unmounts the
dashboard (`RefreshCrashes`).

### Pages

One page is mounted at a time; leaving it drops its state, while toasts, the
promise of the map's shapes and requests that nobody waits for go on. `LiveValues`
lets the list (with an event twice where the store has it twice), the stream, the
demo flag, the services and the emptiness of each rollup (`bare`) change at any
moment. The
rows of the System page are written by `RunEnds` with the live values its run
closed over. `GatewayRedis` and `Healthy` keep the types: the gateway answers a
boolean, the page compares with strings. A fetch of a rollup has four outcomes:
stored figures, none (an error status), simulated ones (no connection), or `null` when
the query found no row, which makes the page throw while it renders (`Crash`): there
is no error boundary, so nothing is shown any more. `Figures`
repeats, as the code does, one loop per chart; `FiguresAgree` relates them. The
table of origins on the Threats page is fetched like the rollups of the Analytics
page and is left out.

## 3. Runs

| Run | Instance | States | Shows |
| --- | --- | --- | --- |
| `ingest` | 1 topic with 2 records, 1 request, batch 2, channel 1, 2 attempts, 2 starts | 189,117 | the contract, no panic, answers, shutdown |
| `hub` | 2 clients, buffers of 1, 2 events | 20,556 | order, no stall, clean-up |
| `alert` | 2 alerts of one user, 2 posts, limit 1, 2 records, 2 starts | 371,445 | limits, deduplication, progress |
| `auth` | 2 emails, 2 handlers, limit 2, 6 requests; 2 sessions, 2 handlers, 5 requests | 871,650 | bootstrap, lockout, finality of revocation and logout |
| `limiter` | 4 requests, limit 2, window 3, delay 1, time 0 to 5 | 1,031,660 | the limit, and no refusal without cause |
| `live` | 2 events, 2 rows, 2 tokens, window 2, 2 overlapping polls, 1 lost connection, 1 tick | 359,638 | one stream, restored; rows backed by the table; the list settles |
| `session` | 2 tabs with a request each, 2 blocked navigations, 2 reloads | 122,107 | sign-out holds, the gate lets go |
| `rules` | 1 rule, 2 handlers, 3 requests, 2 loads of the list | 1,642,174 | a fresh engine, the page is released |
| `pages` | 2 events of one source, 2 services, 2 changes, 1 navigation, 2 overlapping probe runs and fetches | 828,134 | convergence, alerts, toasts, map, figures |

The type invariant of every module (`TypeOK`, and the parts `...TypeOK` of the
pages) holds under the same configurations; the runs list the properties that say
more.

The bounds let the interesting cases happen: a batch is full or flushed by the
ticker and the channel overflows with two senders; a record is delivered again
after a crash and also produced twice; a rate window fills and empties; two
handlers meet in every pair of program points, and six requests reach the lock,
exceed it and come back after it; with two clients one can stall while the other
is served; the window of 3 passes once and the key expires under a delayed
request within 5 time units. In `live` an event can come by frame, by an older and
by a newer poll, be stored twice and fill the window with its copies, and a socket
fails while its token is being replaced. In `session` two tabs refresh, sign in and
sign out across each other's two writes, and both navigations that lead in and out
can be blocked. In `rules` two requests suffice for two reloads that cross and the
third is the load that repairs; a modal is closed and opened again while the first
save runs. In `pages`, `Kept = 1` with two older toasts (`MaxOthers`) makes a new
toast push one out; one event is blocked
with a score of 100, the other challenged and without a place on the map;
`Links` follows the links between pages that share state (the two with a map, the
two that ask services); one rollup stands for the three, which do not interact;
two changes let a service fail and recover while two fetches and two probe runs
are in flight. The models only ever compare counters with their limits, so larger
limits add lengths, not cases; the proofs (section 4) remove the bounds for every
safety property of the passing runs. `CHECK_DEADLOCK FALSE` is set because the
environment is bounded: once the records, requests and starts are used up, a quiet
system is legitimate.

Three runs state what a document or a comment says and find the code doing otherwise
(`findings` in `PROJECT.json`):

* `alert_loss` - "Do not commit so we retry later if Redis fails (Ensure no data is
  lost)" and "to guarantee at-least-once processing" (`kafka.go`), "commit offsets only
  after durable processing" (`contracts/events.md`): a record whose Redis call failed
  is passed over, and the commit of the next one covers it. A crash between the
  deduplication key and the post, a stop during the backoff and a dead letter that
  cannot be written lose an alert as well; `NoSilentLoss` (section 4) shows that nothing else does;
* `refresh_reuse` - "reuse detection": no session has a stored hash, so the first
  refresh is answered as reuse and revokes the session;
* `rule_hit` - "Response includes the verdict, per-signal breakdown, triggered
  rules": a request that triggers a rule is answered 500, because `evaluate` runs
  in a worker thread and creates an asyncio task there.

`RevocationIsFinal` and `LogoutIsFinal` hold partly thanks to `refresh_reuse`: with
the hash stored (`Marshal(r) == r`), `Refresh` would write back an unrevoked
session it had read before a concurrent logout or revocation, and TLC finds all
three session properties violated. Fixing the tag needs a conditional write as
well.

### Divergences without a run

Found while modelling. The first three are stated as properties of their modules,
which TLC refutes when they are put in a configuration:

* `AnalyticsIngest!CommittedIsDurable` - "commit offsets only after durable
  processing" (`README.md`): a failed event is skipped and covered by the commit of
  the next;
* `AuthAccounts!SingleAdmin` - "Every later user is a standard 'user'"
  (`auth_service.go`): two first registrations race;
* `Hub!SlowIsDropped` - "A slow/stuck client gets dropped" (`websocket.go`): its
  writer returns, but it stays registered until the peer closes;
* rules API: `fraud_rules.id` is a UUID and `RuleResponse.id` a string
  (`schema.py:73`), so `GET /rules/` of a table with a rule, `POST` and `PUT` are
  answered 500, the last two after the change was made and loaded; the Rules page says
  that the save failed and shows demo rules;
* rules engine: two reloads that cross may leave the older selection in force, and a
  select that fails after the write, or a write whose answer is lost, leaves the old
  rules, until the next load (`missed` in `EngineFresh`); a scoring thread can see a
  cache that is only partly filled; `main.py:60` says "Will retry on first request",
  nothing does;
* live feed: `events` is a plain MergeTree, so an event that was stored twice (a retry
  or redelivery of a batch) is listed twice, with one React key, until a frame of the
  same event removes both; the page has no other place that deduplicates;
* live feed: the close event of a replaced socket that comes after the new one has
  opened sets the pill to OFFLINE (`useWebSocket.ts:38`), where it stays until the next
  reconnection, although the stream works; "fed by the real WebSocket state"
  (`TopBar.tsx:20`);
* an empty answer: `GetEvents`, `GetFraudRate`, `GetGeo` and `GetTopThreats` return a
  nil slice for no rows, which is `null` in JSON. The dashboard calls `events.filter`
  (`useAnalytics.ts:185`), `fraudRateSeries.length` and `geoData.slice`
  (`analytics/page.tsx:38`, `49`) on it and goes blank; the page's own placeholder for
  that case, "No country data - run make seed-analytics" (`analytics/page.tsx:181`), is
  shown only after an error status;
* session: parallel 401s in one page or two tabs present the same refresh token, which
  the server is meant to treat as reuse; a refresh that ends after Sign out stores its
  pair again; the server is never told of a sign-out; demo mode in one tab
  overwrites the real pair of another;
* Rules page: demo rules are called read-only (`api.ts:195`) but can be edited and
  deleted; a second click on Delete rule shows "Delete failed"; a stale answer may
  overwrite a newer list;
* System page: the gateway's health is a JSON boolean and is compared with strings
  (`page.tsx:45`), so with a real backend its card is never green;
* Analytics page: after a network error with a real backend the simulated rollups
  are shown under "24-hour ClickHouse rollups" until the next fetch;
* demo mode: the backfill is listed oldest first (`demo.ts:162`) while ticks are
  put in front;
* shell: the boot overlay restarts whenever the shell renders, because its
  `onDone` is a new function each time; nine lines at 160 ms take longer than the
  1.4 s between two ticks of the simulation. Hiding and showing the window while a
  frame is due starts a second animation loop.

### Fairness

`AnalyticsIngest`: the worker, the consumers, `main()` and the answers are weakly
fair (goroutines that can run do run, tickers tick, Kafka and ClickHouse calls
return). `Send` is strongly fair: Go queues blocked senders of a channel first in,
first out, so a sender is not overtaken for ever. Nothing is assumed of signals,
crashes, timeouts, producers or clients, so liveness does not rest on a 30 s
timeout expiring.
`Hub`: weak fairness of each goroutine and of each ready case of the select (Go
chooses among ready cases at random); strong fairness of `WriteFails`, because
TCP reports a dead peer sooner or later although single writes may succeed before.
`AlertService`: the goroutine runs (every call it makes has a timeout), and the
orchestrator restarts the service.
`LiveStream`: the browser runs callbacks and timers and React renders (weak
fairness of each); a connection attempt that does not fail is answered, not every
poll fails, and a frame that was sent arrives. Nothing is assumed of the hub or of the
inserts. `DashboardSession`: a tab runs its handlers and timers, a navigation
that is not blocked loads. `Pages`: effects and intervals run, requests end,
and a render with `null` throws.
Nothing is assumed of the user, of failures, or of services recovering: the
convergence properties say what holds once they are left alone. The auth modules,
the rules and the rate limiter state safety only.

## 4. Proofs

Every invariant, every action property and the refinement that a passing run checks
is also a theorem. Modules that share a proof module name their specification apart
(`Spec` and `HubSpec`, `SessionSpec`, `PagesSpec`).

`AnalyticsProofs`, first part: `AnalyticsIngest`, for any topics, requests, batch size, capacity, attempts
and number of restarts:

* `TypeCorrect`, `NoPanic`: `Spec => []TypeOK`, `[]NoSendOnClosedChannel`;
* `Implements`: `Spec => ImplementsDurableIngest`, the refinement.

The inductive invariant adds to the types: `PhaseInv` (who may still be inside
AddEvent in each phase of `main()`; `NoSendOnClosedChannel` alone says nothing
about the phases before the close), `BatchInv` (a flush has an event), `WorkerInv`
(a batch about to be answered nil is stored; an exited worker left nothing),
`DurableInv` (every success reported is backed by a row) and `OffsetInv` (all
records up to the fetch position are settled, except the one in hand; this is what
makes a commit legitimate). Assumptions: `CallersAssumption` (topics and requests
are different things), `BoundsAssumption`.

`AlertServiceProofs`, for any alerts, users, records, retries, limit and number of
restarts: `BoundedPosts` (`PostsBounded`), `BackedDedup` (`DedupBacked`), and three that
no run lists: `NoSilentLoss` (`CommittedAccounted`: behind the committed offset only
those alerts are lost whose own handling was broken off (`interrupted`) - the
extent of what `alert_loss` finds), `BoundedFiring` (`FiredBounded`) and
`CommitsForward`: the committed offset never moves back, whatever is redelivered.
`PositionInv` orders the offsets, `PostsInv` ties the posts of the alert in hand to the
tries of its dispatch and says that its key lives until the last of them, and
`PassedInv` extends `CommittedAccounted` from the committed records to all that were
passed: every one has met an end, except the one in hand. Assumptions:
`InvalidAssumption`, `UserAssumption`, `LimitAssumption`.

`AuthProofs`, first part: `AuthAccounts`, for any accounts, finitely many concurrent
requests and any limit: `TypeCorrect`, `Bootstrap` (`AdminExists`),
`NoSecondBootstrap` (`LatecomersAreUsers`), `LockSet` (`LockedAtLimit`), `LockoutWorks` (`GuessesBounded`). `BootstrapInv`
records what a registration may rely on between `Count` and `Create`: one that
holds "user" counted somebody. `LockInv` relates counter, lock and guesses of a
row. `FlightInv` counts the wrong passwords together with the logins that passed
the lock check already; the bound is inductive only with those included.
Assumptions: `FiniteAssumption`, `LimitAssumption`.

`RateLimiterProofs`, for any finite set of requests, limit, window and delay
shorter than the window, and any time span: `TypeCorrect`, `LimitHolds` (`WindowBound`),
`RefusalJustified` (`RefusedForCause`). `ClockInv` bounds the age of a pending
request, `MemberInv` says that a request that passed stays in the set until a
window has gone by and that the key outlives its members, and `WindowInv` is the
bound for windows that begin at any time, not only at a request. The window must be
shortened by the delay: with the full window TLC finds limit + 1 requests, the
first evicted by one with a later timestamp before the last, delayed one is
counted. Assumptions: `RequestsAssumption`, `TimeAssumption`.

`AnalyticsProofs`, second part: `Hub`, for any clients, capacities and number of
events: `StreamInOrder` (`InOrder`). `LifeInv` says that a client registers
once and that its channel is closed when its handler is done. `InOrder` says nothing
about the frames that are still under way; `PipelineInv` does: the Broadcast channel,
the send channel of a client and what its peer has received are each in order, and
everything in one is before everything in the next, pings excepted. The lemmas
`AppendOrder` and `TailOrder` say what the two channel operations do to that order.
Assumption: `CapacityAssumption`.

`AuthProofs`, second part: `AuthSessions`, for any sessions, handlers and number of
requests: `RevocationReaches` (`UsableIsListed`), `RevocationHolds` (`RevocationIsFinal`),
`LogoutHolds` (`LogoutIsFinal`). The three are inductive only together with
`CreatorInv` (the login that creates a session is the only request about it until it
has answered) and `DeleteOrder` (the family key is deleted after its session). The
proof shows what they rest on: `HashInv`, that no stored session has the hash of a
token. Were the hash stored, a refresh could write back a session that a logout had
revoked meanwhile. Assumption: `BoundAssumption`. `Composition` (`AuthSpec => Spec /\
SessionSpec`) carries all of this over to `AuthService`.

`DashboardSessionProofs`, for any tabs, requests and bounds: `TypeCorrect`,
`SignOutIsKept` (`SignOutHolds`): of all steps that start in a browser without tokens
and without a refresh under way, only those of the login page lead to one with a token;
the types are all it needs of the past. Assumption: `BoundsAssumption`.

`LiveStreamProofs`, for any number of tokens, events, ticks and failures:
`SingleStream` (`OneStream`), `BackedStatus` (`StatusBacked`), `ListBacked`
(`RowsBacked`). `OrderInv` says that effects follow renders and renders follow the
stored token, so that a new socket never takes the place of one whose close event is
still to come; `TimerInv` that a timer runs only while its effect has no socket. The
rows have an invariant of their own, `ListInv`: whatever is due at the hub, on the
wire, in the state of a hook or in the answer of a poll is stored, the rows of the list
and of every answer are distinct, and a simulated one is numbered at most `Backfill +
ticks`. The last part is what a tick rests on, which puts its row in front without
looking for an older copy; a frame does look (`Without`), and a poll replaces the
list. Assumptions: `BoundsAssumption`, `WindowAssumption`.

`ListProofs` holds the induction that the loops need. The library's induction theorems
take a predicate as a parameter, which the provers here cannot instantiate; `Induction`
and `BoundedInduction` take a set, and follow from the least element of a set of
numbers. A recursive function is shown to exist by exhibiting a run of its loop
(`LoopRuns`), and `WithoutFacts` says what the filter returns: the other entries, once
each if they were distinct, and no more of them. `SelectSeq` is opaque to the provers,
so the filter is written as a recursive function (`ListOps`).

`PagesProofs`, first part: `RulesConsole`, for any rules, requests and loads:
`FreshAtRest` (`EngineFresh`), `Released` (`PageReleased`). `RequestInv` orders the
numbers of writes and selections, `FillInv` says that one request at a time fills the
cache and with what it selected, `CurrentInv` that a selection or a full cache that
includes all writes has the enabled rules, and `FreshInv` that, unless a write was
missed, all writes are in the cache or some request is on its way to load them;
`ListReleased` and `ModalReleased` are the two halves of `PageReleased`. Assumption:
`OpsAssumption` (there is a rule).

`PagesProofs`, second part: `Pages`, for any events, lists, visits, services, filters
and toasts: `LandReturns` (`MapRetries`), `OneToastPerEvent` (`AlertedOnce`),
`ToastsLeave` (`NoStickyToast`), `NoSourceLeftOut` (`MapComplete`), `FiguresMatch`
(`FiguresAgree`). `MapInv` says that the shapes are cached exactly when the promise has
settled; `AlertInv` that the toasts of a visit and `alertedRef` go together, and that
what the effect last ran with is in it; `ToastInv` that every toast shown has a timer
and a number that is handed out once. The other two are about what is computed from
the list. The markers: `Marked` is the invariant of the loop (the sources seen are
those of the events so far, with one marker each), carried over its turns by
`BoundedInduction`. The figures: each chart sums over its own classes, and `Fibres` shows by
induction over the set (`SubsetInduction`, `TotalByParts`) that the sizes of the classes
of any function add up to the whole, so that two charts over one list agree.
Assumptions: `ValuesAssumption`, `FiguresAssumption`, `ToastsAssumption`,
`ThreatsAssumption`.

Only model-checked: the liveness properties (`RequestsAnswered`,
`ShutdownCompletes`, `NeverStalls`, `GoneIsRemoved`, `NoHeadOfLineBlocking`,
`ListSettles`, `StreamRestored`, `NeverSpins`, `HealthConverges`,
`RollupsConverge`), which need fairness and are out of the prover's reach, the type
invariants of the modules without a theorem about them, and the three properties of the
violation runs, which do not hold.

## 5. Not modelled

The aggregations of the read API, metrics, configuration, training, feature arithmetic and
the LightGBM model; cryptography (a token is valid or not); password strength; the
published audit events (fire-and-forget, errors logged). `UpdateLastUsed` has no
caller. Of the dashboard: how things look (cards, gauges, charts, skeletons,
projection and animation of the map, the ambient canvas), the command palette, the
notification bell and the boot overlay, whose state is local and read by nobody
else, and the Command Center and Transactions pages, which only render the values
that `LiveStream` and `Figures` model. The gateway does not build at this commit
(`atomic.StoreString` in `internal/middleware/auth.go` does not exist), so its key
poller is left for when it does.

## 6. Plan

1. Proofs: type correctness of the remaining modules; the divergences as theorems
   about the code as it is (no refresh succeeds, a triggered rule is never answered
   200); the stable facts that the liveness arguments use.
2. `KeyPoller`: start-up fetch, polling, rotation and restart of auth-service with
   its key file; the key in use is never lost and eventually the current one.
3. `FeatureConsumer` and the rest of scoring: velocity counting under redelivery,
   commit of a failed event by its successor, background tasks and shutdown.
4. `DashboardSession` composed with `AuthSessions`, once a refresh can succeed: that
   the stored refresh token is the one the server accepts next.
5. The saves and lists of the Rules page that succeed, once `RuleResponse` converts its
   `id`.
