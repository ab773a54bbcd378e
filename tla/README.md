# SentinelX in TLA+

A verification project for SentinelX, the multi-tenant SIEM of this repository:
TLA+ modules of its ingestion service, TLC configurations that check them on small
instances, and TLAPS proofs of the results that matter most for every value of the
constants. Paths below are relative to the repository; `IS/` stands for
`ingestion-service/internal/`.

## 1. The system

| Component | Code | State | Operations |
|---|---|---|---|
| Log agent | `log-agent/` | position in two log files | tail, parse, send over HTTP **and** to Kafka |
| HTTP ingestion | `IS/handler/log_handler.go`, `IS/validator` | none | `IngestLog`: decode, validate, block on the channel, answer 202 |
| Kafka consumer | `IS/kafka/consumer.go` | group offset, message in hand | `ReadMessage`, decode, block on the channel |
| Channel | `IS/queue/log_queue.go` | 1000 events | send, receive |
| Workers | `IS/service/worker.go`, `IS/repository/log_repository.go` | a batch each | collect, flush when full or every 2 s: one transaction, then detection |
| Detectors | `IS/detection/bruteforce.go`, `scan_detector.go` | one map each | count attempts per source, raise an alert |
| Alert service | `IS/service/alert_service.go`, `IS/detection/alert_suppressor.go`, `IS/repository/alert_repository.go` | suppression map, table `alerts` | suppress or store, broadcast, notify |
| WebSocket hub | `IS/websocket/hub.go` | clients, batch | register, remove, broadcast, flush every second |
| Rate limiter | `IS/middleware/rate_limiter.go` | one entry per `RemoteAddr` | admit or answer 429 |
| Queries | `IS/repository/analytics_repository.go`, handlers, `auth.go` | none | read the tables |
| Dashboard | `frontend/src/App.jsx` | alerts, analytics, tenant, socket | fetch, receive, switch tenant |
| Start-up, metrics | `cmd/server/main.go`, `IS/db`, `IS/metrics` | schema, counters | run once |

How they interact. The agent submits an event to two entry points, which block on
one channel. Three workers drain it. A worker inserts its batch and then, in the
same goroutine, runs both detectors on every event, and for each alert runs the
whole of `CreateAlert`: the suppression map (a mutex), an `INSERT`, the hub's batch
(another mutex) and a goroutine that posts to Slack. The hub's goroutine writes the
batch to all dashboards. A dashboard gets alerts in two ways that know nothing of each
other, the list it loads over HTTP and the socket. Nothing connects the stages but memory: the offset is
committed on the way in, and neither the channel, the batches, the detectors'
counts, the suppression windows nor the hub's batch survive a restart.

What makes it hard: three workers and any number of handlers share the channel and
four maps; the offset is committed before the event is safe; one transaction holds
up to 500 events of different senders; an insert error does not stop the batch;
answers of the database may be lost; the two parties that may remove a WebSocket
connection run concurrently, and one of them holds a lock across network writes;
three different notions of a "one minute window" (pause, fixed window, sliding) with
their boundaries; a client that times out while the handler goes on with its request;
a page whose callbacks hold the key, the selection and the socket of the render that
made them. `PROJECT.json` lists these hazards at their lines, with the
properties that watch them.

What makes each component correct:

- *pipeline*: an event is in one place, is stored and analysed at most once, and is
  lost only to a failed transaction, a crash or an offset committed past it;
- *detectors*: an alert rests on enough attempts of its source, or of sources that share
  its key, and enough attempts under a key raise one;
- *alert service*: alerts of a key are a window apart, a suppressed alert has a
  cause, nothing is shown that is not stored, and what is let through and stored is shown;
- *hub*: every connection sees an unbroken run of the alerts and loses none of those
  broadcast since it joined; who leaves is forgotten and counted down once;
- *rate limiter*: a bound on every minute, and no refusal without a cause;
- *agent*: a line is lost only if both ways failed, each way keeps the order of the
  lines unless a request was given up, and a dead service holds nothing up;
- *dashboard*: nothing is listed twice, what is listed belongs to the selected tenant
  and what is missing has a reason; indicators, toasts and console end as they should,
  and what the user selected stays selected.

## 2. Modules

| Module | Models | Extended by |
|---|---|---|
| `LogDelivery` | abstract: an event is offered, taken, and stored or lost for good | instantiated by `LogPipeline` |
| `LogPipeline` | both ways in, channel, workers, transactions, offsets, crashes | `MCLogPipeline`, `LogPipelineProofs` |
| `Detection` | `DetectBruteForce`, `DetectWebScan` | `MCDetection`, `DetectionProofs` |
| `AlertService` | `CreateAlert`, `ShouldSuppressAlert`, the insert | `MCAlertService`, `AlertServiceProofs` |
| `AlertFeed` | abstract: a connection joins at a mark and is handed the alerts after it, in order, until it leaves | instantiated by `Hub` |
| `Hub` | the WebSocket hub | `HubProofs` |
| `RateLimiter` | `RateLimit` | `MCRateLimiter`, `RateLimiterProofs` |
| `Agent` | both goroutines of the agent, its two senders and the service's side of a request | `MCAgent`, `AgentProofs` |
| `Dashboard` | the data of `App.jsx`: loads, sockets, tenants and the rows they leave | `MCDashboard`, `DashboardProofs` |
| `DashboardView` | the page of `App.jsx`: the order of rows, the user's clicks, toasts, console | `MCDashboardView`, `DashboardViewProofs` |

Each module also holds a few *plausible mistakes*: operators that no `Next` uses and
that stand for a bug someone could write in that place. Replacing the action named in
`PROJECT.json` by one of them must make TLC find its property violated.

### LogPipeline

An event is one submission; its content matters only through the sets `Invalid`
(refused with 400), `Undecodable` (a message that is not JSON) and `Unstorable` (a row
the database refuses, say a text longer than its column).

| Variable | Code |
|---|---|
| `request[e]` | where the goroutine of `IngestLog` is |
| `committed`, `position`, `held` | the group's offset, the reader's position, `event` in `StartConsumer` |
| `queue` | `queue.LogQueue` |
| `pc[w]`, `batch[w]` | the goroutine `worker` and its `batch` (in the detection loop: what is left of it) |
| `logs[e]`, `analysed[e]` | rows of table `logs`; runs of the detectors |
| `processed` | `metrics.EventsProcessed` |
| `mishaps[e]` | history only: what went wrong with the event |

The insert is one step with three outcomes: committed, failed, and committed with a
lost answer, which the worker cannot tell from a failure. A flush on a tick
of an empty batch changes nothing and is left out. `ReadMessage` of kafka-go commits
before it returns (the reader has a `GroupID` and no `CommitInterval`); a commit that
fails makes it return an error and drop the message (`CommitFails`), a later commit passes over
that message, and a new generation of the group starts at the committed offset
(`Rejoin`). That part is modelled from how `consumer.go` uses the library. The topic
has one partition: several of them would be several independent sequences that one consumer
reads one after the other.

### Detection

A text is the sequence of its parts between colons, so that the key
`TenantID + ":" + ip` is a concatenation and `fe80::1` has three parts. Nothing is
assumed of tenant names, as `log_validator.go:11` only asks that they are not empty and the consumer
asks nothing: tenant `acme:fe80` with address `1::2` and tenant `acme` with address
`fe80:1::2` share an entry. The histories are therefore kept for each key: `seen` has
every counted attempt with its source and time, and `alerted` those of them that raised an
alert, which names the source of that attempt. `AlertJustified` says what
an alert rests on, and that the attempts were made by sources that may share an entry
(`MayShare`: the same source, or tenant names of which one continues the other after a
colon); `AttackNoticed` says that sharing does not hide an attack.

The clock is `time.Now()` at analysis, in abstract units, and is read once in a step. The
two detectors are written as they are: one returns from the reset with a count of one,
the other resets to zero and falls through.

### AlertService

`state[a]` is where an alert is in `CreateAlert`; at most `Workers` of them are in it at
once, since a worker handles one at a time. `Ask` is `ShouldSuppressAlert`, one critical section. The insert again has three
outcomes. A crash empties the map and abandons the alerts in progress. The Slack post
is a goroutine that only logs its errors: its start is the last step.

### Hub

`h.mutex` is held across several steps by `flushBatch` alone, while it writes
(`phase = "writing"`); registration and removal are single steps that need it free.
`batchMutex` only guards single assignments. The loop writes to one client at a time
(`client`), in any order. A write to a peer that stopped reading does not return,
as no deadline is set; a write to a peer that just closed may succeed or fail. The handler's gauge
updates are steps of their own, outside the mutex, as in the code. When a write fails
the connection is closed and its reader gets an error, too: `link[c]` is `"closed"` in
both cases.

`AlertFeed` is what is left of it for a dashboard. `Mark(c)` maps the one to the other: the
last alert that client `c` must have been written, which the swap of the batch, the lock and
the unlock do not move; a write moves it to the end of the batch that was sent.

### RateLimiter

One step per request, as the whole decision is under `mu`. `admitted` and `refused`
record the times of the outcomes.

### Agent

| Variable | Code |
|---|---|
| `size[f]`, `pos[f]` | lines in the file; lines taken from `t.Lines` |
| `phase[f]` | where the goroutine of `f` is: at the channel of lines, before or in `client.Do`, in `ProduceLog` |
| `answer[f]` | what has become of the request it waits for |
| `tries[f]` | attempts of `WriteMessages` so far |
| `late` | requests that the agent gave up and the service still has: their handlers wait in `EnqueueLog` |
| `boot`, `arrived`, `failed` | history: starts of the agent, what reached the channel and the topic, sends that failed |

`monitorAuthLogs` and `monitorNginxLogs` are the same loop over different files; a
parser is the set of lines it accepts. `SendLog` gives up after five seconds
(`GiveUp`); `IngestLog` does not look at the request's context, so it
puts the event into the channel when there is room (`LateEnqueued`) unless the
connection or the service breaks first (`LateLost`). `failed` has a send that was given
up even if it is taken later, as the agent cannot know. The Kafka writer is modelled from
how `producer.go` configures it: no `RequiredAcks`, so that a message may be lost
without an error, and attempts that return an error are repeated, so that a message may
be written twice. `failed` has the attempts that did not write, reported or not. `TailFile` is given no `Location`: a restart
begins with the first line of each file. Two files share nothing in the model; in the code they
share the writer, whose batches may hold messages of both.

### Dashboard

| Variable | Code |
|---|---|
| `apiKey`, `loading`, `connected` | the states of the same names |
| `rows[a]` | how often `alerts` lists `a` |
| `calls[c]` | a call of `fetchData`: the request it waits for, the key in its closure, what the service had stored when it asked |
| `link`, `linkKey` | the socket of the last run of the effect and the key in the closure of its `onmessage` |
| `hub`, `joined`, `got` | the service's side of it: whether the hub knows the connection, from which alert on, how far it has sent |
| `closing` | sockets of earlier runs whose `onclose` is still to come |
| `stored`, `loaded` | the table `alerts`; history: what the list loaded last was made of |

One callback is one step; between two `await`s anything may happen. An alert is numbered when it
is broadcast, as that is the order of the socket; its `INSERT` comes before that, and three
workers may do both in different orders, so `stored` is any set that holds all of
`1..got`. The page compares `tenant_id` with a table of two keys; a third key of the
settings tab is unknown to the service, whose answers are 401 (`AlertsRefused`). `Mount` has both
builds: production runs the effect once, development (`StrictMode`) twice. The hub is
reduced to what `AlertFeed` promises: a connection gets an unbroken run of the alerts, and
one made later starts beyond what any earlier one was written (`Register` leaves `got`
where it is or moves it up).

### DashboardView

Each field of `App` that the user sees or sets is a variable (`tab`, `drawer`,
`selected`, `severity`, `search`, `tenant`, `form`, `toast`, `timers`, `logs`), each button, row
and field an action, with its conditions of being on the page: rows of the feed are
the first four, rows of the table those that pass the filters, the dossier is that of the
selected attacker if it is listed. Answers and messages arrive at any time and may be
older than the last: more than `Dashboard` allows, so that what holds here
holds there. `blind` counts the calls of `fetchData` that began while nothing was
selected, whose closure will select the first attacker. A console entry is the number of
entries made after it; `Logged(s, n)` is what `n` calls of `addLog` at once leave of the console, in
closed form. The list is ordered by `created_at`, which is taken for
the order of the inserts: `NewestFirst(S)` and `InOrder(S)` are the sequences of a set of alerts in
that order and in the order of a message. The keyboard can reach what lies below the open drawer, so an
open drawer does not disable the rest of the page. The button that `loading` disables
is left enabled here; that is the business of `Dashboard`.

## 3. Runs

| Run | Question | Bounds and why they are enough |
|---|---|---|
| `pipeline_safety` | safety of the pipeline under all faults, and that it implements `LogDelivery` | 2 workers, 3 requests (one invalid, one unstorable), 3 messages (one undecodable), channel and batch of 2: two batches in flight at once, full and partial, a full channel, every fault at every point. No counter needs a bound |
| `pipeline_liveness` | while transactions fail as they like, nobody waits for ever, every event taken is analysed and decided (the abstract specification with its liveness) | channel of 1, so that senders do block; batch of 2, so that a batch may stay half-full |
| `detection` | alerts are justified and attacks noticed, in both detectors | threshold 3, window 1, time for several windows, 5 attempts in all: an alert, its reset and attempts after it, or attempts of two sources in between; time 2, so that attempts are at, below and beyond the window apart. Tenants `acme` and `acme:fe80`, addresses `fe80:1::2`, `1::2` and none: six sources, two of which share a key |
| `alert` | spacing, causes, shown is stored, what is let through is shown | 2 workers, 3 alerts of one key (alerts of different keys share nothing; the theorems have any number), window 2, time 4, one restart |
| `alert_duplicate` *(violated)* | suppression of duplicates only | failing inserts, no restart |
| `hub` | order, completeness, removal, gauge; that it implements `AlertFeed`; delivery and cleaning up as long as no stall lasts | 2 connections, 2 alerts: batches of 1 and 2, an alert broadcast while the one before is written, a connection that joins, closes or stalls at every point of it |
| `hub_stalled` *(violated)* | "<1000ms alert latency" | 2 connections, 1 alert |
| `rate_limit` | any minute is bounded, refusals are deserved | limit 2, window 1, time for three windows, one request more than the limit in each |
| `agent` | what becomes of each line, in which order lines arrive, and that each is tried | one file (two share nothing; checked once with two of one line each), an event, a line that is none and an event, two attempts of the writer, one restart: a late request may be overtaken by the next line and by the next start |
| `dashboard` | rows, tenants, reasons for what is missing, the live indicator, loading | three keys (one unknown to the service), 2 alerts of different tenants, 2 loads at once, a socket and one that is closing, failing requests and sockets |
| `dashboard_tenant` *(violated)* | "Segments data by tenant_id" | two keys, nothing fails |
| `dashboard_view` | order of rows, selection, toasts, console | 2 alerts of two addresses, feed, leaderboard and console cut to 1 (2 entries), 2 calls that began with nothing selected: every cut takes effect; one value for each field of the form, whose changes only make toasts, and for each filter, which only decide what can be opened (checked once with a severity, at twice the states) |

`CHECK_DEADLOCK FALSE` in all but `dashboard_view`: each instance has a bounded supply of
events, alerts, lines or time, and stops when it is used up. The user of the page always has
something to click.

*Fairness.* The Go scheduler keeps every runnable goroutine running: weak fairness of
each step of handlers, consumer, workers and hub. The select of a worker picks at
random among ready cases, and the ticker's channel keeps one tick, so a flush on a
tick cannot be passed over for ever: weak fairness of `Receive` and `FlushOnTick` each
(a worker that keeps receiving flushes by size anyway). A transaction is assumed to end, one way or another; the
outcome is not. In the hub, a write gets through to a peer that reads again and again (strong
fairness); nothing is assumed of a peer, and the two liveness properties say of themselves that no stall
lasts for ever (`StallsEnd`), though there may always be another. The agent's goroutines keep running, `client.Do` returns
after its timeout and `WriteMessages` after its attempts: weak fairness of `Monitor(f)`,
and nothing of the service. In the dashboard every request is answered or fails (browsers
give up on a silent server) and the socket's events are handled; nothing is assumed of the
user, of new alerts, or that a connection lasts. No fairness is assumed of faults,
crashes, clients or the clock.

## 4. Proofs

All theorems are of the form `Spec => []P`, `Spec => [][A]_vars` or `Spec => Abstract!Spec`, and hold for every value of the constants
that satisfies the named `ASSUME`s: any number of workers and events, any capacity,
batch size, threshold, window and limit. TLC has found `P` (and the invariants that the proofs rest on) true
on the small instances first.

- `LogPipelineProofs`, first part: `TypeCorrect`, `EventInOnePlace`, `DeliveredAtMostOnce`.
  `AtMostOnce` is not inductive: a step that stores a batch needs to know that none of
  it was stored before. `OnePlace` says so: pending events are nowhere else, what is in
  hand is not in the channel, what is in the channel is in no batch, batches are
  disjoint and repeat nothing, and none of these events has been stored or analysed before
  its turn. `IInv == Typing /\ OnePlace /\ AtMostOnce` is inductive, one lemma per
  action.
- `LogPipelineProofs`, second part: `PipelineImplementsDelivery`, `NothingIsLostSilently`,
  `StoredAndAnalysedTogether`. `EveryMove` says what one step of the pipeline may do with one
  event: leave it, let it enter, try its insert, analyse it, pass its offset over, lose
  it in a crash or abort its request. `Account` says what an event's stage tells of the
  table, the detectors and its mishaps: one that waits for its insert has had no mishap,
  one in a detection loop is stored or was in a failed transaction. Each move keeps the account and
  is a move of the event's fate, which is the refinement. `CountedStep` adds that a batch that
  commits brings as many new rows as it has events.
- `DetectionProofs`: `DetectionTyped`, `EntriesTellTheTruth`, `AlertsAreJustified`,
  `AttacksAreNoticed`. The invariant is `EntryMeaning`: the count of an entry is the
  length of the last stretch of attempts under the key without a pause and without an alert,
  and a longer stretch does not exist. Both detectors are shown to be the same step on this meaning.
  Whose attempts they are is a second part (`Under`: each is filed under the
  key of its source), and `SharedKey` says what it means that two sources have one
  key: they are the same, or one tenant name continues the other after a colon. Nothing is
  assumed of the names, so the theorems hold for the entries that are shared, too.
- `AlertServiceProofs`: `AlertsTyped`, `MapHoldsTheLatest`, `AlertsAreSpaced`,
  `SuppressionHasAReason`, `ShownAlertsAreStored`. The invariant adds `MapIsLatest` (an entry is the time of the latest
  alert let through in this boot) and that no alert was asked about in a later boot.
  Only `Ask` and `Crash` touch what these properties read; every other action is shown
  to be a quiet step once. `OnceEach` says in which states an alert may be in the table and on
  the dashboards.
- `RateLimiterProofs`: `LimiterTyped`, `BurstsAreBounded`, `RefusalsAreDeserved`. The
  invariant `Windows` says which of the admitted requests belong to the current window
  and that a whole window lies between its start and every request `Limit` earlier; so a
  minute never reaches back beyond two windows.
- `HubProofs`: `HubTyped`, `ClientsGetExactlyTheirAlerts`, `GaugeIsHonest`,
  `HubImplementsFeed`. The batch being filled, the one being sent and what each connection
  received are *runs* of successive numbers (`Run`), and they join: the batch ends with the latest
  alert, the one being sent ends where the batch begins, and what a client received
  ends where the first of these begins that it still has to get (`Mark`, `ClientRuns`). Order and
  completeness both follow from that. The refinement needs more, as the invariant says nothing of
  connections that left the map: nobody was ever written an alert beyond the last batch
  sent (`WrittenIsSent`). Then a swap, the lock and the unlock are hidden steps
  (`HiddenStep`), a write hands over what lies between two marks (`WriteGives`), and a
  registration, which finds the mutex free, joins beyond everything written (`RegisterJoins`).
- `AgentProofs`: `AgentTyped`, `LinesAreTriedBothWays`, `OnlyLateOnesAreOvertaken`. The
  invariant says what is known of the line in hand in each phase (`InHand`: its HTTP
  send has arrived or failed once the goroutine is at Kafka), that no stream of this start is
  ahead of the line in hand (`StreamsSoFar`), and that a late request was given up, has not
  arrived and is behind the line in hand or of an earlier start (`LateOnes`).
- `DashboardProofs`: `DashboardTyped`, `RowsAreDistinct`, `ListStaysOwn`,
  `MissingHasAReason`, `IndicatorIsLive`. The invariant adds that an `onmessage` filters
  for the selected tenant (`FiltersForSelected`, which holds because the effect depends on
  `apiKey`) and what the hub knows of the socket (`HubKnowsLive`).
- `DashboardViewProofs`: `ViewIsTyped`, `ToastsEnd`, `ConsoleShowsTheLatest`,
  `RowsKeepTheirOrder`, `SelectionKept`. The variables of the page fall into groups that
  steps change independently; the `Moves` lemmas say once what a step may do to each group, and
  every property follows from the moves of the groups it reads. The order of rows needs
  two more invariants: an alert is stored once (`StoredOnce`), and a list has no gaps but those that the
  socket will fill (`Complete`): with an alert it has every earlier one of the tenant, unless the
  alert came over the socket. A row can therefore be overtaken only inside a message.

Only model-checked: liveness (fairness and ENABLED are out of reach of the prover) and
with it the fair half of the refinement of `LogDelivery`. Every other property of the passing
runs is a theorem.

## 5. What the code does not do as documented

Three runs are expected to be violated; `PROJECT.json` quotes the line of the
documentation, or of the code's own comment, and says what the run shows. In short: an
alert may be suppressed as the duplicate of one that was never stored; one dashboard
that stops reading stops all of them; a late answer leaves the alerts of another tenant on
the page.

Others can be read off the modules without a run:

- `log_handler.go:62` answers "log stored successfully" when the event is in the channel. One
  event that the database refuses rolls back its whole batch (`InsertFails`), the others, long
  answered, included; `NoSilentLoss` lists the ways an acknowledged event may be lost.
- `README.md:111` promises zero loss during outages by Kafka's replay; `ReadMessage`
  commits before the event is even in the channel, and a crash loses it.
- `README.md:129` counts failures "within 60-second window"; the detector asks for pauses of
  at most a minute (`bruteforce.go:92`), so that five failures may be four minutes apart.
- `README.md:129` counts failures "from single source"; the keys of two sources may be the same
  (`bruteforce.go:64`, `scan_detector.go:90`), as a tenant name with a colon is not refused. An alert may
  then name a source that made one of the five attempts: TLC finds one at once if `MayShare(r, s)` in
  `AlertJustified` is replaced by `r = s`. `README.md:146` gives the suppressor's key as
  `{alert_type}:{source_ip}`; the code puts the tenant before it (`alert_suppressor.go:28`), again
  joined by colons. `KeyOf` of `AlertService` is any function, so what holds there holds
  for keys that alerts of two sources share.
- `README.md:154` limits clients to "100 requests/minute"; the windows are fixed
  (`rate_limiter.go:27`), so that a minute that contains the end of one may admit 200. `BurstBounded` is that
  bound, and TLC finds a minute with more than `Limit` requests when it is halved.
- The same line limits "per source IP"; the limiter's key is `RemoteAddr` with its port
  (`rate_limiter.go:19`), so that each connection has a limit of its own.
- `README.md:147` promises an audit trail of suppressed alerts; `Ask` leaves nothing of
  them behind. `Crash` empties the map: two alerts of a key may be closer than a window
  when a restart falls between them (`PassedAreSpaced` is about one boot for this
  reason).
- `README.md:486` and `App.jsx` (lines 752, 853, 1427, 1456) say `brute_force`,
  `bruteforce.go:129` sends `BRUTE_FORCE`: the page titles every alert a web scan.
- The agent sends each line both ways, and the service does not compare what it
  gets: three failed logins make up to six attempts for a threshold of five.
- On the page: a message of many alerts is put in front oldest first, so that the feed of
  four rows shows the oldest of them; the timer of a toast removes a later one early
  (`ToastEnds` only bounds how long it stays); the `onclose` of a previous socket turns
  the live indicator off under an open one, and a socket that closes is not reopened
  (`ConnectedIsLive` is about the other direction); the updater of the list makes console
  entries (`App.jsx:274`), so that in development, where `StrictMode` runs it twice, each new alert may be
  logged twice (`SocketMessage` allows both); `GetTrafficAnalytics` counts in separate
  queries.

## 6. Not modelled

- Memory growth: the maps of the detectors, the suppressor and the limiter never
  shrink, and the hub's batch has no bound.
- Parsing and formatting, the contents of logs and alerts beyond what the detectors
  read; the queries whose answers the page only draws (traffic, status codes, paths), and the
  panels that draw them.
- A log file that is rotated or truncated under the agent, and two files whose messages
  share a batch of the Kafka writer.
- Start-up (`db.Init`, schema), CORS, request ids, request logging, authentication: they keep no
  state. Metrics other than the two counters a property is about.
- The Slack post, the layout of the dashboard, Grafana and Prometheus, the simulator.
- `InsertLog`, `ProcessLog` and `extractIP`, which nothing calls, and the graceful end
  of a worker (`!ok`), as nothing closes the channel.

## 7. Plan

1. *(done)* the core: pipeline, detectors, alert service, hub, rate limiter; then the
   agent and the dashboard, with the proofs of section 4.
2. `SiemBackend`: workers, detectors, alert service and hub composed, so that a stalled
   insert or a slow detector is seen by the whole; the alert service in front of `AlertFeed`, so that the
   numbers of the feed are those of stored alerts.
3. The agent composed with the pipeline and the detectors: how many attempts one line counts for.
4. `Events` and `Analytics`: validation and parsers as operators; the queries over small
   tables against a reference definition.
5. Proofs: the same results for the compositions of 2 and 3, from the theorems about their parts.
