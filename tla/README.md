# NevUp trade journal: TLA+ models, checks and proofs

The program is a Go backend that stores trades, flags "revenge" trades while
storing them, publishes every stored trade on a Redis stream, and has an
analytics worker turn that stream into behavioural metrics. This directory holds
models of its write path, its worker, the two together, its cached reads, its
session routes behind the middleware, and its start, the instances TLC checks,
and proofs about each of them. File and line references are to the repository.

## 1. Inventory

### Processes and shared state

```
client --POST/GET--> API server (goroutine per request, + 3 goroutines per POST)
                        |  INSERT/SELECT        |  GET/SET last_loss, ZADD, XADD
                        v                       v
                     PostgreSQL               Redis ---XREADGROUP/XACK---> worker-1
                        ^                       ^   <--ZADD/ZREM/ZCOUNT-------'
                        '------- SELECT ratings, tilt; upsert metrics --------'
```

Nothing is shared in memory between two requests or between the two programs.
They interact only through these rows and keys:

| state | written by | read by |
|---|---|---|
| `trades` (PostgreSQL) | POST /trades, seed migration | GETs, profile, worker (ratings, tilt) |
| `trades:events` (stream) | POST /trades, in the background | worker, /health |
| `user:<id>:last_loss` (90 s) | POST of a losing close, in the background | POST, before its insert |
| `user:<id>:trades-ts` (sorted set) | POST in the background, and worker | worker |
| consumer group `nevup-analytics` | worker | worker |
| `behavioral_metrics`, `emotion_win_rates`, `overtrading_events` | worker, seed migration | GET metrics |
| `metrics:*`, `profile:*` (5 min) | GET metrics, GET profile | the same |
| `sessions`, `debriefs`, `users` | seed, POST debrief | GETs, foreign keys |

### Components

| component | source | state | operations | what makes it correct |
|---|---|---|---|---|
| Domain rules | `internal/domain` | none | `Validate`, `ComputePnL`, `IsRevenge`, `RollingAvg`, `SessionTiltIndex` | agreement with the definitions in the documents, boundaries (90 s, break-even, empty window) |
| Trade write path | `handler/trade.go`, `store/trade_store.go`, `cache/metrics.go` | a local input, flag and row per request; three background calls per POST | POST /trades, GET /trades/{id} | one record per id whatever races or is retried; a flag is justified by a stored loss; only stored rows are published |
| Analytics worker | `pipeline/worker.go`, `cache/stream.go`, `cache/zset.go`, `store/metrics_store.go`, `cmd/worker` | position in the batch, one value read and not yet written | read a batch, the up to nine statements of `processMessage`, acknowledge | no entry counted twice, every entry counted once when nothing fails, ratios in range, the queue never held up |
| Metrics read path | `handler/metrics.go`, `cache/metrics.go`, `store/metrics_store.go` | cache entries | GET /users/{id}/metrics | an answer is the owner's and complete, whoever computed it |
| Profile | `handler/profile.go`, `store/user_store.go` | cache entries | GET /users/{id}/profile | the same; it does not go back in time; failed queries do not become strengths |
| Sessions | `handler/session.go`, `store/session_store.go` | rows of `debriefs` | GET, POST debrief, coaching stream | ownership; one debrief per POST; a summary is current; a stream is a beginning of its message and `done` its end |
| Health | `handler/health.go` | none | GET /health | it answers, whatever the database does |
| Middleware, router | `middleware/*.go`, `router.go`, `handler/response.go` | request context, captured status | authentication, trace id, log line | every request over has one line, with the status and the trace id its client got |
| Startup | `cmd/*`, `migrations/`, `store/db.go`, `cache/redis.go`, `docker-compose.yml` | schema version, seed's progress, process states | connection attempts, migrations, seed, start and stop of services | a seed broken off and begun again gives the tables of one undisturbed run; counts of a running worker are never taken away; the system comes up |
| Tools, deployment | `cmd/jwtgen`, `nginx.conf`, `loadtest`, `tests` | none | | |

### Where the difficulty is

* **Request context in background goroutines.** The three Redis calls of a POST
  use `r.Context()`, which net/http cancels when the handler returns
  (`trade.go:104,133,140`). What survives is a race.
* **Read, then store later.** The revenge flag is read from Redis, computed, and
  stored by a later statement; the key is overwritten and expires on its own, in
  whole seconds, on another clock than the entry and exit times.
* **Duplicates.** `Upsert` is two statements. A retry may meet its own committed
  row, or a different body under the same id. Each POST publishes again.
* **At most once.** The worker reads new entries only, acknowledges whatever
  happened, and its upserts add: a redelivered entry would count twice, and a
  crash loses what was delivered.
* **No transactions.** The statements of one entry are separate, the overtrading
  check is a pipeline which the API's own ZADDs may separate, and rows arrive
  between a read and the write that depends on it.
* **A cache nobody invalidates.** Write-backs of the metrics run after the answer
  and may land in any order; only time removes what they leave.
* **Early returns.** Every handler answers from a dozen places; the log line, the
  captured status and the trace id in the body are put together elsewhere.
* **A seed without a transaction.** Any of its statements may be the last of its
  run, the next run begins again, and the same tables are added to by the worker.

`PROJECT.json` lists the hazards line by line with the properties aimed at them.

## 2. Modules

| module | models | kind |
|---|---|---|
| `TradeDomain` | `Validate`, `ComputePnL`, `IsRevenge`, the row built from a request, the event built from a row | operators |
| `TradeFeed` | what the rest of the system may rely on from the write path: write-once rows, events only of stored rows | abstract specification |
| `TradeIngest` | POST and GET of trades with the background calls, key expiry, disconnects, server stops | state machine, refines `TradeFeed` |
| `TradeIngestProofs` | theorems about `TradeIngest` | proofs |
| `WorkLedger` | what a consumer that counts promises: through the log in order, each entry counted once or never | abstract specification |
| `MetricsWorker` | the worker, with `TradeFeed` as its environment | state machine, refines `WorkLedger` twice |
| `MetricsWorkerProofs` | theorems about `MetricsWorker`, the refinement of `WorkLedger` among them | proofs |
| `SumTheorems` | sums over finite sets, as `RollingAvg` and the upserts' P&L add them up | proofs |
| `TradePipeline` | `TradeIngest` and `MetricsWorker` on one table, stream and sorted set | composition, refines `MetricsWorker` |
| `TradePipelineProofs` | that it does refine it, and that the promises of both components hold of the two together | proofs |
| `ReadPath` | the cached reads, metrics and profile | state machine |
| `ReadPathProofs` | theorems about `ReadPath` | proofs |
| `RequestGate` | router, token check, logger, error answers, GET /health | state machine, extended by `SessionPath` |
| `SessionPath` | summary, debrief and coaching stream behind `RequestGate` | state machine |
| `SessionPathProofs` | theorems about `SessionPath` and `RequestGate` | proofs |
| `SeedMigration` | connection attempts, migrations, the seed's statements, start of the services | state machine |
| `SeedMigrationProofs` | theorems about `SeedMigration` | proofs |
| `MC...` | one instance module per state machine | for TLC |

`TradeFeed` is the interface between write path and worker. `TradeIngest` is shown, by TLC
and by proof, to implement it; `MetricsWorker` uses its actions `FeedInsert` and
`FeedPublish` as the environment, and adds `AddWindow` to the sorted set. That this
environment is wide enough for the API is itself checked and proved, in `TradePipeline`
(`WorkerSpec`). So whatever holds of the worker holds for every table, stream and
set the API can produce.

### TradeDomain: units

Time counts ticks, `TicksPerSecond` of them to the second (two in the
instances), since the code cuts instants to whole seconds in two places:
`ExitAt.Unix()` for the last-loss key (`Unix`, `FromUnix`) and RFC3339 in the
event (`ToRFC3339`). Prices and quantities are integers. The fields `Validate` only
wants to be there (ids, asset, entry time), a known asset class and a rationale that is
not too long are one Boolean, `required`. Whether the columns take the values (ids that
are UUIDs, amounts and a P&L within `NUMERIC(18,8)`) is another, `storable`: `Validate`
does not ask (`domain/trade.go:54-96`), PostgreSQL does.

### TradeIngest: state and actions

One request is one element of `Reqs`. `pc` follows the handler: `idle`,
`revenge` (before the GET of the key), `insert`, `select` (the second statement
of `Upsert`), `respond`, then `done`, or `crashed` with its process. `input`,
`flag`, `result`, `code` are the handler's locals and its answer. `pending`
holds the background goroutines not yet over and `cancelled` the requests whose
context is cancelled.

| action | code |
|---|---|
| `Receive` | decode, `Validate`, tenancy, build (`trade.go:34-83`) |
| `CheckRevenge` | `GetLastLoss`, `IsRevenge`; an error leaves the flag off (`:82-91`) |
| `InsertTrade`, `InsertConflict`, `InsertFails`, `InsertReplyLost` | the four outcomes of `INSERT ... ON CONFLICT DO NOTHING` |
| `SelectTrade` | the row that won, or an error |
| `Respond` | the answer; the return cancels the context |
| `SetLastLoss`, `Publish`, `AddWindow`, `DropEffect` | the background calls, each may take effect or be dropped |
| `PublishRetried` | go-redis sends an XADD again after a lost reply |
| `Get` | GET /trades/{tradeId}; an id that is no UUID is an error of the statement |
| `Disconnect`, `ExpireLastLoss`, `StopServer` | environment |

What the INSERT refuses comes in two kinds. Values the columns do not take are refused
before the table is looked at, so for a stored id too. The foreign keys to users and
sessions (`Accounts`, `Sessions`) are looked at after it, so only for a new row:
`ON CONFLICT DO NOTHING` passes them by. A row of `Rows` is one of a body the table takes
(`Insertable`).

A call under a cancelled context may fail, but one already handed to Redis may
also still take effect; both outcomes are allowed. `StopServer` stands for a
crash and for SIGTERM: `ListenAndServe` returns as soon as `Shutdown` closes the
listener, and `main` returns with it (`cmd/api/main.go:66-82`).

### MetricsWorker: state and actions

Stream entries are named by position. `cursor` is the group's last delivered
entry, `pel` its pending list; `at..cursor` is the batch in hand, `step` the next
statement of `processMessage` and `scratch` the value one statement read for the
next (ratings average, tilt, window count). `ws` is the process: up, stopping
(context cancelled, so every call fails), or down. Each statement is an action
with a success and a failure; a failure is logged and the next one runs, exactly
as in the code. `ReadLost` delivers entries whose reply does not arrive. `Start`
does not read pending entries, since `ReadGroup` asks for `>`.

SQL that may return one of several results does so in the model: ties under
`ORDER BY exit_at DESC LIMIT` (`LastRated`; rows without an exit time come first)
and under `ORDER BY entry_at` (`SessionOrders`). Ratios are kept as
<<numerator, denominator>>, which the properties need and rounding would hide.

### WorkLedger and TradePipeline

`WorkLedger` has a log of keys, a `front` and counters. `Count` adds one to the
counter of the entry at the front and moves on; `Pass` moves on without counting,
over any number of entries (entries not meant to be counted, failed statements,
lost reads); `Open` lets a counter appear at zero (a bucket may be created by its
average or tilt). `front` never moves back, so at-most-once and order are in its shape.
`MetricsWorker` implements it twice (checked, and proved), with the buckets as counters and with the
emotion counters; `front` is mapped to the entry at hand, or the one before it as long as its
count is still to come. It does not promise to count, since the code does not.

`TradePipeline` instantiates both components over one `trades`, `stream` and
`tradesTs`; a step is a step of the API or one of the worker (`Work`), and leaves
the other's variables alone. `WorkerSpec` is the specification of `MetricsWorker` itself:
the API's steps must be `InsertRow`, `PublishRow`, `AddWindow` or stuttering.

### ReadPath: state and actions

A request looks up its key (`Hit`, `Miss`; an error of Redis is a miss), runs the
statements of its handler one by one (`QueryOk`, `QueryFails`), and writes the
answer back. `OnError` says what an error of a statement becomes: the first two
metrics queries end in 500, the user query in 404, and the two counts and the
evidence queries go on without their value. The metrics are written back by a
goroutine (`StoreMetrics`, `SetMetrics`) that may outlive the answer, the profile
before the answer (`StoreProfile`). `Write` is any write to a user's tables, by the
worker or a POST; no write removes a cached answer. A value is abstracted to its
owner and version. `r` is a connection that serves one request after the other,
so the number of requests is unbounded. `seen`, `floor` and `overlap` are history
variables. A server that dies during a request leaves what a disconnect leaves,
so there is no action for it here.

### RequestGate and SessionPath: state and actions

`RequestGate` has what every request goes through: `Arrive` (the logger makes the
trace id, chi picks the route), `Refuse` or `Admit` (the token check), the handler,
`Log`. The response writer is `WriteHeader`, with `code` what the client is sent and
`captured` what the logger will see; `told` is the trace id in the body of an error.
The log line is written from the outer context, so it has the trace id and never the
user. GET /health is here since it has no other state: `PingReply`, `PingTimeout`
(two seconds), `CheckLag`.

`SessionPath` adds the three handlers: `SessionFound`, `SessionMissing` and
`SessionFails` are the statement they share; `ListTrades` and `RefuseForeign` the
summary, which reads the trades before it looks at the owner; `Decode`,
`InsertDebrief`, `InsertReplyLost`, `InsertFails` the debrief, whose rating is left
to the table's CHECK; `StreamCheck`, `StreamToken`, `StreamDone` the stream,
which looks at the context at the head of its loop only. `before` and `heard` are
history variables. The handlers of the other modules stand behind the same
middleware; there only the subject of the token is kept.

### SeedMigration: state and actions

`proc` is the state of migrator, API and worker: down, connecting, pinging Redis,
up. `version` is goose's; migrations 1 to 4 are one step each, since each is a
transaction, and the seed is one action per statement. `MigratorFails` ends the
run before or after any of them, with its session and the temporary table;
`StartMigrator` is the next `docker compose up`. `StartService` waits for a run of
the migrator that succeeded (`depends_on`). `StoreTrade` and `CountTrade` stand for the API
and the worker, as far as the seed's tables see them, and `RestartMigrator` for a
migrator started again beside them. Where SQL may choose, the model does: equal
entry times under `LAG`, and an `UPDATE ... FROM` with several matches (`Tilts`).

## 3. What is checked

### Passing runs

| run | question | bounds |
|---|---|---|
| `ingest_faults` | `TypeOK`, `OneRecord`, `RevengeJustified`, `Feed`, the inductive invariant `IngestInv`, with everything that can fail, and `EveryRequestAnswered` | 2 requests, 6 bodies and the seed's row, 1 stop, stream below 2 for retries, fairness |
| `worker_faults` | `TypeOK`, `NoDoubleCount`, `RatiosInRange`, `OvertradingBacked`, the inductive `WorkerInv`, the refinement `CountedInOrder`, and `QueueMovesOn`, with failures, lost reads, signals, crashes and restarts | 2 entries, 2 stops, fairness of the loop |
| `pipeline` | `WorkerSpec`, `CountsWithinPosts`, `RevengeCountBacked`, `CountsExact` from POST to counter, the inductive `PipelineInv`, `RetryNeverFails` | 2 requests, 4 bodies in two hours, 1 stop of the API |
| `reads` | `TypeOK`, `AnswerSound`, `ProfileNeverBack`, the inductive `ReadInv`, with failing statements, a Redis fault, disconnects, expiry | 2 connections, 2 users, 1 write, 1 Redis fault, 1 of the 9 evidence queries |
| `reads_live` | `EventuallyFresh` though requests never end | 2 connections, 1 write, fairness |
| `sessions` | `TypeOK`, `LogFaithful`, `DebriefSavedOnce`, `SummaryCurrent`, `StreamFaithful`, the inductive `SessionInv`, `EveryRequestEnds` | 2 requests of 12 kinds, 3 tokens, 1 trade arriving, 1 stop, fairness |
| `seed` | `TypeOK`, `SeedExact`, `CountsKept`, the inductive `SeedInv`, `EventuallyServing` | 4 rows in 2 hours, 1 new trade, 5 faults, 2 attempts to connect, fairness |

*`OneRecord`*: every 200 answer is the one row stored under the requested id,
also for a duplicate with other contents and for a retry after a lost reply.
*`RevengeJustified`*: a stored flag is always backed by a stored losing close of
the same user, though the key was written by another request's goroutine,
overwritten in any order, and expired. The bound includes the second that `Unix()`
drops. *`RetryNeverFails`*: a stored id never yields 500 to a waiting client
while the database is up, if the columns take the values: not after a lost reply, nor to
the loser of a race, nor in an unknown session, since the conflict is met before the
foreign keys. Without that condition it is what the documents ask for, and fails
(`duplicate_fails` below). It is checked in `pipeline`, where the database does not fail.
*`NoDoubleCount`*: no crash, restart or failed acknowledgement counts an entry
twice. *`OvertradingBacked`*: an overtrading event never reports more trades
than the table has from the window's start on, although the sorted set mixes exact
and whole-second scores and is trimmed out of order.

*`AnswerSound`*: whatever request computed it, a 200 answer goes to its owner, has
that user's values only, and lacks only what the code means to be optional.
*`ProfileNeverBack`*: a user who asks for one profile at a time never sees one
older than the last, since the write-back is over before the answer; with the
write-back in the background, as for the metrics, this fails.
*`EventuallyFresh`*: for the metrics what is left is that the cache, five minutes
after the writes are over and the slow write-backs have landed, holds the newest
rows and stays so, although clients ask all the time: a hit does not renew the entry.

*`CountedInOrder`*: both tables of counters implement `WorkLedger` across every
crash, lost reply and restart. *`QueueMovesOn`*: no entry, whatever fails in it, holds up the ones
after it while the worker lives. *`CountsExact`*, in the pipeline: without failures an idle
worker has in every counter, wins, losses, P&L and revenge included, what the
API published, and nothing else. *`CountsWithinPosts`*: a count stands for a POST that
stored or found that trade. *`RevengeCountBacked`*: a revenge count goes back to a
stored losing close, through the key, the flag, the row, the event and the counter.

*`LogFaithful`*: each request that is over has exactly one log line, with the status its
client was sent, and the trace id in an error body leads to it. *`DebriefSavedOnce`*:
one POST saves at most one debrief, of the caller's session, exactly one if it answers 201, and
possibly one behind a 500, but none behind a 4xx. *`SummaryCurrent`*: a summary has every trade that was
there when the request came, and only trades of that session, though it is read
in two statements. *`StreamFaithful`*: what is sent is a beginning of the message,
`done` comes only after the whole, and after a disconnect at most the token about to be written follows
(and `done`, after the last). *`EveryRequestEnds`* is "no goroutine leak" (LLD line
671), for all routes: the stream ends with the connection, the health check without the database.

*`SeedExact`*: however many runs broke off, and wherever, the tables are those of one
undisturbed run. *`CountsKept`*: the seed's upserts replace counters, so a run beside a
counting worker would lose counts; `depends_on` and the version row together
keep it from happening, also when the migrator is started again later.
*`EventuallyServing`*: each statement of the seed can be begun again.

The bodies are placed at the boundaries: a loss closed at 110.5 s and kept as
110, an entry 89.5 s after the kept second, one after the 90 s are over, a duplicate
in an unknown session, one with a price too large for its column, an invalid one. The
worker's rows have equal hours and
different ones, no exit time, no outcome, still open, and one more trade per window than the
limit (1 in the instance instead of 10).

The metrics of the `reads` instance belong to a user without rows and the profile
to the one that is written to: versions matter to `ProfileNeverBack` only, and the
two handlers meet only in the key space.

Two requests are enough for the races of two writers of an id or of a loss and its
follower, and the proofs cover any number. One stop is enough to reach every partial state; after it the system runs
on. Two in `worker_faults` let a crash follow a restart, and leave one entry pending
while another is processed. In `pipeline` the worker neither fails nor stops: that it may is the
question of `worker_faults`, whose environment contains the API by `WorkerSpec`.
In `sessions` two requests show that one's log line or debrief is not the other's; the
three tokens are a first, a middle and a last one. The faults of `seed` allow both
services and the migrator to give up on connecting and the seed to break off besides. `MaxCrashes`, `MaxStops` and `MaxEvents` bound only environment actions
(`MaxEvents` in `TradeIngest` only the retried XADD). Deadlock is checked in the
`reads` and `seed` runs, where something can always happen next; elsewhere a finite set of
requests and a bounded stream do end.

### Fairness

`FairSpec` of `TradeIngest` has weak fairness of each request's handler and of
its background calls: the Go scheduler runs every goroutine, and pgx and go-redis
calls return, with an error if need be. Nothing is assumed of clients, failures,
expiry or stops. `FairSpec` of `MetricsWorker` has weak fairness of the worker's
own loop. Nothing makes a stopped worker start again (`docker-compose.yml` gives
it no restart policy); `RestartSpec` adds that someone does, and is used only to
show what a restart does not repair. `FairSpec` of `ReadPath` has weak fairness
of handlers, of write-backs and of each key's expiry (Redis drops a key when its time
is up), and nothing of clients. `FairSpec` of `SessionPath` has weak fairness of every
step of a request except `PingReply`: the ping may hang, the two seconds end.
`FairSpec` of `SeedMigration` has weak fairness of the migrator and of starting it again
until it succeeds (the operator's part, once faults have ended), and strong fairness of each
service's way up, since another run of the migrator may put off its start.

### Runs that show a disagreement

| run | what the text says | what the code does |
|---|---|---|
| `publish_lost` | P1 "publishes event to Redis Streams" before 200 | the event may be dropped by the cancelled context |
| `duplicate_fails` | "must return HTTP 200 for duplicates — never 409 or 500" (LLD line 108, the OpenAPI file, line 42) | a duplicate whose ids are no UUIDs or whose amounts overflow passes `Validate` and fails in the INSERT: 500 |
| `crash_loses_entry` | "at-least-once delivery" | delivered entries are never read again |
| `duplicate_counted` | POST is "Idempotent on tradeId" | each duplicate POST is counted again |
| `strength_of_error` | strengths are "absence of pathologies" (comment in `profile.go`) | a failed evidence query counts as absence, for as long as the answer is cached |

## 4. What is proved

Seven proof modules, six of them with the theorems below and one, `SumTheorems`, with
lemmas they rest on. They hold for all sets of requests, users, rows and inputs (requests
and seed rows finitely many where they are counted), with or without failures and stops:

| module | theorem | states |
|---|---|---|
| `TradeIngestProofs` | `Inductive` | `Spec => []IngestInv` |
| | `TypeCorrect`, `OneRecordAlways`, `RevengeJustifiedAlways` | `Spec => []TypeOK`, `[]OneRecord`, `[]RevengeJustified` |
| | `ImplementsFeed` | `Spec => Feed` |
| | `RetryNeverFailsAlways` | `Spec => RetryNeverFails` |
| `MetricsWorkerProofs` | `Inductive` | `Spec => []WorkerInv` |
| | `TypeCorrect`, `NoDoubleCountAlways`, `OvertradingBackedAlways` | `Spec => []TypeOK`, `[]NoDoubleCount`, `[]OvertradingBacked` |
| | `RatiosInRangeAlways`, `CountsExactAlways` | `Spec => []RatiosInRange`, `[]CountsExact` |
| | `CountedInOrderAlways` | `Spec => CountedInOrder` |
| `TradePipelineProofs` | `PipelineInvAlways` | `PipelineSpec => []PipelineInv` |
| | `WorkerSpecAlways` | `PipelineSpec => WorkerSpec` |
| | `CountsExactAlways`, `CountsWithinPostsAlways`, `RevengeCountBackedAlways` | `PipelineSpec => []CountsExact`, `[]CountsWithinPosts`, `[]RevengeCountBacked` |
| | `PromisesKept` | `OneRecord`, `RevengeJustified`, `NoDoubleCount`, `OvertradingBacked`, `RatiosInRange` of the two together |
| | `FeedAlways`, `LedgersAlways`, `RetryNeverFailsAlways` | `Feed`, `CountedInOrder`, `RetryNeverFails` of the two together |
| `ReadPathProofs` | `Inductive` | `Spec => []ReadInv` |
| | `TypeCorrect`, `AnswerSoundAlways`, `ProfileNeverBackAlways` | `Spec => []TypeOK`, `[]AnswerSound`, `[]ProfileNeverBack` |
| `SessionPathProofs` | `Inductive` | `Spec => []SessionInv` |
| | `TypeCorrect`, `LogFaithfulAlways`, `DebriefSavedOnceAlways`, `SummaryCurrentAlways`, `StreamFaithfulAlways` | `Spec => []TypeOK`, `[]LogFaithful`, `[]DebriefSavedOnce`, `[]SummaryCurrent`, `[]StreamFaithful` |
| `SeedMigrationProofs` | `Inductive` | `Spec => []SeedInv` |
| | `TypeCorrect`, `SeedExactAlways`, `CountsKeptAlways` | `Spec => []TypeOK`, `[]SeedExact`, `[]CountsKept` |

TLC checks each inductive invariant in the runs, as an invariant of its own. Every safety
property of a passing run, invariant, action property or refinement, has a theorem.

### The write path

Assumptions on the constants: `TicksAssumption` (a positive number of ticks),
`PayloadAssumption` (bodies name users of `Users`, instants are integers or
absent), `SeedAssumption` (seed rows are stored under their own id),
`BoundAssumption`. TLC evaluates them, and those below, in every run of their module.

`OneRecord` and `RevengeJustified` are not inductive. The invariant adds:

* `InputPosted`: past validation, a handler works on a body that `Validate` accepts, and
  so does what it left running;
* `NothingYet`: before it has a row, it has started and answered nothing;
* `ResultStored`: whoever answers or publishes holds the stored row. Rows never
  change (`RowsKept`), so it stays so;
* `LossPending`, `LossBacked`: the key is only set for a losing close, so what it
  holds is always the second of a stored loss of its user, in whatever order
  the SETs land;
* `FlagJustified`: between check and insert, a set flag is justified by a stored
  row. The lemma `FlagFromLoss` carries the arithmetic from the kept second to
  the exact exit time.

Each conjunct has a lemma, with one step per action that can disturb it.
`ImplementsFeed` maps insertions to `FeedInsert`, publications to `FeedPublish`,
and everything else to stuttering; `ResultStored` is what makes a publication one
of a stored row.

### The worker

Assumptions: `TicksAssumption`, `WorkerAssumption` (positive batch size and windows),
`RowAssumption` (finitely many seed rows, under their own id; rows have integer or absent
instants and P&L, ratings of 1 to 5 as `Validate` and the schema's CHECK have it, and keys that
are not `NULL`) and the worker's `SeedAssumption` (seed counters are counters, their ratios in range).

* `RowsStored`: rows stay under their own id, and every entry is the event of one. This is
  what the worker may take from `TradeFeed`;
* `ClosedOnly`: past its first statement, the entry at hand is a closed trade, with an emotion
  where it is counted by emotion;
* `CountsBacked`: a counter is at most the seed's value plus the entries of its key up
  to `BucketFront` (or `EmotionFront`): the entries done with, not merely those published. `NoDoubleCount` is
  weaker and not inductive: it allows a count of an entry still to come;
* `WindowsBacked`: a member of a window set is a stored trade of its user with a
  score no later than its entry time, whoever added it; and a count about to be reported is at most the
  stored trades from the window's start on. The number of members in the window is
  bounded by an injection into the table, since a set member is named by its trade;
* `RatiosRead`: a ratio just read is in range, whatever is stored between the read and the
  write. An average is one of at most `RatingWindow` ratings of 1 to 5, so its sum lies between
  its count and five times its count;
* `CountsUpToDate`, while nothing has failed: trades, wins, losses, revenge trades and P&L of a
  bucket are the seed's and those of the entries up to `BucketFront`, wins and losses by emotion
  those up to `EmotionFront`, also for keys that have no row yet. For an idle worker both fronts
  are `cursor`, which is `CountsExact`;
* `RevengeBacked`: more revenge trades than the seed's mean a flagged entry of that bucket.

The averages and the P&L are sums over sets, folds of the community modules that choose
elements in an unknown order. `SumTheorems` shows of them what the invariant needs: the sum
of integers is an integer, adding an element adds its value, equal functions have equal
sums, and bounds on the values bound the sum. The library's induction theorems take an
operator and cannot be used, so `SetInduction` is stated for a set `B` of sets instead, and
follows from a smallest counterexample (the order of the naturals is well-founded).

`CountedInOrderAlways` shows, for each table, that a step of the program is `Count` when the
upsert succeeds, `Pass` when the front moves without it, `Open` when an average
or tilt creates the bucket, and a stutter otherwise. What it needs is that
`step` is `count` (or `emotion`) only for the entry right behind the front, and that a restart
begins behind `cursor`, which the invariant says; the same lemmas give `CountsBacked`.

### The two together

Assumptions, from which those of both components are derived (`IngestAssumptions`,
`WorkerAssumptions`): `UsersAssumption` (each user has a body that is accepted and the table takes, or a seed
row; of any other nothing is ever stored), `BoundsAssumption` (finitely many requests,
natural bounds, positive limits), `BodiesAssumption` and `SeedRowsAssumption` (instants and
amounts are integers or absent, seed rows are stored under their own id with ratings of 1 to
5, as the schema has it), `NullAssumption` (`NULL` is no row and no key) and
`SeedMetricsAssumption` (seed counters are counters, and their ratios in range).

The proof puts the components' proofs together. `TradeIngestProofs` and
`MetricsWorkerProofs` are instantiated over the pipeline's variables, the worker with the rows the
API can store and with room in the stream for every request; `SameIngest` and `SameWorker`
say that these instances speak of the same state as the ones in `TradePipeline`. The
invariants come over as they are (`IngestKept`, `WorkerKept`). What is left to show is that
either is a good environment of the other, and what binds them:

* `EnvironmentStep`: a step of the API is `InsertRow`, `PublishRow` or `AddWindow` of the
  worker's specification, or leaves its variables alone. `ResultStored` makes what is published a
  stored row;
* `IngestSpared`: the worker writes the sorted set, which the API writes too, and leaves in
  it stored trades of the right user (`WindowsBacked`); `WorkKeepsFeed`: it writes neither table nor stream;
* `StreamBounded`: the stream is no longer than the bound on retries and one entry for each
  request whose XADD is behind it, so the bound given to the worker never keeps a publication out;
* `EntriesFromPosts`: without retries of go-redis, the entries of a bucket are no more than
  the requests behind their XADD with a row of that bucket.

`PipelineInv` is the conjunction of the two invariants and the last two facts.
`CountsWithinPosts` follows from `NoDoubleCount` and `EntriesFromPosts`, and
`RevengeCountBacked` from `RevengeBacked` (a flagged entry), `RowsStored` (of a stored row)
and `RevengeJustified` (whose flag is justified). The abstract specifications come over like
the invariants: a step of the worker leaves what `TradeFeed` speaks of alone, and by
`EnvironmentStep` every step of the two is one for which the worker's proof has the ledgers' steps.

### The cached reads

Assumptions: `InputAssumption` (users of requests are users; a profile has no
parameters, so its key is the user's) and `ValueAssumption` (the evidence queries are a finite
list, the bounds are natural, no value is `NULL`). `ReadInv` adds:

* `Progress`: a handler has the answers of the statements it is done with, of its user and no
  newer than the tables, and all of them from the last one on;
* `PendingSound`, `CacheSound`: so has a write-back, and an entry of the cache, of the
  user and kind its key names; `AnswerSound` follows, for hits too;
* `OneByOne`, while Redis has not failed and for a user whose profile requests never
  overlapped: the cached profile is no older than any shown; it is absent while a handler
  computes one, but for a handler that was cancelled before its first statement, which ends
  in an error; and from the SET to the answer it is the one about to be shown. The last part
  is what makes the next hit as new as this answer;
* `SeenStored`: nothing shown is newer than the tables, so what is computed later is no older.

A step is one of the handler at work on the user's profile (`ReadsOneByOne`,
`WritesOneByOne`), an arrival (`ReceiveOneByOne`), or leaves all this alone (`OneByOneStays`).

### The session routes

Assumptions: `SessionAssumption` (a message of at least one token, none of them
`done`; `NULL` is no length) and `GateAssumption`.

* `Progress`: what each point of a handler stands for. Nothing is answered
  before a handler returns, except that a stream in progress has its 200; the status
  the logger holds is the client's; past the ownership check, the session is the caller's;
* `OneLineEach`, `OneDebriefEach`: lines and requests that are over correspond one to
  one; a debrief belongs to one request, past its insert, and a 201 has one;
* `SummaryOnce`: a summary is made by the step that answers, and stored trades stay stored;
* `StreamAt`: how many events each point of the loop has behind it, also
  relative to those at the disconnect (`heard`). At the head of the loop at most one event
  was written since, and a token is only written at a context that was live at the head.

The proof looks at one request at a time: `Apart` and `OthersStill` say that another's step leaves it
alone, or takes the process with it, `OwnSteps` that its own step is an arrival, a disconnect, an answer
(`Answered`, the shape all early returns share) or one of nine moves.

### The start

Assumptions: `RowsAssumption` (a finite file whose trade ids are unique, and new rows
that are not in it) and `BoundsAssumption` (at least one attempt to connect).

* `NotYetOpen`, until version 5 is recorded: no service is up, so nothing but the seed
  has written;
* `SoFar`: what this run's statements must have left before the one it has reached. Each is
  weak enough for whatever a broken run left in the tables, and strong enough that
  the last statement finds the whole seed;
* `Added`, from then on: a bucket's trades are the file's and the counted ones, and
  with none counted yet the tables are still the seed's.

The proof has one lemma per statement of the seed, one for the steps of processes that
touch no table (`ProcessStep`), and one for each of the two writes of the services. The
aggregates stay unexpanded: only their domains and the number of trades matter to it.

### Only model-checked

Liveness under fairness, which is out of the prover's reach: `EveryRequestAnswered`,
`QueueMovesOn`, `EventuallyFresh`, `EveryRequestEnds`, `EventuallyServing`.

## 5. What is not modelled

* Text and format: messages, asset fields, rationale length, logging, decimals
  beyond integers. Of the columns' limits only whether a body keeps them (`storable`).
* Connection pools and timeouts other than as "the call fails".
* A second consumer: `worker-1` is the only consumer name, one worker is deployed.
* Removal of stream entries, Redis data loss, and updates or deletions of rows,
  which no code performs.
* Malformed events: the API is the only writer of the stream.
* `queueLag` as a measure of backlog: it is the age of the newest entry, as the design
  document defines it (line 706), and so are its two values in the model.
* The clocks. Key expiry may happen at any moment.
* Panics and `Recoverer`, how a token is parsed and verified, 405 answers.
* The aggregation of rows into a metrics answer and the confidences of a profile.
* The DDL of migrations 1 to 4, and `goose down`, which no program runs.
* Tools and deployment: a token printer, `nginx.conf`, a load script.

Texts that the models contradict in passing, without a run of their own:

* A trade posted within 90 s of an answered losing close is stored without the flag if it
  overtakes the background SET (`handler/trade.go:104`; the design document defines
  the flag by the two trades alone, line 82). The model has the behaviour; what holds is
  that a flag that is set is right (`RevengeJustified`).
* "Acknowledge only after all 5 handlers succeed" (design document, line 883): an
  entry is acknowledged whatever became of its statements (`worker.go:70-77`), which
  is what `WorkLedger!Pass` allows for.
* The documents say 30 s for the metrics' TTL and that the worker removes cached
  metrics; the code has 5 minutes and removes nothing (`EventuallyFresh` states what remains).
* The seed counts losses by outcome, the worker counts whatever is not a win
  (`SeedExact` and `CountsExact` state each).
* The log line is meant to carry the user id; the logger reads the outer context,
  where it never is (`logger.go:56-61`), so `Log` writes none.
* The OpenAPI file has 503 for a degraded health check and 400 for a rating outside
  1 to 5; the code answers 200 and, from the table's CHECK, 500.

## 6. Plan

Done: every component that keeps or changes state, the composition of write path and worker,
two abstract specifications with their refinements, and proofs of every safety property the
runs check.

What is left are the parts section 5 names. Liveness stays with TLC (section 4).
