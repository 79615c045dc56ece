# metric-sherlock in TLA+

metric-sherlock scrapes the metrics of the services it discovers, checks them
against limits, stores a report per target group and announces violations on a
Kafka topic. It runs as several identical replicas (three in
`.deploy/docker-compose.yml`) over one Postgres, one etcd and one Kafka. This
directory models the parts of the program where replicas, goroutines, storage
calls and crashes meet, model-checks them on small instances with TLC and proves
the most important results for all instances with TLAPS.

## The system

| Part | State | Operations | Talks to |
|---|---|---|---|
| Producer job (`internal/scrapetask/producer_job.go`) | none | `Work`: discover targets, clean up, insert tasks | task table; run by the cron |
| Task table (`internal/storage/postgres/scrape_task.go`) | `scrape_tasks` rows: pending, running, complete, error | `SaveScrapeTasks`, `GetScrapeTasks`, `UpdateTaskStatuses` | every replica |
| Worker pool (`internal/scraper/worker_pool.go`) | `jobs`, `results` channels, workers | `Submit`, `worker`, `Stop` | consumer |
| Task consumer (`internal/scraper/task_consumer.go`) | leader flag, stop channel, three batches | `Run` (select over stop, results, flush ticker, task ticker), `Stop`, `SetLeader` | pool, task table, reports, target groups |
| Reports and outbox (`internal/storage/postgres/reports.go`, `outbox.go`) | `reports`, `outbox` rows | `SaveReports` (one transaction), lease, mark | consumer, relay |
| Target groups (`target_groups.go`, `target_groups_read.go`) | `target_groups` rows | `SaveOrUpdateTargetGroups`, `ListTargetGroups`, `GetTargetGroupByID` | consumer, HTTP API |
| Relay (`internal/outbox/relay.go`) | the batch it holds | `flush`: lease, write to Kafka, mark | outbox, Kafka |
| Leader election (`internal/leaderelection`, `cmd/main.go`) | registered callbacks | `onLeaderStart`, `onLeaderStop`, `Run` | consumer flag, cron |
| Settings and schedule (`internal/runtimeconfig`, `scheduler.go`, `pkg/cron`) | two etcd keys, the spec and the cron entry of each replica | `Bootstrap`, `Init`, `Sync`, `SetProduceTasksCronExpr`, `SetMetricLimits` | etcd, cron, HTTP API |
| Metric checks (`internal/scraper/processor.go`, `report.go`, `whitelist.go`) | none | `Process`: fetch, check, whitelist, report | targets, settings, whitelists |
| Whitelists (`internal/storage/postgres/whitelist.go`) | whitelist rows | upsert, delete, list, `GetEffectiveWhitelists` | HTTP API, processor |
| JWKS verifier (`pkg/jwtclaims`) | key cache with a TTL | `ParseAndValidate`, `refreshJWKS` | identity provider |
| HTTP API (`internal/httpapi`) | none | `authMiddleware`, requests | verifier, storage, settings |

What is hard here: rows claimed and leased by several replicas at once; three
saves of one flush that fail, or commit and report an error, or fail and report
none, independently of each other; a process that dies between any two of its steps; leases that run
out under a slow relay; one goroutine that both feeds the pool and drains it;
callbacks that run as goroutines and are registered while the elector already
runs; settings read before a lock is taken and applied under it; whitelists read
by two queries while operators edit them; reports put together from answers in
any order, some of them missing; transactions of several replicas over the same
rows; refreshes of a key cache that overtake each other while keys rotate; targets
that never answer.

What makes each part correct: a task is worked on once and its status only moves
forward; no task, report or event gets lost without a crash, a shutdown, a lost
reply or an error that was dropped to blame; an event marked as sent has been sent, and duplicates and retries
stay within a budget; every event is settled in the end, and as long as `Run` does
not block in `Submit` (see Findings) every task is, and a shutdown completes; one replica produces, on the schedule the operator set; an alarm is
raised for exactly the checks the limits and whitelists in force ask for, leaves
with its report or not at all, and its cause can be seen through the API; a
request is served under a key the identity provider has published, and refused
for a reason.

## Modules

| Module | Models |
|---|---|
| `Service` | the constants the pipeline's modules share |
| `PgClaim` | `ORDER BY created_at LIMIT n FOR UPDATE SKIP LOCKED`: which rows a claim may return |
| `PgBatch` | `sendBatch`: how the chunked writes of the storage end, and what their caller is told |
| `Outbox` | the outbox table and all relays |
| `EventDelivery` | abstract: at-least-once delivery with a retry budget |
| `ScrapeTasks` | the task table, its cleanup and the producer job |
| `WorkerPool` | the pool of each replica |
| `TaskConsumer` | `Run` of each replica; composes `ScrapeTasks` and `WorkerPool` (EXTENDS) |
| `ScrapeOnce` | abstract: one claim and one verdict per task, and what may be stored of it |
| `Leadership` | `main` from line 259 on, both electors and the two callbacks |
| `Schedule` | the etcd settings, bootstrap, sync loop, requests and scheduler of each replica |
| `Checks` | one scrape: loading limits and whitelists, fetching, checking, report and events; the whitelist requests; what the API shows of a report |
| `Reports` | the transactions of `SaveReports`, the target groups, and the reads that join the two tables |
| `ReportStore` | abstract: reports are collected and saved a whole batch at a time |
| `JwksVerifier` | authentication of requests: the key cache, its refreshes and the checks of a token |
| `OutboxProofs`, `TaskConsumerProofs`, `LeadershipProofs`, `ScheduleProofs`, `ChecksProofs`, `ReportsProofs`, `JwksVerifierProofs` | theorems and proofs |
| `MCOutbox`, `MCTaskConsumer`, `MCLeadership`, `MCSchedule`, `MCChecks`, `MCReports`, `MCJwksVerifier` | instances for TLC |

### Outbox

`status`, `retryCount` and `expired` are the columns the SQL looks at (`expired`
stands for `updated_at < NOW() - 1 minute` of a row in processing); `batch` and
`mark` are the local variables of each relay's `flush`. A fetch is one statement and one
step, a Kafka write is a step, a mark is a step, so that crashes and other relays
come between any two of them. A storage call that reports an error may have
committed, and a failed write may have reached the broker. `reclaims` is history:
how often an expired lease was taken over.

The marks do not look at the row's status. `LeaseBound`, `SettledForGood` and
`RetryBudget` say exactly what this costs: nothing, as long as no lease runs out
under a relay that still works on the row; after that a late verdict may take
back the status of a settled row, and overrun the retry budget by at most one
failure per relay.

### ScrapeTasks, WorkerPool, TaskConsumer

A task is a row id; the payload is abstracted. `taskStatus` adds "absent" and
"deleted" to the statuses of the table. A result is a task and an error flag, a
report or a target group is the task it belongs to. The channel `jobs` is
unbuffered, so `Submit` is a rendezvous with an idle worker; `results` holds
`Workers` results. `Silent` are tasks with an address that takes the request and
never answers: `MetricsClient` has no timeout, so that `Process` returns for them
only when the pool's context is cancelled.

`pc` is the place of `Run`: in its select, between the leadership check and the
claim, in the submit loop, at one of the three saves, waiting for the pool, or
gone. Between the check of the leader flag and the claim the flag may change
(`SetLeader` is free). A save either is not due, succeeds and empties its batch,
or fails and keeps it, having committed or not. `SaveReports` is one transaction;
`SaveOrUpdateTargetGroups` and `SaveScrapeTasks` write chunk by chunk with
`sendBatch`. `PgBatch` says how a `sendBatch` ends. A deadlock is not among the
ends: the call repeats the batch until it ends otherwise (`postgres.go:83-91`), and
since nothing is committed by a batch that deadlocked, the repetitions are part of
one step. An error of a statement is returned. An error that surfaces only at the
end of the batch comes out of `Close` (`postgres.go:69`), which logs it and lets
the call return nil: nothing is committed and the caller empties its batch. The
tasks this happens to are in `dropped` (history). `lost` is history, too: tasks
whose only trace in memory went away with a crash, a shutdown or a lost reply. That
nothing else takes a task away (a full `results` channel makes a worker wait, not
give up) is `LossHasCause`.

`ReportBeforeStatus` says when "complete" may be trusted whatever crashes next:
until a storage call has failed or the verdict of a failed scrape is written. The
status batch that is saved then holds the same tasks as the report batch before it,
of whatever size they are, and the reports are saved first. With a failed
scrape the status batch is the longer one, is full first, and is saved while the
reports still wait (`task_consumer.go:151-165`).

`Run` may block in `Submit` for good (see Findings). `SubmitBlocked` describes that
state exactly: no idle worker, and every worker waits for a silent target or for
room in a full results channel. `EveryTaskSettles` and `StopCompletes` name it as
their exception, so that they hold for any number of tasks and workers; in
`consumer_live`, with one worker, the exception does occur.

`ImplementsScrapeOnce` is what a reader of the tables may rely on: the statuses,
the stored reports and the stored target groups behave as in `ScrapeOnce`, where
there are no replicas and no batches. A task is claimed once and settled once, and
an "error" never stands beside a report or a target group of the same task,
although status, report and group come from three batches that fail and are
repeated independently. What it leaves open is what the code leaves open: a report
may be stored before or after its status, and again, and after the row was
deleted.

The producer job of a replica does not overlap with its own previous run in the
model; runs of different replicas do (`Producers`), and the proofs hold for any
set of producers.

### Leadership

`boot` is the next line of `main`: start the elector, register `AddOnStart`,
register `AddOnStop`. `holder` is the etcd key, `believes` what the electors have
reported: a session may expire long before its owner notices. Each callback is a
goroutine of two steps (the flag, then the cron). `overlapped` and `missed` are
history: replicas whose callbacks ran at once, or whose role changed before the
callback was registered. The election library is not in the repository; it is
modelled from how `etcd_elector.go` uses it. `Local` are processes with the local
elector, which lead and scrape at the same time (`main.go:328`).

### Schedule

Every etcd call is a step. `ensureKey` is a Get and a Put; a request that sets the
schedule is a Get, a Put and an update of the scheduler; the sync loop is a Get and
an update. `Handlers` are the goroutines that serve such requests: nothing keeps
two of them from running at once, on one replica or on several.
`currentSpec` is the scheduler's field, `entry` what is in the cron. Cron
expressions are the trimmed texts that `cronExprParser` accepts. Keys are never
deleted (nothing calls `Delete`).

`UpdateSchedule` is three steps: the job leaves the cron (`RemoveTask`), comes back
under the new spec (`AddTask`), and the spec is remembered (`UpdateReturns`).
`updating` says how far the call of a sync loop or a handler has come; the mutex is
held (`Locked`) by whoever is between the steps. `AddTask` fails for two reasons: a
spec that does not parse, which cannot be, as the cron parses with the options of
`cronExprParser` (`cron.WithSeconds`), or a name that is taken, which would need a
second update half way. That the mutex excludes it is part of `ScheduleInStep`, so
that the rollbacks of `UpdateSchedule` and `SetProduceTasksCronExpr` are never taken
and have no steps. Without the lock TLC finds both a taken name and a remembered
spec that is not in the cron.

The scheduler's mutex is taken after the read of the sync loop and after the Put of
a request, so that the order in etcd and the order of the updates may differ.
`version`, `readVersion`, `entryVersion` and `overtaken` are history: which Put a
schedule came from, and who was about to apply one when another update of the same
replica went ahead. `RollbackNeedsRace` says that this race is the only way for a
running replica to go back to an older schedule, `SchedulesConverge` that the sync
loop repairs it.

### Checks

`pc` is how far `Process` has come. A response is a set of metric families and a
weight; `Measurements` is what `handleMetricFamily` measures of a family, one
element per check and subject (the metric, its label, or its label and value).
The code walks the families in the order of a Go map and the series in the order
of the response; the model takes families and measurements in any order. `max`,
`details`, `top` and `responseWeight` are the fields of `Report`; the five
`add*Violation` and `updateMax*` differ in the key and are one operator each.
`Details.Checks`, `Limits` and `Current` repeat `checks` and are left out.

The whitelist tables hold rows of several target groups and envs (`Scopes`, in
the order of the queries); an edit may come between any two steps of a scrape.
`task` are the labels of the scrape: an empty one is no filter, so that a scrape
config without the label gets the rules of every group or env, and of two rules
for one metric the later row (`Selected`, `MetricRules`). Rules that cannot be
loaded, because a query fails or a row does not parse, are replaced by none.
`answered`, `seen`, `versions` and `faulty` are history.

`toViolationStats`, `toCheckMetrics` and `toViolationDetails` are what
`GetTargetGroup` makes of the saved report. An event is computed from the check
results, the API shows lists, maxima and the weight, which are kept separately;
`AlarmsAreShown` relates the two.

What the properties say that a reader of the code may not expect: a metric with a
custom limit never raises an event, not even over its custom limit (its violation
counts as whitelisted, `processor.go:236`), and never hides that of another
metric. A check can report a value over the limit without being violated (a
whitelisted metric below its custom limit), but an event never does the opposite:
its value is over its limit.

### Reports

In `TaskConsumer` a save of reports is one step; here it is the transaction it is
in the code: `Begin`, one upsert per report in the order of the batch (`Exec`),
each locking its row, and `Commit`. Two replicas that scraped the same groups wait
for each other's rows, in a circle if their batches are in opposite order;
Postgres then ends one of the transactions. A failure at any statement runs the
deferred `Rollback` and keeps the batch, a failed `Commit` may have taken effect,
and a report in `Refused` fails every transaction that comes to it. `outbox` are the
reports whose events were committed; how the relays handle them is in `Outbox`.
`SaveOrUpdateTargetGroups` is one step per chunk, each a `sendBatch` that may end in
any of the ways of `PgBatch`; groups that only seemed to be saved are in `dropped`
(history). Between two flushes `Run` may be in `Submit` (stage "submit"): whether it
comes back is up to the pool, which is in `TaskConsumer`, and here left open.
`ListTargetGroups` is the join the API reads. A replica that is stopped flushes
once more, as on a tick, and forgets what that did not save, as in a crash.

`NewestOfItsReplica` is what the upsert by target group does guarantee: a retry
brings back no old report of the same replica. Between replicas the report
committed last stays, whichever was scraped last; nothing in the row could tell.

`ImplementsStore` relates the transactions to `ReportStore`, in which a save is one
step: of every group the last report of the batch, all events, or nothing. It is
what allows `TaskConsumer` to take `SaveReports` as one step that commits or not.

### JwksVerifier

A request is a goroutine: a lookup under the read lock, a fetch without a lock, an
answer that replaces the cache under the write lock, a second lookup, then
signature and claims. Time is discrete; a fetch takes at most `HTTPWait` (the
client's timeout), and the deadline of a request's own context may end it at any
time. `Rotate` is the identity provider, which may publish any of `Documents`.
`parseJWKS` skips what the code skips and lets a later entry replace an earlier
one with the same kid. A token verifies under the key that signed it, and only
under that. `version`, `lastSeen`, `resolves`, `foundAt` and `overtaken` are
history.

The cache is not guarded against an older answer that arrives last. The properties
say what this costs: the cache goes back (`RollbackNeedsOverlap`), but an answer
cannot be older than `HTTPWait`, so that a withdrawn key is still used for
`HTTPWait + CacheTTL` at most (`KeysAreTimely`); and a request whose key was
fetched may find it gone at the second lookup (`RefusedForAReason`).

## Runs

| Run | Instance | Shows |
|---|---|---|
| `outbox` | 2 relays, 2 rows, batch 2, 2 retries, 2 faults, 1 early expiry, fair | `SentWasDelivered`, `RetryBudget`, `LeaseBound`, `DuplicateBound`, refinement of `EventDelivery`, `SettledForGood`, `EventuallySettled` |
| `consumer_safety` | 2 replicas, 2 tasks, 1 worker, batches of 2, chunks of 1, the cleanup due after one tick, a failing call, an outage | `ClaimExclusive`, `RunningIsAccounted`, `CompleteIsAccounted`, `SavesBounded`, `LossHasCause`, `ReportBeforeStatus`, `StatusLifecycle`, refinement of `ScrapeOnce` |
| `consumer_live` | 1 replica, electable, 1 worker, 3 tasks, one of them of a silent target, a failing call, an outage, fair | `EveryTaskSettles`, `StopCompletes` |
| `consumer_replicas_live` | 2 replicas, both electable, 2 workers, 2 tasks, one of them of a silent target, fair | `EveryTaskSettles` |
| `consumer_submit` | 1 replica, 3 tasks, 1 worker, fair | **violation** of `SubmitReturns` |
| `leader_election` | 2 deployed replicas, 1 local, 2 elections, a crash, fair | `RoleFollowsElection`, `SettlesOnOneProducer` |
| `leader_registration` | 1 local process, fair | **violation** of `LeaderStartsCron` |
| `checks` | 2 addresses, 2 responses, 2 metrics, 2 groups, 2 edits | `ReportIsExact`, `AlarmsAreExact`, `AlarmsAreShown`, `RulesWereInForce` |
| `reports` | 2 replicas, 2 groups, batches of 2, one report refused, 2 scrapes each, a fault or crash, fair | `ReadsAreComplete`, `NewestOfItsReplica`, `EventsFollowReports`, `GrowsOnlyByFailure`, refinement of `ReportStore`, `BatchesAreSaved` |
| `auth` | 2 requests, 3 key sets, 4 tokens, 2 rotations, time up to 3 | `KeysAreTimely`, `RollbackNeedsOverlap`, `RefusedForAReason` |
| `schedule` | 2 replicas, 2 specs, 2 limits, 2 updates that may be under way at once, a failing call, a restart | `ScheduleInStep`, `DefaultsOnlyAtFirstStart`, `RollbackNeedsRace` |
| `schedule_live` | 2 replicas, 2 specs, 2 updates that may be under way at once, a failing call, fair | `SchedulesConverge` |

`outbox`, `consumer_safety` and `reports` also check the type invariant; that of the
other modules is only proved (`TypeCorrect`). Deadlock
checking is on in `checks` and `auth`, where a worker or a request always has a
next step, and off in the other runs: their behaviours end when the bounded inputs (tasks, events,
elections, updates) are used up, which is where the system waits for more.

Bounds. Nearly every property is about one row, task or key and the actors around it, so
two actors and two or three rows give every pair of interleavings and one more
row to fill a batch. `BatchSize`, `Workers`, `RowsPerBatch` and `TasksPerRequest`
are scaled down together so that batches fill up, chunks split and the results
channel overflows. Faults, outages, early expiries, elections, updates and
restarts are bounded by one or two. In `checks` the two responses share a metric
with different cardinalities, its series have different bucket counts, and the
custom limits lie below, at and above the limits in use, so that every comparison
has both outcomes; two edits fit between the two queries, and tasks come with and
without the label that tells the two groups apart. In `reports` two reports per
replica are a full batch in either order of the groups, enough for a deadlock, and
the refused report is the first of one replica's, so that the other can be held up
by it. `schedule_live` leaves out restarts to stay small: after one a replica
bootstraps and syncs as it does at its first start, which is in the run. In
`consumer_safety` two tasks fill a batch and make two chunks, so that one chunk may
be saved and the other not, and a failed scrape beside a successful one fills the
status batch first. In `auth` cache TTL, fetch timeout and clock skew are 1: the cache expires
under waiting requests, a fetch can outlive it, and with two rotations a key is withdrawn, its kid
reused and the key set changed back. The proofs lift all of
these bounds for the safety properties.

Fairness. Calls return and goroutines run (weak fairness); tickers keep firing
and `ctx` is never cancelled. Go's select picks at random among ready cases, so a
case that is ready again and again is taken in the end (strong fairness for the
cases of `TaskConsumer.Run`). Docker restarts a replica that exits. A lease that
nobody holds runs out, the session of a dead process expires; a session kept alive
need not. Nothing is assumed about inputs, faults and crashes.
A target need not answer: for the tasks in `Silent` nothing is assumed, and
`EveryTaskSettles` is claimed for the others, unless the replica that has the task
is `SubmitBlocked` or again and again no replica is free to claim.
In `reports`, Postgres queues those who wait for a row, so that a statement whose
row is given back again and again gets it (strong fairness for `Exec`). Nothing is
assumed about `Submit` there: `BatchesAreSaved` excuses a replica that never comes
back from it, and says that it is in no other replica's way.

### Findings

`consumer_submit`: `Run` submits with a blocking `Submit` from the goroutine that
reads the results. With `2 * Workers` tasks between the two channels, every worker
blocks on the full `results` and the next `Submit` never returns; the replica does
not see its stop channel either. In the code `tasksPerRequest` is 10 and the pool
has 5 workers, so one claim just fits, and a second claim before the results of
the first are read does not (the task ticker may be ready together with the
results, and select picks any). The benchmark of the pool reads the results from
a goroutine of its own.

`leader_registration`: `main` starts the elector before it registers the
callbacks. An elector that reports leadership first finds no callback, and the
cron of that leader never starts. `LocalElector.Run` returns at once, so the
window is that of two goroutines being scheduled.

An observation without a run of its own, as nothing in the repository says
otherwise: `sendBatch` drops the error of `Close`. If a batch of target groups fails
at its end, the groups are in no table and in no batch until their next scrape, and
their reports, which are stored, cannot be seen through the API meanwhile.
`CompleteIsAccounted` and `ReadsAreComplete` name it as an exception (`dropped`).

## Proofs

All theorems hold for any finite set of replicas or relays, any tasks, events,
specs, batch sizes, pool sizes and bounds allowed by the `ASSUME` of the module.

* `OutboxProofs`. `DuplicateBound` and `LeaseBound` are not inductive: the
  invariant adds up, per row, deliveries, holders and verdicts still to come, and
  ties them to `retryCount` and `reclaims`. From it follow `SentIsDelivered`,
  `RetriesAreBudgeted`, `LeasesAreBounded`, `DuplicatesAreBounded`,
  `SettledStaysSettled` and `OutboxImplementsDelivery` (initial states map to
  initial states, every step to a step of `EventDelivery` or a stutter).
* `TaskConsumerProofs`. The invariant says where a task can be, by its status:
  a task in hand is running, or deleted by the cleanup, or has its verdict
  written with the reply lost; an empty queue is what `Run` has outside its
  submit loop. From it follow `ClaimsAreExclusive`, `RunningTasksAreAccounted`,
  `CompleteTasksAreAccounted`, `ReportSavesAreBounded` and `StatusesMoveForward`.
  For `ReportsBeforeStatuses`, as long as no call and no scrape has failed (`Quiet`)
  the successes in the status batch of a replica are its report batch between two
  flushes (`SameBatch`). Without failures among them one is full when the other is,
  so that a flush that comes to the statuses has saved the reports (`FlushFirst`);
  with a failure among them the save of the statuses ends `Quiet`; counting the batches needs that
  they are finite (`BatchesFinite`). For `LossesHaveCauses` a replica is stopping, cancelled
  or gone only after an outage (`StoppedInv`). For `PipelineImplementsScrapeOnce` a
  task is traced once a report or target group of it is in a table or a batch:
  traced tasks are running, complete or deleted, and no raw task, unread result or
  failed status has a trace (`OutcomeInv`). With it a claim maps to `Claim`, a save
  of statuses to `Settle`, the saves of reports and groups to `Report` and
  `StoreGroups`, the cleanup and the insert to `Delete` and `Insert`, and every
  other step to a stutter; that no status is settled twice comes from the first
  invariant.
* `LeadershipProofs`. `RoleFollowsElection` says nothing while a callback runs;
  the invariant describes the two intermediate states (`InTransition`). From it
  follows `RolesFollowElection`.
* `ScheduleProofs`. Once a key exists, the stale puts so far and the replicas
  still about to write it are together fewer than the replicas (`PutsLeft`); it
  needs that whoever is past the bootstrap of a key has seen it (`KeysExist`).
  From it follow `TypeCorrect` and `DefaultsAreBounded`. For `SchedulesAreInStep`, at
  most one update of a replica is under way, and while it is, the cron is empty or
  has the spec about to be remembered (`LockInv`). For `RollbacksNeedRaces`, whoever is about to apply a schedule is overtaken or holds
  one no older than that in the cron (`RaceInv`).
* `ChecksProofs`. The report is exact for what has been measured so far
  (`ReportInv`, with one lemma for a violation added to an exact list), and what
  the responses hold is measured or still in hand (`Coverage`); together they give
  `ReportsAreExact`. With the largest weight (`WeightInv`) and the results as
  functions of the report (`ResultInv`) they give `AlarmsAreRight`. For
  `RulesAreInForce` the states of the tables between the queries form a chain in
  which neighbours differ in one table, and stored rows can be read (`RulesInv`);
  of several rows for a metric there is a last one (by well-foundedness). For
  `AlarmsAreVisible` the lists are finite and the weight shown is the largest
  one when that is over the limit (`ShownInv`).
* `ReportsProofs`. A batch holds the reports of its replica in the order of their
  scrapes and of each group the latest (`BatchOrdered`); an open transaction has
  written, of every group it has come past, a report of the batch no older than
  those (`WrittenIsNewest`). With them a commit writes newest rows
  (`NewestReports`). For `CompleteReads` the two batches of a replica know of the
  same groups as far as the tables do not (`BatchesPair`), and the chunks a call has
  sent are in the table or dropped (`ChunksSent`). For `EventsAreAtomic` a
  report in the outbox is still in its replica's batch or older than all of it
  (`EventsPast`). For `ReportsImplementStore` a transaction has come past no refused
  report (`PastIsTaken`), and what it has written when it commits is of every group
  the last report of the batch; a commit then maps to `Save` of `ReportStore`,
  `ReceiveResult` to `Collect`, a crash to `Forget` and every statement before the
  commit to a stutter.
* `JwksVerifierProofs`. Every key in the cache, in an answer or in the hands of a
  request carries the date of its publication (`AnswerFresh`, `CacheFresh`,
  `FoundFresh`) and every key that was published throughout is in them
  (`AnswerKnows`, `CacheKnows`, `FoundKnows`). From these follow `TimelyKeys`,
  `Refusals` and, with the versions of key sets (`Versions`), `Rollback`.

Only model-checked: everything under fairness (`EventuallySettled`,
`EveryTaskSettles`, `StopCompletes`, `SettlesOnOneProducer`, `SchedulesConverge`,
`BatchesAreSaved`), which is out of the prover's reach. Every other property of a
passing run is a theorem.

## Not modelled

* Generated protobuf and gateway code, the document generator and the swagger
  pages of `http.go`: no state and no decisions of this program.
* Migrations (schema only: the keys the upserts rely on are in the modules of the
  tables), configuration and secrets (pure I/O).
* The read requests of whitelists and settings, the filter by team and the order
  of the list of target groups: they change nothing and nothing depends on them.
  The API's fallback for reports stored before check results existed is not
  reachable for reports of this version.
* `RequireAnyRole` and the role checks of `claims.go`: no route uses them.
* The int32 counts of the API: lists long enough to overflow them do not fit the
  memory of a process.
* One deployment of all modules at once. The modules meet in steps each of them
  leaves free: `SetLeader` and the producing replicas of `TaskConsumer` may do
  what `Leadership` and `Schedule` let them do and more, the events `Outbox`
  starts from are those `Reports` commits in any order and number, and the reports of
  `Reports` are what `Checks` makes, whatever is in them. A property of one module
  holds of the deployment because the module does not restrict its surroundings.
* RS256, the text format parser, the election library, Postgres, etcd and Kafka
  are taken by what the code relies on.
