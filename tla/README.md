# TLA+ models of LLMIngress

LLMIngress is an LLM gateway: **gateway** processes route requests to providers, **worker**
processes run jobs and maintenance, a **console** edits the configuration, and PostgreSQL is
everything they share. No process talks to another except through its tables and through two
`NOTIFY` channels (`job_created`, `config_changed`). What is hard about the system therefore
happens between transactions: leases that expire under a live holder, answers that are lost
after a commit, clocks that differ, snapshots that are stale when used.

`PROJECT.json` maps each definition to the lines it models and lists the runs, the mutants,
the hazards and the theorems.

## Inventory

| Component | State | Operations | Hard behaviour | What makes it correct |
|---|---|---|---|---|
| Job queue, `worker-job-runner.ts`, `provider-jobs.ts` | `jobs`, `job_attempts`; a worker's active run and renewal | enqueue, hasten, cancel, claim with recovery, renew, complete, cancel, fail, stop | expired leases, lost answers, shared `WORKER_ID`, clock skew, crashes | stale attempts change nothing; ledger and job agree; retry budget; every job settles |
| Worker wake-up, `wake`, `createResilientJobCreatedSubscription` | the timer and its delay, `wakeRequested`; listener sessions | start, wake, claim, connect, LISTEN, lose, reconnect, stop | wakes during an iteration, an iteration that throws, late `end` events, the gap before LISTEN | due jobs are taken, at once when the worker hears of them |
| Connection health, `provider-health.ts`, `worker-provider-connection-probe.ts` | `provider_health_summary`, `provider_health_events`, probe jobs | record a result, schedule, clear, console edits, re-check | probes of edited or disabled connections, retried jobs, two-transaction edits | the verdict is about what is configured now; a connection that works routes again |
| API key limits, `gateway-api-key-limits.ts`, `worker-stale-concurrency.ts` | `rate_limit_windows`, `budget_periods`; leases in gateway memory | admit, release, settle, repair | double release, leaked leases, repair of held ones, minute and period turns | counts agree with requests; limits hold; leaks are repaired |
| Configuration, `config-versions.ts`, `gateway-config-reload.ts` | `config_versions`, configuration tables; a gateway's snapshot, load and trailing request | publish, notify, load, reload, reconcile, start, stop | loads that race with edits, missed notifications, failed loads, opposite lock orders | label never ahead of content; nothing heard is lost; catches up |
| Routing strategies, `packages/domain`, `gateway-virtual-model-capabilities.ts` | none | contract, check, six strategies | draws at a weight's boundary, unknown prices, cold candidates, tags without a default | the chain follows its strategy; what was accepted fits |
| Fallback chain and circuit breaker, `gateway-fallback-chain.ts`, `gateway-circuit-breaker.ts` | a breaker per connection | filter, credentials, attempt, retry, decide, answer | requests that share a half-open breaker, failures that end the chain or only the candidate | the attempts explain the answer; an open breaker closes again |
| Provider credentials and OAuth, `gateway-provider-credentials.ts`, `console-provider-oauth.ts`, the workers' refreshes | `provider_oauth`, the row's lock, `provider_quota_summary` | authorize, edit, revoke, delete, four refreshes | a call upstream inside a transaction that rolls back, refreshes without the lock, two tabs | no rotated token is lost; deletion leaves no row behind |
| Route latency, `gateway-route-latency.ts` | samples in memory, `route_latency_stats` | seed, record, flush, stop | a failed flush beside new samples, a flush in flight at the stop | no sample is lost by a flush |
| Streaming, `gateway-streaming.ts`, `gateway-stream-pipeline.ts`, `gateway-usage-collector.ts` | source, output, client, collector | call, read ahead, pipe, collect, settle | chunks cut anywhere, a source, output or client that fails, stalls or leaves first | recorded once, as what happened; every stream ends |
| Request recording and shutdown, `gateway-auth.ts`, `request-recording.ts`, `gateway-activity-recorder.ts`, `main.ts` | request, background tasks, `request_activity`, costs | authorize, refuse, attempt, answer, record, drain | keys edited on the way, tasks that leave tasks, drain timeout, a request id used twice | rows are true; a clean exit leaves nothing behind but what clients that had left still ran |
| Maintenance and retention, `worker-maintenance-scheduler.ts`, `worker-retention-cleanup.ts` | `lastStartedAt`, advisory locks, expired rows | tick, lock, run, batch, stop | several workers, lost lock sessions, failed tasks | one runner at a time; the tasks are done |
| Configured catalog: console CRUD, `worker-model-refresh.ts`, `worker-price-sync.ts` | providers, models, virtual models, policies, keys, the plan of a refresh | create, edit, delete, override, refresh, sync | a refresh planned before and written after an edit, deletions beside references | references hold; routes change publicly |
| Public catalogs, `price-source.ts`, model lists | cache, registry, prices | fetch, join, parse, enrich, price | joined fetches, kept payloads, catalogs that disagree, names under other prefixes | metadata is stated, not guessed; only fresh payloads or a failed fetch |
| Quota probes, `worker-provider-quota-probe.ts`, `quota-probe.ts` | `provider_quota_summary`, quota jobs | scan, enqueue, run, parse, persist | switches between the steps, lost runs, ten ways to state what is left | what is shown is what the provider meant, whatever its dialect; a due summary is asked again |
| Adapters, billing arithmetic, configuration parsing, UI, migrations | none shared | translation, rendering | little beyond single calls | not modelled, see below |

A request meets them in this order: `RequestRecord` (authorization), `RouteSelection` (its
chain, with the samples of `RouteLatency`), `ApiKeyLimits` (admission), `FallbackChain` (attempts,
with the credentials of `OAuthConnection` and the verdicts of `ConnectionHealth`),
`StreamPipeline` if it streams, `ApiKeyLimits` again (release, cost) and `RequestRecord`
(activity). The snapshot it is routed by comes from `ConfigReload`, its content from `Catalog` and
`ModelCatalogs`. Jobs are rows of `JobQueue`, looked for when `JobWake` says; `Maintenance`
starts the repair of `ApiKeyLimits` and the scan of `QuotaProbe`.

## Modules

Each component is a module with every process that touches it. Where one module stops at
another's door, the other appears as a choice over what it may do (a status, a cut, a failure), so
that each module is checked against more than its neighbour would do. `Services` and `Records` compose
components that share no state: one variable chooses the component that runs in a behaviour while the
others stay where they begin, since a product of components without common state would only interleave
them. `Services` has `FallbackChain`, `StreamPipeline`, `JobWake`, `Maintenance` and `QuotaProbe`;
`Records` has `RouteSelection`, `RouteLatency`, `OAuthConnection`, `Catalog`, `RequestRecord` and
`ModelCatalogs`. `MC*` modules give the constants finite values for TLC.

### JobQueue

A **record of `jobs`** is a row of table `jobs`, `attempts[j][n]` the row of `job_attempts`,
`run[p]` the locals of `runNextJob` and of its lease renewal in process `p`. Each store call is
one transaction and so one action, together with the clock reading the process took *before*
the call: a reading is the process' skew less the time the call has taken (`lag`), so a slow
call compares an old time with the lease. Times are relative to the present and `Tick` lowers
them, which keeps the state space finite without a horizon.

- `Claim` is `claimNextJob`: recovery of expired jobs, skipping locked rows, then the claim, in
  one transaction. `answered = FALSE` is a commit whose answer is lost.
- `BeginRenew`, `RenewCommits`, `RenewFails` are `startLeaseRenewal`, which runs beside the
  handler and may abort the run. `HandlerEnds` makes the store call to come; `SettleCommits`
  and `SettleFails` are `completeJob`, `cancelJob`, `failJob`, with the catch block that turns a
  lost completion into a failure.
- `Shutdown`, `GraceElapses`, `Exit`, `Crash`, `Restart` are the process' life.
- `Enqueue`, `Hasten`, `CancelPending` are the other clients of the table.

Abstracted: payloads, results (only *which attempt* wrote one), error codes and the growth of the
backoff.

### ApiKeyLimits

One key, its concurrency window (`active`, and `quiet`, the age of `updated_at`), its minute
windows (`rates`), its budget periods (`spent`) and its requests. `CheckBudget` and `CountRates`
are the two halves of the admission's transaction: the first reads the budget, the second
evaluates and increments the rate windows. The second is one step because the windows are locked
in a fixed order. If the period has a budget row, it stays locked between the halves; a period
that has none yet has nothing to lock, and admissions overlap.
`JsonAnswer` and `StreamAnswer` are the two request paths: a JSON request releases in `finally`;
a stream hands its lease to the pipeline, releases it when every provider fails, or releases in
`catch`. `Crash` is also the shutdown whose drain timed out. The worker's repair is one statement in
three actions: `ReconcileReads` is its snapshot, in which it finds the row quiet and its count wrong;
`ReconcileWrites` its update, once no transaction holds the row, which under READ COMMITTED compares
the count again and not the quiet; `ReconcileFails` its error. Requests are admitted and leases
returned in between. `Started` is the set of requests whose activity row is `started`, which is empty
because nothing writes one, so the repair always writes 0. `uncounted`, which no code has, numbers the
leases that a second release or a repair took from the count while they were held (`AtRisk` names
the repair's: those admitted behind its snapshot and those as old as the quiet period). Ages and
transactions count in minutes: `updated_at` is the time at which a transaction began, so a row may be
up to `MaxWait` minutes quiet when it is committed. `SwitchLimits` is the operator's switch: a request is limited by the rules it read
(`limited`), and what it holds it returns whatever the rules are by then.

### ConnectionHealth

One connection: the rows an edit touches (`config`), the verdict with the base URL and credential
it was reached for, the probe jobs with the number of events each recorded, and the handler runs.
The job table appears as its rules (`Claim`, `Holds`, `GivenUp`, `LoseLease`) so that an attempt
can run beside its retry. `Read`, `Judge`, `Persist`, `Report` are the steps of the probe handler
between its awaits; `Read` is one step for the two reads of provider and credential, since what is
edited between them makes the probe stale either way. `ReadFails` is the read that throws, after
which the probe reports a failure of a credential it does not know (`blind` in the verdict). `Persist`
compares the snapshot, or the provider alone when there is none of the credential, and records in one
transaction. `EditAndClear`,
`Rename`, `SaveSettings` are the console's transactions and `FollowUp` the second one a route
handler makes, which a stopping console loses. The gateway's cached set of unhealthy connections
is a `GatewayFailure` that may come at any time.

### ConfigReload

`Writers` are transactions that edit the configuration. Each takes its locks in its own order (a
console edit: the publisher's advisory lock, then the provider's row; a model refresh the other
way round), inserts a version when it publishes, and commits; the notification leaves at commit.
A load is three queries in autocommit, so edits commit between them. `runReload`,
`mergeTrailingReload`, `shouldSkipReload`, `performReload` are the functions of the same names.
A table's content is the set of writers whose edit it shows, a version number counts the
published ones.

### RouteSelection

The pure part of a request's way: `Contract` and `Fits` are the capability contract of a virtual
model and the check of a request, `Ordered` the six strategies of `packages/domain`. A call of
`random()` is one of `Grain` equal parts, so a draw at a boundary is in the model, and properties may
count draws: `Split` counts those that put a candidate first, or make an order. `GrainAssumption` makes every share a whole
number of draws (the parts of the program's `random()` are so many that its shares are exact but for
a rounding). `Answer` is the order in which the gateway looks and refuses.

### FallbackChain

`callers[r]` is a request with its plan (the candidates its face can serve, their connections),
what is left of it and its attempts; `breakers[c]` is the shared breaker of a connection. `Only` keeps
of a chain what can serve, in its order. `Attach`
and `Execute` are apart because the skip check and the call that the breaker counts are apart. The
four `...Returns` actions are the four executors: OpenAI and Anthropic faces, subscription
adapters, and the first byte of a stream. The policy inside the breaker is a library's and
external.

### StreamPipeline

Bytes are tokens, the two halves of an event's data line, CR and LF, that the provider cuts into
chunks anywhere. `Connect`, `Called` are the calls up to the first byte; `Piped` and `Reader` move
the readahead source, the `PassThrough` and its client; `collector` is the buffer and the usage of
the collector. `recorded` and `released` count what is settled.

### RequestRecord

`calls` are requests from `Submit` to an answer, `tasks` the background registry, `rows` what they
write. The two reads of the key are two steps; every database error that is logged and dropped
marks the request as `lost`. `ExhaustedUnreleased` is the release of an exhausted stream that throws;
the catch block's own release follows, which is answered (`ReleasedAgain`) or throws out of the handler
(`UnreleasedAgain`), and then nothing is recorded. `Shutdown`, `Closed`, `AwaitAgain`, `DrainEnds`,
`DrainTimesOut`, `ExitStopped` are the shutdown of `main.ts` with the rounds of `drain`. While it
awaits the latency statistics and the end of the pools (`stopping`), the handlers of clients that
left, which nothing waits for, go on; `behind` names the requests that the drain left so.

### RouteLatency, Maintenance, JobWake

`RouteLatency`: per gateway, the statistics in memory, the keys that are dirty and the flush under
way; a sample is its count. Handlers record in every phase of `stop()`; `late` names the keys recorded
after its second flush was called. `Maintenance`: per worker, the tick, its queue of tasks, the session
that holds an advisory lock and the three tables the cleanup empties. `JobWake`: the runner's
timer with its three delays (`now`, `backoff`, `poll`), and the sessions of the subscription with
the events a lost one still emits.

### OAuthConnection

One row, its lock, the provider (`idp`: the refresh tokens it accepts, whether it rotates them),
two flows of authorization polled from console pages, the gateways' refresh that holds the row's lock across
the call, and the workers' refreshes, which hold no lock and write with a comparison of the ciphertext.
`excused` records that an operator, a crash or a write that failed lost a token.

### Catalog, ModelCatalogs, QuotaProbe

`Catalog` is what an operator edits, one action per transaction of the console, beside the refresh
(`ReadForRefresh`, `PlanRefresh`, `ApplyRefresh`, apart because the code reads, locks, plans and
writes) and the price sync. `published` says whether the last step inserted a version.
`ModelCatalogs` is what the refresh and the price sync learn: the cache with joined fetches,
parsers, aliases and prefixes, the registry and its precedence. `QuotaProbe` is the scan, the job
and the probe of one connection in each dialect, with the two kinds of edit beside them:
`SwitchEnabled` only switches, `SaveQuotaSettings` also makes the summary due when it saves the probe as
on.

## Runs

| Run | Instance | What it shows |
|---|---|---|
| `JobQueue_workers` | 1 job, 2 attempts, 2 workers with one `WORKER_ID`, skew 1, lease 1 tick, lag 1, 1 stop | fencing, the ledger; the job settles; implements `JobLifecycle` |
| `ApiKeyLimits_leases` | 3 requests on 2 gateways, 5 limits, 2 minutes, each a budget period, transactions and repairs of 1 minute, 1 lost answer, crash or switch of the limits | counts, limits and costs agree with requests, leaks are repaired |
| `ConnectionHealth_safety` | 2 probe jobs, 2 attempts, 2 edits, 2 disruptions, of every kind | verdicts are current, events single, a disabled connection is not blamed; probes that read nothing aside |
| `ConnectionHealth_recovery` | 2 failures, 1 edit, 1 throw or unreadable credential | probing goes on until recovery |
| `ConfigReload_reload` | 3 writers, 1 fault, restarts | reloads lose nothing and catch up |
| `Services` | one of: chain, stream, wake, keepers, quota | answers explained, streams end and are recorded as what happened, breakers heal, jobs taken, tasks and quotas kept |
| `Records` | one of: selection, latency, OAuth, catalog, requests, prices | chains follow their strategy, no sample or token lost, references hold, rows are true, catalogs heeded, routes change publicly |

Five further runs each expect one violation, of something the documentation, a comment or a test says:
`ApiKeyLimits_longstream` (the repair takes a long stream's lease), `ConnectionHealth_rename`
(renaming a provider ends the probing of an unhealthy connection), `ConnectionHealth_unread` (a probe
that could not read its connection blames it although it was edited or disabled meanwhile),
`OAuthConnection_resourceurl` (a worker's refresh drops the stored `resource_url`), `Catalog_manual` (a
refresh writes over an override made since it planned). `PROJECT.json` gives each with the line of
code and the line of the document.

The passing runs contain these weaknesses where they meet other behaviour, and say by how much a promise
is missed: `CountCoversLeases` and `ConcurrencyEnforced` allow for the leases in `uncounted`,
and `VerdictIsCurrent` and `DisabledIsNotBlamed` for a verdict that is `blind`. Three more show in the
models. A repair that waits for a row overwrites the admission it waited for, which needs no long
stream (`late` in `AtRisk`; without it `CountCoversLeases` is violated). A release whose answer is lost is
made twice and may return another request's lease. And a budget is no ceiling for requests
under way together; no document promises that it is, and no property states it.

`Services` and `Records` do not check for deadlock: a behaviour of theirs ends when its bounds are
used up, a stream has been recorded or a worker has stopped; that something must still happen is said by
their liveness properties. The same holds of the two violation runs of `Catalog` and
`OAuthConnection`. All other runs check it.

### Why the bounds are enough

- `JobQueue`: two workers with one id and different clocks are the smallest system in which a stale
  attempt, its replacement and an early or late clock meet. `MaxLag` 1 lets a reading be on either
  side of a lease's end. One job: the theorems hold for any number.
- `ApiKeyLimits`: two requests fill a limit of two and the third meets it; two gateways give one
  crash a survivor; two minutes contain a turn, which is also one of the budget's period (that several minutes
  share a period is in the theorems, for any `PeriodMinutes`). A lease lives at most `MaxLife` = 1 minute, the quiet period is two, and a
  transaction or a repair may wait `MaxWait` = 1 minute, so a repair can meet a lease that was admitted
  behind its snapshot and one that is as old as a wait makes the row quiet. Longer leases are in
  `ApiKeyLimits_longstream` (`MaxLife` = 3, `MaxWait` = 0, so that the length of the stream alone is to blame),
  and any in the theorems. One fault is one crash, one lost answer or one failed call; any number is in the theorems.
- `ConnectionHealth`: two probe jobs are a running one and the scheduled or manual one beside it. A
  settled job's id is used again, so the number of jobs in a behaviour is not bounded. `MaxFailures`
  is 1 in the safety run, where only "unhealthy or not" matters, and 2 in the recovery run. The recovery run
  allows only edits that clear the verdict, a credential that cannot be read and a handler that
  throws with an attempt left: with a rename, a token refresh, an inconclusive probe, a lost lease or a lost completion
  the chain of probes can end, as `ConnectionHealth_rename` shows for the first.
- `ConfigReload`: three writers are one of each kind the code has; two of them close the cycle of
  locks. One fault is one failed load, failed write or deaf listener anywhere.
- `Services`: a chain of two candidates of which one has two connections and both share one, so
  that a breaker opened by the first stands before the second; one retry and a breaker that needs
  two samples, so that it can open between two tries of one attempt; requests follow each other
  without bound, one at a time (requests that meet one breaker together are in the theorems, and
  `BreakerHeals` says nothing of them). Four bodies with and without usage, both line ends, an output that
  fills before the body ends, two calls. Two jobs and two sessions: one that backs off beside one
  that is due, a lost session beside its successor. Two schedulers, one batch of expired rows per table, one
  trouble. Ten dialects, parts of two (nothing, half and all used), one retry, one fault.
- `Records`: ten policies that use every strategy, three candidates, three draws (two order three
  candidates, the third may not be drawn) of six parts, which halves, thirds and the totals of the weights divide exactly (`GrainAssumption`). Two
  sample keys with counts to three and two failed flushes: a failure, new samples, and the failure of
  the flush of `stop()`. One gateway, since gateways overwrite each other's averages by design. One refreshing
  gateway, a quota probe and a model refresh of one token, two tokens. One provider, model,
  virtual model and key: the references of each kind, with deletions beside them. Two requests with
  the same id, one attempt that fails, one database error or edit. Catalogs whose
  listings agree, disagree and are silent, one release of a catalog and two failed fetches, and one job
  that reads them: several jobs that join one fetch are in the theorem `CatalogsHeeded` only.

## Fairness

- `JobQueue`: time passes, a store call ends, a handler returns, and a stopped process exits and
  is restarted by its supervisor: weak fairness. A poll loop that goes on claiming meets, again
  and again, a claim that finds no row locked and is answered: strong fairness of that claim. The
  clock is strongly fair because a call in flight at its bound disables it for a moment.
- `ApiKeyLimits`: providers and streams have timeouts, background tasks run, the maintenance
  scheduler runs the repair every five minutes and time passes. Crashes and failures are never fair.
- `ConnectionHealth`: a pending job is claimed and its handler ends, which is what
  `EveryJobSettles` of `JobQueue` provides. No console or gateway action is fair: recovery must
  not depend on an operator or on traffic.
- `ConfigReload`: queries are answered or fail, callbacks run, the reconcile interval fires.
  Notifications are not fair, so that catching up rests on the interval alone.

- `FallbackChain`: a request that runs goes on, providers answer with some status, an open breaker
  rests and its window passes. Requests and good answers are not fair: `BreakerHeals` says what
  follows if requests go on to choose the connection and it works.
- `StreamPipeline`: calls and reads come back or time out, as the code's timeouts force them to; the
  pipe and the client move. Nothing in the code times out a client that neither reads nor leaves;
  `StreamsEnd` assumes there is none.
- `JobWake`: the timer fires, a claim is answered, jobs end, a connect and a LISTEN end one way or the other.
  No session has to be lost or come back.
- `Maintenance`: the steps of a scheduler that is up; `QuotaProbe`: scan, enqueue, claim and the
  steps of a run. Switches, faults and expiring rows are never fair.

In `Services` each is fairness of the service that runs. `Records` checks no liveness.

## Proofs

The safety properties of all components and the queue's refinement are proved for every value of the
constants. Each proof rests on one inductive invariant (`Inv`, or named after its module, in `..._proofs`), shown to hold
initially and to survive every action; the theorems follow from it. A property is rarely inductive
as it stands, since it speaks of rows and the rows are written by processes with locals of their own: what is
added each time is what those locals still know of the rows.

| Module | Theorems, and the property each states |
|---|---|
| `JobQueue_proofs` | `TypeCorrect` (`TypeOK`), `TablesAgree` (`LedgerAgrees`), `BudgetKept`, `ResultsAreCurrent` (`ResultIsCurrent`), `OutcomesAreFinal`, `AttemptsRunOnce` (`AttemptRunsOnce`), `LifecycleImplemented` (`ImplementsLifecycle`) |
| `ConnectionHealth_proofs` | `TypeCorrect` (`TypeOK`), `OneEvent` (`OneEventPerJob`), `VerdictHolds` (`VerdictIsCurrent`), `DisabledHolds` (`DisabledIsNotBlamed`) |
| `ConfigReload_proofs` | `TypeCorrect` (`TypeOK`), `LabelHolds` (`LabelNotAhead`), `HeardHolds` (`HeardIsServed`), `QuietHolds` (`QuietAfterStop`), `ForwardHolds` (`ServesForward`) |
| `ApiKeyLimits_proofs` | `TypeCorrect` (`TypeOK`), `RatesKept` (`RatesHold`), `CostsKept` (`CostsLandInTheirPeriod`), `LeasesCovered` (`CountCoversLeases`), `ConcurrencyKept` (`ConcurrencyEnforced`) |
| `Catalog_proofs`, on `Catalog` | `CatalogTyped` (`CatalogTypeOK`), `ReferencesKept` (`CatalogSound`), `RoutesArePublished` (`RoutesChangePublicly`) |
| `Catalog_proofs`, on `ModelCatalogs` | `CatalogsTyped` (`CatalogsTypeOK`), `CatalogsHeeded` (`CatalogsAreHeeded`) |
| `GatewayRequests_proofs`, on `RequestRecord` | `RecordTyped` (`RecordTypeOK`), `RecordsHold` (`RecordsAreTrue`) |
| `GatewayRequests_proofs`, on `RouteLatency` | `LatencyTyped` (`LatencyTypeOK`), `SamplesAreKept` (`SamplesKept`) |
| `GatewayRequests_proofs`, on `RouteSelection` | `SelectTyped` (`SelectTypeOK`), `StrategyIsFollowed` (`ChainFollowsStrategy`), `SplitsAreExact`, `StrategiesAreHeld` (`StrategiesHold`), `AcceptedFitsAll` (`AcceptedFits`) |
| `Records_proofs`, on `OAuthConnection` | `OAuthTyped` (`OAuthTypeOK`), `CredentialsHold` (`CredentialsKept`) |
| `Records_proofs`, on `Records` | `RecordsTyped` (`TypesOK`) |
| `Services_proofs`, on `FallbackChain` | `ChainTyped` (`ChainTypeOK`), `AttemptsExplained` (`AttemptsExplainAnswer`) |
| `Services_proofs`, on `StreamPipeline` | `StreamInvHolds`, `StreamTypeIsKept` (`StreamTypeOK`), `StreamOutcomeIsKept` (`StreamOutcome`) |
| `Services_proofs`, on `JobWake` | `WakeTyped` (`WakeTypeOK`), `WakeIsOwed` (`NoWakeLost`) |
| `Services_proofs`, on `Maintenance` | `KeeperTyped` (`MaintenanceTypeOK`), `WorkersAlone`, `LocksUsed` |
| `Services_proofs`, on `QuotaProbe` | `QuotaTyped` (`QuotaTypeOK`), `QuotaTold` |
| `Services_proofs`, on `Services` | `ServicesTyped` (`TypesOK`), `ServicesKept` |

`BudgetKept` and `OutcomesAreFinal` appear in no run: `JobLifecycle`, which the run checks, implies
them. The runs check the type invariants of the components together, as the `TypesOK` of `Records` and of
`Services`, and the safety half of a property that also promises an answer (`JobsAreTaken`,
`TasksAreKept`, `QuotaIsKept`) with it; the theorems state them one by one. `RecordsTyped` and
`ServicesTyped` put them together again: a step of the composition is a step of one
component that leaves the variables of the others, so all inductive invariants hold at once.

Every theorem uses the named assumptions of its module: the types of the constants, finite sets
where a count ranges over them, and what the code guarantees of its inputs. Among the latter, that a chain
names a candidate once (`UNIQUE (route_policy_id, provider_model_id)`) and a provider lists a
connection once (a primary key), and that `"console"`, which holds the OAuth row's lock in a deletion, is
not the name of a refresher; of the bodies of a stream, that they are events whose lines end in one of the
two ways. `GrainAssumption` is used by the split of the strategies alone (`SplitsAreExact`,
`StrategiesAreHeld`). No theorem assumes anything of a behaviour: each is `Spec => ...`.

### JobQueue

`Inv` is the type invariant, `LedgerAgrees`, `RetryBudget`, `ResultIsCurrent`, and

- `RunShape`: a process has a job exactly while a run is active, at an attempt number between 1
  and the job's `attempt_count`, renews only that job, and settles with a known outcome;
- `AttemptsCount`: a job not yet enqueued has attempt 0, a running one has been attempted.

What an action does to a job's two rows is one of six moves (`Kept`, `EnqueuedMove`,
`WithdrawnMove`, `GivenUpMove`, `StartedMove`, `FinishedMove`). Each action is shown once to make
only such moves; that they keep the tables' part of `Inv`, keep a settled job and map to a step of
`JobLifecycle` is shown once for each move. `AttemptRunsOnce` is inductive beside `Inv`: a claim
takes a number above the job's count, and `RunShape` keeps every run at or below it. The
refinement needs in addition that a step starts one job at most (`OneStart`), which holds because
it raises one count at most. No proof uses a clock: with every reading arbitrary, status, owner and
attempt number alone fence a stale worker; the lease only decides when a job is given up.

### ConnectionHealth

`GoodTable` says of each job that it has one event at most, an attempt left while it waits and one
begun while it runs. `Dated` bounds the tokens, grants and URLs by the
edits made, so that what an edit writes was never seen before. `ProbesDated` says that a probe whose
stored secret is still the configured one has also seen its grant: the compare of the ciphertext in
`providerSnapshotIsCurrent` therefore compares grants, although the grant is in no column.
A probe that has read nothing has no secret to compare; what it commits is blind, and all that is known of
it is the provider. `VerdictMoves` says once what a step may do to the verdict, for both theorems about it.

### ConfigReload

`DatabaseInv` makes of the publishers' lock an order of versions: the number of a writer that is still open is
the next one, for as long as it may commit. `LoadInv` follows the three queries: what each has found includes all
that was published up to the version the first one read, and what is already served, which is why
`LabelNotAhead` and `ServesForward` hold although edits commit between them. `HeardInv` is why no edit that
was heard of is forgotten: it is served, or the load under way will still read it, or a
trailing request covers it, or the load failed and the gateway says so. `PhaseInv` ties listener, load and
phase for `QuietAfterStop`.

### ApiKeyLimits

The windows and costs are sums over the requests. A sum is the number of its `Units`, pairs of a
request and a unit of its value, which turns it into a cardinality (`SumIsUnits`; that the fold has one
value only is shown on a smallest set where two would differ, since induction over finite sets takes an
operator). The rest is that each action moves at most one request into a counted set. `LeaseInv` is
the bookkeeping of `uncounted`: a row with a count is not quieter than the youngest lease is old, but for a wait, and
while a repair waits every lease is old or was admitted since its snapshot (`Watched`). So what the repair
overwrites is what `AtRisk` names, and a lease it does not name is counted.

### Catalog

`RefreshLive` and `PlanInv` are what `ApplyRefresh` relies on from earlier steps: the provider's row lock
keeps it alive, and a plan that changes nothing visible leaves the candidates of every
route alone, those added since it was made too, because a route takes the same locks.

### OAuthConnection

A refresh token is in one of several hands: the row, a gateway that holds the row's lock, a worker that
compares before it writes, an operator's page. `HandInv` says that the tokens issued to different hands are different
when the provider rotates them, and still accepted; `SealInv` that the ciphertext a worker compares
identifies the token it read. Without them `Kept`, that the stored token is good or its successor on its way, is
not inductive.

### RequestRecord and RouteLatency

`Owed` says what a living process still has to do: an answered request has its row, or a task that
will write it, or another request took its id. With `LeftInv` (after the server closed only
requests whose client left still run, and `behind` has those a drain left) it gives the promise of a clean
exit, `CleanInv`, which holds from the end of the drain on, while the others go on and are cut. In `RouteLatency` a sample
that is not in the table is dirty or in a row still to be written (`SamplesHeld`), and a row the memory has
overtaken is dirty again (`RowsHeld`); without the latter a late success of a flush would drop it.
`EveryKeyListed` says that the rows of a flush leave no dirty key out.

### FallbackChain

`GoodCaller` says where each step of a plan is: in what is left of it, or behind the position of the
last attempt and excused by one (`Covered`), attempts and rest in the plan's order (`InOrder`). `Heard` ties the
error the gateway keeps in `lastError` to the last attempt that reached a provider. No theorem depends on
what a breaker decides. `OnlyIs` is the lemma about filtering: `Only` states in closed form what
`SelectSeq` computes, because the prover's library has no definition of `SelectSeq`.

### StreamPipeline

`StreamInv` has the collector in closed form, a function of how many tokens it was given and of nothing else:
however the body was cut into chunks, it has read the events whose blank line was delivered and
holds the tokens after them (`CollectorOf`, `Collecting`). That a chunk leaves it in the form for the longer
part is `CollectsNext`: the blank lines of a chunk are where the text says (`Placed`), with LF and CRLF
alike, and the recursion over the frames of a chunk has one solution (`UnfoldsOnce`). `Pumped` has the rest of the
body in the source, so that a stream that came to its end has collected all of it; the other conjuncts keep
source, output, client and record in step, which makes the record come once and say what happened.

### RouteSelection

`SelectInv` says what the gateway answered: a chain is the order of a policy of the model that was asked for, and
its contract held. The rest is about operators. `Sorted`, defined by rank, lists each
candidate once and in order (`SortedIs`). The recursive functions of the strategies are reasoned about
without a theorem of induction: what a recursion computes exists (`Iterates`), and what holds at
the start and passes on holds to the end (`Persists`), since a set of numbers has a least one
(`LeastOf`). So the turns of a weighted draw (`TurnOf`) list each candidate once, and a swap of the
balanced one keeps the candidates.

The split is a count of draws. The draws are cut into slices by the part each of their numbers falls
into; all slices have the same size (`SlicesAreEqual`), and the size of a share is the number of its slices
(`EqualParts`). For the weighted head there is a slice for each unit of weight, and a candidate's are as
many as its weight (`FallsOnce`, `TotalIs`). For the balanced order each slice is a sequence of picks; different
picks end in different orders (`PicksTold`) and every order is made by some (`EveryOrder`).

### ModelCatalogs

`CatalogsInv` keeps of each job what it has read (`Reads`): a payload it took for fresh was younger than the
TTL, and a payload kept from before is read only when the fetch failed. A finished job has learned what follows from
that reading (`Heeds`). A listing is a function from keys to pairs found by their last place (`Fills`),
which gives what `Enriched` believes of it (`Believes`).

### JobWake, Maintenance and QuotaProbe

In `WakeInv`, `TimerInv` says that the timer rests during an iteration and before the first connect has settled,
which makes `NoWakeLost` inductive: a due job the worker heard of is behind a timer that fires at once, a wake that
an iteration under way will honour, or the poll after one that threw.
In `KeeperInv`, `LockInv` has both directions: a lock is held by a process that runs its task, and who runs a task and is
not stopping holds its lock, so that two workers never run one. In `QuotaInv`, `GoodRun` follows a run through its schemes
(the second only after the first was refused), and `GoodRow` is what it leaves: all that was meant, or an error and nothing.

### Services and Records

`ServicesInv` and `RecordsInv` are the invariants of all components together. Each step belongs to one of them
(`EachMoves`, `EachKeeps`), and the others depend on variables it leaves alone.

### Only model-checked

- All liveness: `EveryJobSettles`, `LeaksAreRepaired`, `Recovers`, `CatchesUp`, `BreakerHeals`, `StreamsEnd`, and the
  promises in `JobsAreTaken`, `TasksAreKept` and `QuotaIsKept`. Fairness and `ENABLED` are beyond the prover.
- What the five runs that expect a violation refute.

## Not modelled

- The translation of bodies and headers by the provider adapters, billing arithmetic, environment
  parsing, static registries and price tables, encryption and log formatting: functions of one call
  that share no state. Which face an adapter serves and what it makes of a status are in
  `FallbackChain`, which price a model has is in `ModelCatalogs`.
- The console's pages, which reach the system through its API only; its reports (usage, activity,
  runtime status), which only read; its login sessions, templates and the visibility of models.
- Migrations and deployment scripts, which run before any process.
- Within modelled components: the delays between retry probes and the request that hastens a
  pending one, changes of a limit's value while a request is under way, the names and reset times of quota
  windows, weights and tags as edited in the console.

## Plan

The models cover what the plan of this project set out to model, and the safety properties of all
components are proved. What is left is to model more: values of limits edited during requests
(`ApiKeyLimits`), the delays of probes (`ConnectionHealth`), and the draw of weights as the console edits them.

## Running

    tlc -workers 2 -config JobQueue_workers.cfg MCJobQueue
    tlc -workers 2 -config Records.cfg MCRecords
    tlapm JobQueue_proofs.tla
    tlapm Services_proofs.tla
    tlapm Records_proofs.tla

From nothing the longest proofs, `Services_proofs` and `GatewayRequests_proofs`, take about ten minutes each. What
was proved before is remembered.
