# Verification of the social-media management engine (jg-smm)

TLA+ modules of the engine that performs likes, comments and replies for a
fleet of accounts, and of the services around it; the TLC configurations that
check them on small instances; and TLAPS proofs of main safety properties for
every value of the constants. Paths below are relative to `src/apps/` unless
they start with `docs/`.

Contents: [the system](#1-the-system), [plan](#2-plan),
[modules](#3-modules-and-the-code), [runs](#4-runs), [fairness](#5-fairness),
[proofs](#6-proofs), [findings](#7-findings), [limits](#8-what-is-not-shown).

## 1. The system

An API in Go (several replicas over PostgreSQL and Redis), one worker container
per group of accounts (TypeScript, a browser driven by Playwright), and a web
front end. The API decides, the workers execute, and a worker talks back only
by HTTP callbacks.

| component | state | operations | talks to | module |
|---|---|---|---|---|
| Action enqueue (`api/internal/service/action.go`) | none of its own | Enqueue a batch | `action_job`, text store, batch store | `Composing` |
| Action scheduler (`service/action_scheduler.go`) | none: rows and Redis keys | Tick: claim, look up, compose, three gates, publish; reschedule, fail | `action_job`, accounts, Redis keys and lists | `ActionPipeline`, `DispatchGates` |
| Gates (`adapter/cooldown.go`, `adapter/ratelimit.go`) | a key per (account, target), a key per account, a counter per platform | Acquire (SET NX EX), Allow (INCR, EXPIRE, TTL) | Redis | `DispatchGates` |
| Action job store (`db/queries/action.sql`) | `action_job`, `action_log` | create, claim, complete, reschedule, upsert of a log row | PostgreSQL | `ActionPipeline` |
| Worker loop (`worker/src/index.ts`, `core/controller.ts`, `transport/queue.ts`, `transport/callback.ts`) | the one message it holds; its `ACTION_DRY_RUN` | BLPOP, perform (or, in a dry run, nothing), jitter, POST up to 3 times | Redis list, platform, API | `ActionPipeline` |
| Callback handler (`service/job.go`, `service/health_score_wire.go`, `http/internal.go`) | none | RecordAttempt: log row, job row, health | `action_log`, `action_job`, account | `ActionPipeline`, `Accounts` |
| Templates (`service/template.go`) | `comment_template` | CRUD; Pick for a target | scheduler, `action_log` | `Composing` |
| Accounts and health (`service/account.go`, `service/health_score.go`) | account row: status, auth status, score, worker | create, import, pause, resume, login, remove, quarantine | packer, worker control channel | `Accounts` |
| Packer (`service/packer.go`, `novnc_allocator.go`) | account.worker_id, AUTO containers, ports | Pack, PackInto, Release, ReapEmpty | worker and account rows | `Accounts` |
| Container service, claim (`service/container.go`, `repository/worker.go`, `worker/src/core/claim.ts`) | worker row: desired state, generation, container_id, status | create, delete; claim at boot; heartbeat | reconciler, worker | `Fleet` |
| Reconciler, orphan sweeper (`service/reconciler.go`, `orphan_sweeper.go`) | observed_gen; firstSeen | one diff per row and tick; delete what has no row | Docker, Kubernetes or compose | `Fleet` |
| Session relay (`service/account.go`, `worker/src/core/session.ts`) | the waiting exports; a session file per platform | export, import, input; session callback | Redis pub/sub, API | `SessionRelay` |
| Scraping on demand (`service/scrape_ondemand.go`, `scrape_keyword.go`, `scrape_ingestor.go`, `adapter/apify/runner.go`) | `scrape_job`, `keyword_batch`, `apify_run`, object storage, `post` | scrape a target, search keywords, ingest | Apify, MinIO | `Scraping` |
| Scrape queue (`service/scrape_scheduler.go`) | `scrape_job` | claim, run, requeue, fail | Apify runner | `ScrapeQueue` |
| Auth, users, audit (`service/auth.go`, `user.go`, `http/audit.go`) | sessions, users, `audit_log` | login, refresh, logout, roles; record | PostgreSQL | `Team` |
| Analytics (`service/analytics.go`, `analytics_ingestor.go`) | `official_account`, snapshots, `analytics_ingest_run` | register, archive, ingest pass, overview | provider | `Analytics` |
| Metrics, alerts (`service/metric_aggregator.go`, `alert_engine.go`) | `metric_snapshot` | re-sample, evaluate | scrapes | `Metrics` |
| Event stream (`adapter/hub.go`, `http/stream.go`) | subscribers and their queues | subscribe, publish, serve | browsers | `EventHub` |
| Comment generation, reports and mail, proxies, team configuration, crypto, platform adapters, web app | their own | section 8 | LLM, SMTP, DOM | none |

What is hard here is not inside one function but between the processes:

- an action exists in three places at once (a row, a list entry, a request in
  flight), and no transaction spans two of them;
- each of the three processes may die anywhere; a worker's BLPOP is destructive;
- the callback is retried after a timeout although the first request may still
  be handled, and Redis commands are resent by the client (`MaxRetries = 3`);
- several replicas run the scheduler loop (docs/INFRA_ANALYST.md:202 deploys the API with 3);
- the gates spend what they grant even if a later gate refuses;
- accounts move between containers while their jobs are being dispatched, and a
  container may run dry (`ACTION_DRY_RUN`, on unless set to false) where the next does not;
- requests are sequences of single SQL statements, and most writes of accounts
  and workers store the whole row that was read some statements earlier.

What makes each part correct:

- *Action engine*: an attempt is performed at most once; no more attempts than
  the policy allows; the log says what a worker made of the attempt, and a row is
  SUCCESS only for an attempt that was verified on the platform or that a dry run
  skipped; a terminal row stays; a claimed job is never forgotten; every job settles.
- *Gates*: publishes of an account are spaced, per target and overall; the
  platform budget holds up to the documented overspend; a pace slot is spent
  only on a publish; a budget resets; refusals do not starve a job.
- *Composing*: a batch has all its rows or none; the operator's words are the
  ones posted, for the day they are kept; a variant does not repeat on one post.
- *Accounts, packing*: one account per platform and container, never (far) more
  than the cap; a paused account leaves its container; a bad score pulls the account.
- *Fleet*: one live container per row; only orphans are swept; the platform
  converges on the rows, whatever failed half-way.
- *Scraping*: a batch ends and shows the posts of the run it names; a success
  has its post; a job is tried no more often than its cap.
- *Team*: the team keeps an owner; roles take effect; the audit trail is true.
- *Analytics, metrics, stream, relay*: a verdict, badge, sample, alert or
  session says what was there when it says it was; no viewer misses an event
  without being told.

The hazards behind these statements, each at its line, are in `PROJECT.json`
under `hazards`, with the property that would catch it or the reason why none
does.

## 2. Plan

Everything of the original plan is written except what this list marks open.

1. `ActionLifecycle`, `ActionPipeline`: the contract of one action job, and
   scheduler, list, worker and callback handler composed, with all faults.
2. `DispatchGates`: the three gates with clocks.
3. `Accounts` (status, score, packing and ports), `Fleet` (rows, drivers,
   reconciler, sweeper, claims).
4. `Composing`, `Scraping`, `ScrapeQueue`, `Team`, `Analytics`, `Metrics`,
   `EventHub`, `SessionRelay`: one module per service.
5. `MCServices` puts the services beside the pipeline in one run, `MCLive` the
   gates beside the pipeline.
6. Proofs: seven modules about the components and one about their composition, section 6.

Open: `BudgetKept` for a clock finer than a dispatch, and the worker's jitter as a
timed model of when actions are executed.

## 3. Modules and the code

### ActionPipeline

| variable | code |
|---|---|
| `job` | a row of `action_job`: `status`, `attempts`, and `due` for `scheduled_at <= now()` |
| `home` | `account.worker_id` |
| `sched` | the local variables of `dispatchOne`: the claimed job with its `Attempts`, and `workerID` once it is read |
| `queue` | the Redis list `queue:action:<worker>`, head first |
| `worker` | where `runActionLoop` is: polling, performing, about to POST, waiting for the response |
| `calls` | requests to `/internal/action-callback` that the API is handling, each before its next statement; `client = None` when nobody waits for the reply any more |
| `log` | `action_log`, one row per (job, attempt) |
| `done`, `charged` | history: what workers made of each attempt (an outcome on the platform, or `skipped`), and the health charges |

One action per step that another process can interleave with:

- *Scheduler*. `Claim` is the conditional UPDATE of `ClaimNextActionJob`, an
  atomic statement. `Resolve` reads the account's worker; `Reject` is `fail`
  after a lookup or `composeText`; `PutBack` is `reschedule` after a missing
  worker, a refusing or failing gate, or an error of the push. Which of them
  happens is left open: `DispatchGates` says when. `ForgetJob` is the store
  error that `reschedule` and `fail` only log. `Publish` is LPUSH, at the head,
  where BLPOP takes it (a LIFO list).
- *Worker*. `Pop`, `Perform` (any of `Results`: one of the three outcomes, the classes of
  `ErrorClass` counting as retryable or final, or `skipped`, the branch of
  `worker/src/index.ts:263-274` for `config.dryRun`, which performs nothing and reports
  a success: `VerdictOf`), `Post`, and what follows a failed
  POST, `AfterFailure`: the next try or giving up. The jitter only delays.
- *Handler*. `RecordLog`, `ApplyVerdict`, `ApplyHealth`, `Reply` are the
  statements of `RecordAttempt` in their order. `HandlerFails` is an error of
  one of the first two, after which nothing more is applied and the worker
  sees a 500. The statements run under the request's context
  (`http/internal.go:133`), which Go's server cancels when the client goes away,
  so a handler without client may also stop.
- *Faults*. The constant `Faults` says which may happen: a replica with its tick
  and some of the requests (`ApiCrash`), a container (`WorkerCrash`), a
  statement, a POST lost on its way or timed out (`PostLost`, `PostTimesOut`),
  a push whose reply is lost and that is then reported as an error or sent again
  (`PushReplyLost`, then `PutBack` or `Publish`), and an account that moves
  (`Repack`).

The verdict kinds RUNNING and CANCELLED of `RecordAttempt` are left out: no
worker sends them (`core/controller.ts` reports success or failure). A 4xx
reply is left out too: the worker sends well-formed callbacks.

`DryRun` is the set of values `ACTION_DRY_RUN` has among the containers: `{TRUE}` is
the default of `core/config.ts:31`, `{FALSE}` a fleet in earnest, and `{TRUE, FALSE}`
a fleet where containers differ, as after a change of the setting, when some have been
created again and some have not. `Perform` then chooses per message. `LogIsGrounded` and
`SuccessIsGrounded` say which of the two an entry may stand for; that a SUCCESS was
seen on the platform (`SuccessIsReal`) is a theorem for `TRUE \notin DryRun` and false otherwise.

### ActionLifecycle

The abstract machine: a job is taken, performed (or skipped by a dry run) at most once
per taking and at most `MaxAttempts` times in all, and settled by what that
came to: a retryable failure sends it back while it was taken fewer than `MaxAttempts`
times and fails it from then on, no sooner and no later. A taking that a gate
refused counts as well, as in the code. The mapping in `ActionPipeline` (operator
`Lifecycle`) takes `status` and `taken` from the row (`taken` is its `attempts`), `tries` from
the attempts performed and `fate` from the outcome of a RUNNING row's current attempt.

### DispatchGates

Here the time counts. `slot`, `pace` and `rate` are the Redis keys with their
remaining life; `job` has the ticks until `scheduled_at`; `disp` is where each
scheduler is in `dispatchOne`, and for how long. All clocks run down to 0
and stop there, so the state space is finite without a horizon. Each
Redis command is a step (`AcquireCooldown`/`CoolingDown`; `TakeUnit`, `Anchor`,
`BudgetSpent`: INCR, EXPIRE, TTL; `AcquirePace`/`Pacing`), and a refusal
reschedules by the delay its branch names. A job sent is `SENT`; the jobs of
`Renewed` may come again, which stands for retries and for new rows with the
same account and target. Faults: commands that fail, commands resent by the
client (SETNX then meets its own key, INCR counts twice), a failing EXPIRE, and
a dispatch that dies with its replica. `sent` and `since` are history: `sent` keeps,
for each platform, how long ago its last publishes were, one more than two windows
may see.

`MaxDispatch` bounds how long one dispatch may take. The code has no such bound
itself, but each Redis call ends by its dial, read and write timeouts and at
most 3 retries (`adapter/redis.go:23-26`), so there is one; the properties carry it
explicitly.

### Accounts

`acc` and `box` are the rows of `account` and `worker` as far as packing and
health read them, `req` the handlers in flight. A handler is a sequence of
statements, and each is an action: `Insert` (the row), `ResolveContainer`, `CountSlots` and
`ListHosted` (the slot walk of `hasFreeSlot`), `Assign` (which meets
`UNIQUE (worker_id, platform)`), `AllocatePort` and `CreateWorker`; then
`ReadRow` and `WriteRow`, the read-modify-write of pause, resume, login, its
outcome and a verdict, whose new row is `Edited`; `Release`, which unassigns and
never reaps; and the deletes. A request may die between two statements
(`Aborts`). Because every `WriteRow` stores the whole row it read, what relates
two columns is stated of accounts no two requests met on (`disturbed`), and the
exception of `Resume`, which restores no score of an account paused while it was
held back, is named by `laundered`. The bounds `CapOverrunBounded` and
`PortSharersBounded` have no such exception.

### Fleet

`row` is the table `worker`, `plat` what the platform holds for each row,
`proc` the process of each container. `Reconcile` is a tick of
`Reconciler.reconcileOne` step by step: list, observe, diff (`Diff`), create or
delete at the driver, and `markObserved`, the write of the whole row listed at the start.
`Sweep` takes ListRunning and List at two moments and deletes what stayed unknown for the
grace; a List answers with the `ListLimit` newest rows (`Listed`). `Claiming` is `WorkerRepo.Claim` with its three branches and FOR UPDATE SKIP
LOCKED; the row stays locked until the transaction ends. `DeleteRequested` and
`DeleteGoesOn` are `ContainerService.Delete`. The three drivers differ in what
Observe, CreateWorker and ListRunning say (`DockerObserve`, `K8sObserve`,
`StaticObserve`, ...); the initial state chooses one. `undone` remembers rows
whose `container_id` a stale full-row write changed.

### Composing

`form` is a POST /actions request in the handler, going through its items;
`cjob` the job rows and, while one is dispatched, the local variables of
`composeText`; `text` and `record` the two Redis stores; `tmpl`, `logged` and
`posted` the templates, the logs and the comments of the last seven days. A text is kept
for `ActionTextTTL` (24 hours, `action.go:46`) and read again at every claim; gates may send a
job back past that, so `TextExpires` may come at any moment, before or after
the text was read, and a later `GetText` falls through to a template. `PostText`
may post nothing, as in a dry run.
`Pick` excludes what the query excludes: templates named by a log of this
target. `slip` notes whom a failure met, so that the properties can except them by name, and `slip.gone` which texts have lapsed.

### Scraping and ScrapeQueue

A request to `Scraping` walks through cache, job row, Apify run, raw payloads,
ingest and verdict (`task`), beside the shared tables and object storage
(`trow`, `run`, `bucket`, `post`). What an actor delivers is abstracted to what
the parsers see in it: which post a row names, whether a comment rides on it,
whether it is a page element, how its date compares with the window. Storage
keys are modelled because they collide: the Threads runs of one user share a
prefix. `ScrapeQueue` is the ticker with claim, refusal by the
runner (no actor is ever named), and requeue in two statements.

### Team

`member`, `session` and `trail` are `app_user`, `auth_session` and `audit_log`; `call`
is an HTTP request between its statements, and the audit middleware its last
step. The revoke after a role change passes a reason that the enum does not
have, so it changes nothing. STRATEGIST and ANALYST count as OPERATOR.

### Analytics, Metrics, EventHub, SessionRelay

`Analytics`: passes of the ingestor, account by account and statement by
statement, with a context that may end anywhere (`Cut`), against registration
and archive; `Overview` is the badge and the numbers beside it. `Metrics`:
`Observe` is a scrape's sample, `StartAggregate` and `Resample` the ranking and
the row-by-row re-sampling, `Evaluate` the views-drop rule, which skips a post without
a sample or without views in either window; a day is one step.
`EventHub`: `Send` is one non-blocking send of Publish under the read lock,
`DropDead` its second section under the write lock. `SessionRelay`: export,
import and input as control messages that Redis drops when nobody listens
(`wire`), the worker's handlers of them, which run side by side, so that a file may be
read while it is written (`DumpSession`, `AdoptSession`, `TryInput`, `Keep`), session
callbacks with retries (`dumps`), the table of waiting exports
and its timeout (`GiveUp`), and accounts that change containers.

### Composition

The services share rows (an account's `worker_id` is written by the packer and
read by the scheduler) but no lock or transaction, so each module lets the
others' writes happen at any moment where they matter: `Repack` moves an account at
any time in `ActionPipeline`, rows are created and deleted at any time
in `Fleet`, templates are edited at any time in `Composing`. `MCServices` runs
the modules side by side: `part` names the one a behaviour follows, and the run
explores the union of their state spaces rather than the product, which would only
interleave independent steps. `MCLive` does the same for `DispatchGates` and an
instance of `ActionPipeline`.

Definitions marked as mutants in a comment are not part of the specifications:
they are the wrong versions used to see that a property notices them.

## 4. Runs

| run | shows | instance |
|---|---|---|
| `pipeline_faults` | `TypeOK`, `LogIsGrounded`, `SuccessIsGrounded`, `NothingUnclaimed`, `PerformedOnce` under every fault but a resent push | 1 job, 1 account moving between 2 workers, 1 scheduler, 2 claims, 2 tries, policy of 2, containers dry and in earnest |
| `live` | `NoStranding`, `EveryJobSettles`; `PaceSlotIsUsed`, `BudgetResets`, `EveryJobIsSent`; no faults | pipeline: 2 jobs of one account, 1 worker, 3 claims, policy of 2; gates: 4 jobs, 2 accounts, 2 platforms, one of them off, cooldown 2, pace 3, window 4 |
| `gates_safety` | `SpacedOut`, `BudgetKept`, `TypeOK` under all faults of the gates | 2 jobs of one account on 2 targets, 2 schedulers, limit 2, cooldown 3, pace 2, window 8; apart from them, 1 job on a platform that is off |
| `fleet` | `ClaimedByOne`, `OnlyOrphansSwept`, `FleetSettles`, `TypeOK` under one fault of any kind but `start_error` | 2 rows, 1 compose replica, the 3 drivers, 1 delete, 2 parties at once |
| `services` | the 23 properties of the services and of the pipeline's contract | below |
| `v_lost`, `v_double`, `v_replay`, `v_deadkey`, `v_unclaim`, `v_repeat`, `v_role` | the findings of section 7, each with the least that causes it | 1 job; 2 rows; 1 batch of 2 items; 2 users |

Why the bounds are enough.

*Pipeline.* The properties relate one job's row to its own messages and
requests; a second job interferes only through the list and the worker, which
`live` has, and the proofs of section 6 cover any number. Two claims with
a policy of two have the last retry, the exhausted budget and a claim after a
lost push; in `services` the pipeline has 2 schedulers, 2 workers and 4 claims, so two
claims may be wasted by a gate. Two tries of a callback suffice for a replay to overtake
its original. At most two requests at once and two entries per list (`FewCalls`,
`ShortQueues`) are constraints of `pipeline_faults`: they cut off three
simultaneous replays of one verdict, which are the same request thrice.
`WithoutCharges` hides history that run does not read.

*Gates.* The window holds several cooldowns, so that the limit and not the
cooldown decides in `gates_safety`; in `live` the pace is longer than the
cooldown, which makes every gate refuse. The limit 2 is the least where a
window has a first, a last and an excess unit. A job on a platform that is off
shares no key with the others, so it is explored on its own (`OffAlone`).

*Fleet.* Two rows and three processes let two claims race for a row, a
claim race a tick, and a tick, a sweep and a delete of the same row overlap two at a time
(`MaxBusy`); all the properties are about one row and at most two processes.
`ListLimit` equals `MaxRows`: see section 8. `MaxFaults` and `MaxDeletes` are 1; a second fault
or delete would start from a state the first one has already settled, and the
theorems hold without either bound.

*Services.*

| part | instance | bounds on failures |
|---|---|---|
| pipeline | 1 job, 2 schedulers, 2 workers, policy of 2, 4 claims, containers dry and in earnest | none on the number: crashes of workers, store errors, lost callbacks, moves |
| accounts | 3 names on 2 or 3 networks, 3 containers, 2 ports, cap 1, scores 0..1, 2 requests at once, 3 in all (`MaxOps`) | 1 request dies half-way (`MaxAborts`) |
| scraping | 2 requests, 1 Instagram and 1 Threads post, 1 item per run (`MaxItems`), 2 attempts of a search, at most one of the requests a search (`OneSearch`) | 1 failed statement or crash (`MaxHurts`) |
| queue | 2 jobs of one account, 2 overlapping schedulers, cap 3, 2 jobs a tick | 1 failed statement or crash (`MaxMishaps`) |
| composing | 1 batch of up to 2 items, 1 target, 1 template | 1 failure, refusal or lapse of a text (`MaxSlips`), 1 edit (`MaxTweaks`) |
| team | 2 users, 2 requests, 2 sessions | 1 failed statement (`MaxStumbles`) |
| analytics | 2 accounts, 1 pass at a time, 2 runs (`MaxIngests`) | a pass may be cut anywhere, any provider call may fail |
| metrics | 2 posts, top 1, views in {0, 1, 3} (`Views`), 1 day passes (`MaxDays`) | none needed |
| hub | 2 connections, 2 publishers, buffer 1, 3 events (`MaxEvents`) | slow readers |
| relay | 2 requests, 1 account, 2 containers, sessions 1..3 (`MaxVersions`), 2 posts of a callback (`MaxPosts`), 1 move (`MaxMoves`) | lost messages and acknowledgements, writes of a session file that fail |

Each has two of whatever races, a resource at its limit (a cap of one account,
a buffer of one event, a port range of two) and one failure at any point. One
failure is what the properties are about: they except what a failure touched, and say
that nothing else is touched.

The runs other than `gates_safety` say `CHECK_DEADLOCK FALSE`: once every job has settled, every
request is answered and all bounded events are used up, nothing is left to do.
`DispatchGates` has time passing for ever and is checked for deadlock.

## 5. Fairness

`ActionPipeline`: weak fairness of each scheduler (`Run` ticks for ever and one
bad tick does not end it), each worker (`runActionLoop` has no exit but
shutdown), each request's handling, and the clock (`BecomeDue`). Nothing is
assumed of `Enqueue`, `Repack` or a fault. A scheduler's fairness covers its
steps together, so it need not ever choose `Publish` over `PutBack`: a gate may
refuse for ever. This is why `EveryJobSettles` ends at `MaxClaims`.

`DispatchGates`: weak fairness of time and of each dispatch, and strong fairness
of the claim of each job. With one scheduler a due job is not continuously
claimable, since another may be under dispatch; but pending rows are listed
`ORDER BY scheduled_at` and an account's next row is claimed in the same order
(`db/queries/action.sql:34,71`), and a job that is rescheduled or enqueued goes
behind it, so of finitely many jobs none is passed over for ever.

`Fleet`: weak fairness of the reconciler's and the sweeper's next step (their
loops tick for ever, `cmd/server/main.go`), of the delete in flight, of the
grace and of each claim that a boot has begun; a claim that fails or finds no row is not
made again before the next boot (`claim.ts`), and `FleetSettles` needs no more. Nothing is assumed of the operator or
of faults, of which there are finitely many.

`MCLive` conjoins the fairness of its two parts; the part that stands still has none of
its fair actions enabled. The services of `services` are checked for safety only.

## 6. Proofs

All for arbitrary sets and arbitrary bounds and faults, from the named ASSUMEs
on the constants alone (checked by TLC in every run). Where a theorem assumes more of
the faults or the clock, its statement and this section say so. Every inductive
invariant was checked by TLC on the instance of its run before it was proved.
Two ASSUMEs are there for the proofs: `ScrapeQueue` has at least one scheduler (each API
process that scrapes starts one, `cmd/server/main.go:334`), and `Accounts` has
`QuarantineThreshold <= ScoreMax` (the only policy is 30 of 100,
`service/health_score.go:37`).

`MCServicesProofs`
- `ServicesImplementEach`: a behaviour of `ServicesSpec`, the composition that the run `services`
  explores, is a behaviour of each of its ten parts: each begins in one of its own initial
  states, and a step of the one that runs is its own and a stutter of the others.
- `ServicesKeepPromises`, `PipelineKeepsPromises` (assuming `DeliveredOnce`) and
  `ServicesTypeCorrect` (`ServicesTypeOK`) carry the theorems below over to it, so that all
  23 properties of that run are theorems of the specification the run names. The second
  adds `SuccessNotRepeated` and `TerminalIsFinal`.

`ActionPipelineProofs`
- `TypeCorrect`: `Spec => []TypeOK`. Types alone are not inductive: a reply sends its
  client through `AfterFailure`, which adds a try to whatever state the client
  is in, so one needs to know that the client really waits. That is `WaitingClients`:
  a request with a client is the current POST of a waiting worker. The
  invariant proved, `ClientInv`, is the conjunction (theorem `ClientsWait`).
- `LogTellsTheTruth` (`LogIsGrounded`), `SuccessTellsTheTruth`
  (`SuccessIsGrounded`): the invariant adds that a verdict on its way (held by a
  worker or carried by a request, even one nobody waits for) is one a worker may report
  of that very attempt (`Reportable`): an outcome of it on the platform, or a success where a dry
  run skipped it. The log and the rows only ever copy such verdicts.
- `LiveSuccessIsReal` (`SuccessIsReal`), assuming `TRUE \notin DryRun`: nothing is skipped
  then, so a SUCCESS row has an attempt that was verified on the platform. With dry runs the
  statement is false, and TLC finds it so.
- `ClaimsComeFirst` (`NothingUnclaimed`): every message, wherever it is, carries an
  attempt number no greater than its row's counter, which never falls.
- `AttemptsPerformedOnce` (`PerformedOnce`), assuming that no push is resent: the
  copies of a (job, attempt) that are still to be performed number at most one,
  over ticks, list positions and workers, and there is none once the attempt is in
  `done`. The invariant needs the bound on attempt numbers above, for
  otherwise a new claim could give out a number that is still in some list.
- `OneOwner` (`SingleOwner`) and `ChargesOnce` (`ChargedOnce`), assuming
  `DeliveredOnce`: no API crash, no callback timeout, no push that is applied but
  reported as failed or sent twice. Workers may crash, POSTs may be lost, statements
  may fail and accounts may move. `HandInv` says of every message in hand (in a tick,
  on a list, in a worker, in a request that is not yet projected) that its row is
  RUNNING with that attempt and the attempt uncharged (`OwnedInv`); that a waiting
  worker and its request carry the same message and no two workers or requests the
  same one (`ReportInv`); and that nothing is charged ahead of the counter. A message
  leaves one place as it enters the next, so a projection takes the last copy out of
  hand. With any of the excluded faults a message or its verdict turns up again
  after the row has moved on, and `SingleOwner` is false: `v_double` shows one such trace.
- `PipelineImplementsLifecycle` (`ImplementsLifecycle`) and `TerminalStays`
  (`TerminalIsFinal`), assuming `DeliveredOnce`. The refinement maps a row to its status,
  its counter of claims, the number of its attempts that were performed or skipped, and the
  outcome of the latest one while the row is RUNNING; all of them are computed from `job`
  and `done`. `LifeInv`
  adds to `HandInv` that an attempt has one outcome and that the attempts performed
  leave room for the one in hand. One lemma per action then names the step of
  `ActionLifecycle` it is: `Claim` takes, a reschedule puts back, `Perform` performs,
  `ApplyVerdict` settles or retries, everything else stutters. `TerminalIsFinal`
  follows because the statements that overwrite a row whatever it holds are applied
  only to rows something in hand belongs to; without the assumption `v_replay` refutes it.
- `SuccessOnce` (`SuccessNotRepeated`), under the same assumption. `SuccessSettled` on top of
  `LifeInv`: an attempt that succeeded is the last of its row, which is RUNNING with it or
  SUCCESS. What is in hand and not yet performed belongs to a row that has not
  succeeded; a worker that dies after it performed leaves the row RUNNING, and
  nothing puts it back.
- `NothingIsForgotten` (`RunningIsCarried`), assuming `NothingLost`: nothing dies, no
  statement fails, no callback is lost or given up. Pushes may be applied and
  reported as errors, or sent twice, so copies of one message and messages of earlier attempts are
  about. `CarryInv` adds `Attended` (with no timeout each request has its worker
  waiting) and says of each RUNNING row that some tick, list, worker or request
  has its latest attempt (`RunningHeld`). A verdict of an earlier attempt may be applied to the row
  as well, but whatever it writes takes the row out of RUNNING.

`DispatchGatesProofs`
- `TypeCorrect`: `TypeOK` is inductive only together with `Unanchored`: a counter
  between INCR and EXPIRE has no TTL, and exactly one dispatch is about to give
  it one. Without it EXPIRE could be applied to a key that is gone.
- `PublishesAreSpaced` (`SpacedOut`): `SpacedOut` alone is not inductive, since a
  publish restarts the clock for every dispatch that holds the same keys. `Cooled`
  says that the remaining life of a cooldown key and the time since the last
  publish of its pair add up to a cooldown, short of `MaxDispatch`; that the
  key of a dispatch past gate 1 has aged no more than the dispatch; that `SpacedOut`'s
  inequality holds from gate 1 on; and that two dispatches are past gate 1 for the
  same pair only if `MaxDispatch >= Cooldown`, in which case a dispatch may outlive
  its own key and the theorem claims nothing. `Paced` says the same of the account's
  key after gate 3. Nothing is assumed of the relation between `MaxDispatch`,
  `Cooldown` and `AccountPace`.
- `SlotsAreUsed` (`PaceSlotIsUsed`), assuming `PushesReach`: no Redis error, no lost
  reply and no API crash. Each of the three really burns a slot without a publish.
- `BudgetIsKept` (`BudgetKept`), assuming `MaxDispatch <= 1`: the tick is no shorter
  than a dispatch may take, seconds against windows of hours (with a finer clock the
  unpublished units of two windows can survive into a third). `Books` balances, for each
  platform, the units the counter has granted (`Granted`), those dispatches still hold
  (`Units`) and the ages of the last publishes: counting back a limit for the window
  before and what this window has granted, less what is still held, one reaches a
  publish that lies a window back. When the window has begun a tick ago, all units
  held are of this window, and the publishes before those it granted are older
  than the window itself; this is what the next window starts from. `Books` is a
  predicate on numbers and one sequence, so that each kind of step is one arithmetic lemma
  (`BooksGrant`, `BooksPublish`, `BooksTick`); the rest counts finite sets.

`ScrapingProofs` (`ScrapeQueue` and `Scraping`)
- `QueueTypeCorrect`, `RunningJobIsHeld` (`RunningIsHeld`). The invariant
  `QueueInv` adds `Working`: a scheduler that runs or requeues a job knows which,
  and one that claims has budget left. The claim, requeue and fail statements meet
  on a row only by its status, so a case per statement suffices.
- `AttemptsAreBounded` (`AttemptsBounded`) counts, for a job past the cap, the
  writes that can still make it PENDING (`Chances`): two for a scheduler that runs it with
  an older count, one for a scheduler between the two statements of its requeue. A claim
  uses up the PENDING it finds and gives nobody a new chance, so attempts, `Waits` and
  `Chances` together stay under twice the number of the other schedulers.
- `ScrapingTypeCorrect`, `BatchesAreTheirRuns` (`BatchIsItsRun`), `StuckRowsByFault`
  (`StuckOnlyByFault`), `SuccessHasItsPost` (`SuccessHasPost`). `ScrapeInv` says of every
  request how its parts fit at each step: which columns its row may carry, that what
  is found has been counted, that no key is noted before its item is stored, and that
  the items about to be read are its own run's, except under the prefix the Threads
  runs of one user share (`Holds`). Other requests then disturb only what the
  invariant leaves open.

`ServicesProofs` (`EventHub`, `Metrics`, `Analytics`)
- `HubTypeCorrect`, `GapsAreSignalled` (`NoSilentGap`). `HubInv` adds `Sections`: only
  a scan has sends left, a busy publisher has an event, and nothing is due to a
  connection that is not there. The hard step is `Send` into a queue that another
  publisher has found full: the list of dead ones may only grow until `DropDead`.
- `MetricsTypeCorrect`, `SamplesAreObserved` (`LatestIsObserved`) and the action
  property `AlertsAreReal` (`AlertIsReal`). `MetricsInv` follows a value from the
  ranking (`TickIsCurrent`) into the row it is stored in again and into the day's
  window (`WindowsAreObserved`), except where a scrape has overtaken it.
- `AnalyticsTypeCorrect`, `RunVerdictsAreTrue` (`RunVerdictIsTrue`), `FetchedHasData`
  (`FetchedMeansData`). `Agree` relates a pass to the row of its run: without an
  error what it listed is what it got, has still to do and is at; with one, some
  account listed is in none of them. No two passes share a run (`RunsApart`).

`AccountsProofs` (`SessionRelay`, `Accounts`)
- `RelayTypeCorrect`, `ExportsAreOwn` (`ExportIsOwn`). Only an export that was asked is
  on the wire or in a dump, and what comes back while it waits was kept by its
  container since it asked (`Underway`, `HandedOver`).
- `AccountsTypeCorrect`: types are inductive only with `Shape`, what a request carries at
  each stage (a creation looks at a container, an edit has read a live row).
- `PortSharersAreBounded` (`PortSharersBounded`): the containers on a port and the
  requests about to insert one on it number at most the requests, for a request that
  read the port as free before the first insert is one of those that race.
- `CapOverrunIsBounded` (`CapOverrunBounded`): the same for the `Claimants` of a
  container, the accounts on it and those a request may yet put there, because it
  counted them before or writes back a row that names the container. When a request counts
  and finds room the others can add at most one each.
- `PausedAreReleased` (`PausedIsReleased`), `LowScoresArePulled` (`LowScoreIsPulled`):
  `MeetInv` says that an account two requests work on at once is `disturbed`, and that
  the row the only request on an undisturbed account has read is still the row there is
  (`Knows`).

`OperatorProofs` (`Composing` and `Team`)
- `TeamTypeCorrect`, `TeamKeepsAnOwner` (`OwnersLeft`), `TrailCorrect`
  (`TrailIsTrue`). `TeamInv` adds `OneDecides`: unless two requests crossed,
  at most one request is between its check and its write, what it read still
  holds, and its write leaves another owner; and that actors and holders of sessions
  have been users.
- `BatchesAllOrNothing` (`AllOrNothing`), `OperatorsWordsPosted`
  (`OwnTextPosted`). `ComposingInv` adds `Progress`, how many items of a
  request have their row at each stage, and `Worded`: a row with a text of its own has it in
  the store, is about to, or is excused by a slip (`Excuses`), one whose text has lapsed
  included; and a row that has read its text carries it.
- `ComposingTypeCorrect`. `TableInv` adds what ties the tables to the request: its items
  are set before there is a row, a text or a note of the batch; they have been
  checked by the time the first row is inserted (`Checked`), so only comments have texts of their own;
  and a comment leaves for the worker with words (`Fitting`).

`FleetProofs`
- `FleetTypeCorrect`, `RowsClaimedByOne` (`ClaimedByOne`), `OrphansOnly`
  (`OnlyOrphansSwept`, assuming `ListLimit >= MaxRows`). `FleetInv` adds that
  snapshots are of rows that were live, that a claim has locked an unowned row for
  itself, and that who holds a row is its container_id unless the row is gone
  or a full-row write came in between. For the sweeper, `Swept`: what it is about to
  delete is of a deleted row, which does not come back, or of one with as many younger rows as a
  List answers with (`Beyond`).
- `NewestRowsAreSafe` (`NewestAreSafe`) for any `ListLimit`, from the same `Swept`: a live row
  that was missing from a listing has `ListLimit` live rows younger than itself, and
  rows that were created stay younger. `OrphansOnly` is the case without such rows.

Only model-checked. Liveness is out of the prover's reach: `NoStranding`,
`EveryJobSettles`, `BudgetResets`, `EveryJobIsSent` and `FleetSettles` hold under fairness,
and their proofs would need ENABLED. Every other property of a passing run is a theorem.
Five theorems state what no passing run checks: `SuccessOnce`, `TerminalStays`,
`NothingIsForgotten`, `LiveSuccessIsReal` and `NewestRowsAreSafe`. TLC agreed with each on a small instance (one job, two
workers, pushes that lie or repeat, containers in earnest; two rows, `ListLimit` 1) before it was proved. The first two have a run the
other way: `v_double` and `v_replay` violate them once their assumption is dropped, as
`v_lost` does to `NoStranding` outside the third's.

`MCServices` runs the services beside each other, one per behaviour; that two of them interleaved
on one table would keep the same promises rests on what each module lets the others do (section 3),
not on a theorem.

## 7. Findings

Each is a run that TLC must find violated.

1. `v_lost`: a container that dies between BLPOP and callback loses the message;
   no sweep finds the RUNNING row (against docs/adr/0006).
2. `v_double`: an LPUSH reported as failed may have been applied; the job is
   rescheduled and performed again although it succeeded
   (`action_scheduler.go:294`).
3. `v_replay`: a callback replayed after a timeout takes a terminal row back
   (`job.go:119-121`: only the log row is idempotent).
4. `v_deadkey`: after one failed EXPIRE the platform's counter never resets
   (`ratelimit.go:56-57`).
5. `v_unclaim`: `markObserved` writes back the row it listed before a container
   claimed it; the next container claims it too and both serve one queue
   (`reconciler.go:158` against the comment at `repository/worker.go:157-160`).
6. `v_repeat`: the template id is dropped after the pick, so the seven-day dedupe
   excludes nothing and a variant repeats on a post (`action_scheduler.go:331`
   against `template.sql.go:35-36`).
7. `v_role`: the sessions of a user whose role changed are never revoked: the
   reason passed is not in the enum (`user.go:149` against `user.go:110-111`).

The faults named in the passing runs are exactly those the property survives.
`SingleOwner`, `ChargedOnce` and `ImplementsLifecycle` are checked without
replica crashes, callback timeouts and ambiguous pushes, because with them they
fail for the reasons of findings 2 and 3; `BudgetResets` without `expire_error`,
`reply_lost` and `api_crash` for the reason of finding 4; `PerformedOnce` without
`retried_push`, as a resent LPUSH puts the same message twice in the list;
`FleetSettles` without `start_error`, see below.

Other places where code and text differ, met while modelling and modelled as the code
is, without a run of their own:

- `adapter/dockerprovisioner/docker.go:127-128` says a reconciler retry
  converges. A container created and not started has the row's generation, so the
  retry leaves it alone, and the fleet never settles (`start_error`).
- `repository/convert.go:82-85` turns the `Limit: 500` of the sweeper and the
  reconciler into 100 rows. With more rows than that the sweeper deletes the containers of
  the oldest live ones, which it is to keep (`orphan_sweeper.go:11`), and the reconciler
  never sees them: TLC finds `OnlyOrphansSwept` violated with two rows, `ListLimit` 1
  and no fault. `NewestRowsAreSafe` bounds the harm.
- `Packer.Release` returns before `ReapEmpty`, as Unassign answers with an
  account without worker: no AUTO container is reaped (docs/SCALE_TEST.md:46 says they are).
- `novnc_allocator.go:15` says a manual create and an auto-spawn cannot pick
  the same port; the ports are read one statement before the row is inserted.
- `service/action.go:102-104` says a batch is all-or-nothing; a failing insert
  leaves the rows before it.
- docs/SYSTEM_DESIGN.md:498 and infra/runbooks/README.md:115 say that a worker with
  `ACTION_DRY_RUN=true` goes as far as the action and stops before it commits. It does nothing
  and reports a success (`worker/src/index.ts:263-274`), as docs/MANUAL_TESTING.md:105 has it;
  the log, the row and the health score cannot tell it from an action that was performed.
- `service/action.go:43-45` says that a queued custom comment is never dropped before its
  job runs. The gates may send a job back for longer than the 24 hours its text is kept, and
  then it is composed from a template (`TextExpires`).
- `service/user.go:112` says that demoting the last OWNER is refused. The other owners are counted
  one statement before the write (`user.go:135`), so two owners who demote or remove each other at
  once are both let through; `OwnersLeft` excepts requests that crossed.
- `worker/src/core/claim.ts:11-13` says that a worker which could not claim a row tries again
  on the next heartbeat cycle. It claims once, at its start (`worker/src/index.ts:46`).
- `service/auth.go:106` says reuse of a revoked refresh token revokes the whole
  family; it is only refused. Two refreshes at once both succeed.
- `service/scrape_scheduler.go:63-65` says that without an actor mapping the runner
  falls back to its own; it has none (`adapter/apify/runner.go:215-218`), and the
  scheduler passes no actor either, so every background scrape is refused.
- `service/analytics_ingestor.go:93` says every ACTIVE account; a pass takes
  `BatchSize` of them, and accounts that keep failing stay first in the order.

## 8. What is not shown

- When actions are *executed*: the gates space publishes; the worker's LIFO
  list and its jitter decide the rest.
- Whether the fleet settles when there are more rows than a List answers with: the
  older ones are not reconciled (section 7).
- A container keeps one session file per platform; the browser contexts built from
  it are not modelled, nor is the login flow in the browser.
- A second failure in one behaviour of `services`, and products of two services.
- Where an action is performed: the message goes to the container the account was in when
  the job was dispatched, whether or not it still is.
- What an exception of a property names: a batch whose own insert failed, an account row written
  by two requests at once, and two owner-unmaking requests that crossed are left out of
  `AllOrNothing`, `LowScoreIsPulled` and `PausedIsReleased`, and `OwnersLeft`, which show that nothing else
  breaks them.
- The import's rate limiter, the login limiter, page limits of lists, token
  lifetimes, passwords and signatures.
- Urgency and region selection of `Enqueue`, weights and rendering of templates.
- Not modelled at all: platform adapters (DOM automation), comment generation
  (one LLM call, nothing stored), reports and mail (queries and layout), proxies
  and team configuration (one statement per request on a table nobody else decides
  on), crypto, configuration and wiring, generated bindings, the web app.
