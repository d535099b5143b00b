# A TLA+ verification project for PandaProbe

PandaProbe is an observability and evaluation service for AI agents: a FastAPI
backend (`src/backend`), Celery workers, PostgreSQL, Redis and a Next.js dashboard
(`src/frontend`). Applications send traces; users evaluate traces and sessions with
LLM metrics; organizations pay for what they use through Stripe.

This directory holds TLA+ models of the parts of the backend whose correctness
depends on the order in which concurrent or failing steps happen, the TLC
configurations that check them on small instances, and TLAPS proofs of the facts
that matter most for instances of any size. `PROJECT.json` lists the runs, the
mutants that show each property can fail, the source lines behind every definition,
the hazards and the theorems.

## 1. Inventory of the system

| Component | State | Operations | Interacts through |
|---|---|---|---|
| Overage reporting (`billing_reporting_service.py`, `billing_report_repo.py`) | `billing_reports` rows: frozen counts, price base, one Stripe request per category, attempts, item ids, status | stage, deliver, finish, pending and recently closed reports | usage rows, Stripe invoice items with idempotency keys |
| Subscription and invoice handlers (`billing_service.py`, `billing_repo.py`) | `subscriptions`, `usage_records`, the overage lock | checkout, invoice.created, invoice.paid, payment_failed, subscription.updated, subscription.deleted, overage calculation | webhooks, Stripe, the subscription cache |
| Usage metering (`usage_service.py`) | a Redis hash per period, the cached subscription, retry keys | check_and_increment, rollback_increment, sync_to_database, invalidate, delete | every route that costs units, billing tasks |
| HOBBY reset (`tasks.py`) | the subscription's period | dispatch, reset one organization | subscription row, usage key, cache |
| Webhook endpoint (`webhooks.py`, `locks.py`) | a lock/marker per event | acquire, handle, complete or release | Stripe's retries, the handlers above |
| Trace evaluation runs (`eval_service.py`, `eval_repo.py`, `tasks.py`) | `eval_runs`, `trace_scores`, Celery tasks | prepare, batch, retry failed, dispatch, execute, fail, delete, edit scores | metering, broker, LLM engine |
| Session evaluation runs (the same files) | `eval_runs`, `trace_scores` used as signals, `session_scores` | create, batch, retry failed, reuse or compute signals, aggregate, report, annotate | trace scores shared with trace runs and users |
| Monitors (`tasks.py`, `eval_service.py`, `cadence.py`) | `eval_monitors`, the tick's lock | tick, reschedule, spawn, charge and publish a run; create, update, pause, resume, trigger, delete | metering, evaluation runs |
| Trace ingestion (`trace_service.py`, `trace_repo.py`, `traces.py`, `sessions.py`) | `traces`, `spans`, Celery tasks | enqueue, upsert, retry, PATCH, add and update spans, tag, delete; lists and analytics | metering, broker |
| Identity and invitations (`identity_service.py`, `organizations.py`, `user.py`) | `users`, `organizations`, `memberships`, `invitations` | sign up on first request, create, delete, change roles, remove, invite, accept, decline, revoke, expire | every Bearer request |
| Projects, API keys, CLI login (`project_repo.py`, `cli_service.py`, `dependencies.py`) | `projects`, `api_keys`, one-time codes in Redis | create, rename, delete, get or create, mint, rotate, revoke, issue, exchange | every data-plane request |
| LLM engine, metrics, analytics, email, CRM | an embedding cache; otherwise none | calls to external services | |
| Worker health, beat schedule | heartbeats, dispatch claims | tick, claim | Redis |
| Dashboard | polling state of the run tracker | | HTTP API |

What is hard in it, and what makes each part correct:

* **Money.** Usage is counted in Redis, copied to PostgreSQL, reserved as reports and
  sent to Stripe by tasks and webhooks that run at the same time, die anywhere and
  are retried. No unit of overage may be charged twice, none forgotten, although
  counters move backwards, the lock expires, answers of Stripe are lost and
  idempotency keys are forgotten after a day.
* **Quota.** Requests race for the last unit through a cached subscription that
  webhooks change underneath, and Redis commands are repeated after a lost answer.
* **Events.** Stripe sends an event again when it hears nothing, and sometimes when it
  does; the handler must run, and run once.
* **Runs.** A run is a row and a Celery task that know nothing of each other: the task
  may be lost, repeated, retried, cut off by two time limits, and its rows deleted
  under it. A run must end, and a completed one must be complete.
* **Schedules.** A tick may overlap with the next, die with its lock or fail halfway, and
  the task of a due monitor is retried after it has committed and charged a run: one run
  per due time, paid once.
* **Traces.** Payloads of one trace arrive in any order and again, and are merged while
  users patch, tag and delete the row; what was sent must not be lost, and the numbers that
  different queries report must agree.
* **Tenants.** Every handler checks first and writes later, in a READ COMMITTED
  transaction: roles, invitations, names and codes can change between the two. An
  organization keeps its owner, a code or an invitation is good once, a request stays in
  its tenant.

`PROJECT.json` lists the hazards at their lines.

## 2. Modules

| Module | Models | Kind |
|---|---|---|
| `BillingReports` | overage billing of one period of one organization | specification |
| `OverageLedger` | what overage billing promises: an exactly-once ledger | abstract specification |
| `BillingReportsLedger` | the mapping of the first onto the second | refinement |
| `BillingProofs` | tiling, watermark, single charges, the refinement of the ledger, closing; for `WebhookEvents`: exclusive lock, effects applied once, acknowledged only when processed | proofs |
| `OwnedLock` | the three Lua scripts of `locks.py` | operators |
| `WebhookEvents` | the deliveries of one Stripe event; uses `OwnedLock` | specification |
| `UsageMetering` | quota, refunds and the subscription cache of one organization | specification |
| `EvalRun` | trace evaluation runs, their tasks and scores | specification |
| `EvalRunProofs` | retries replace, completed runs are complete | proofs |
| `Monitors` | the schedule of monitors, the runs it spawns and what they cost | specification |
| `MonitorsProofs` | runs are paid for, one firing per due time | proofs |
| `SessionEval` | session evaluation runs, shared signals, aggregation and reports | specification |
| `SessionEvalProofs` | one score per target, completed runs are complete, monotone scores, reports that agree | proofs |
| `Sums` | sums, maxima and cardinalities of finite sets; no part of the system | lemmas |
| `TraceIngest` | traces and spans of one project, ingestion, edits, analytics | specification |
| `IngestionProofs` | nothing forgotten, spans have traces, totals agree; for `UsageMetering`: the quota and the counter of the first period | proofs |
| `Organizations` | users, organizations, roles and invitations | specification |
| `OrganizationsProofs` | owner, orphans, invitations, limit of organizations | proofs |
| `Credentials` | API keys, projects and the CLI login of two tenants | specification |
| `CredentialsProofs` | codes, tenants and project names | proofs |
| `MC*` | symmetry sets, payloads, plan tables and cadences for TLC | instances |

Definitions keep the names of the source where they can; a comment names the handler
an action stands for, and the `map` in `PROJECT.json` its lines. Definitions whose
comment begins with *Mutant* are not part of a specification: each is a plausible
bug, used to show that a property notices it.

### BillingReports

State: `live` (the Redis hash), `usage` (the `usage_records` row), `sub`, `reports`
(the `billing_reports` rows in creation order), `watched` (whether the closure is
still among the recent ones), `lock`, `work` (what each worker or webhook handler
remembers between steps) and Stripe's side: `invoice`, `items`, `saved` (remembered
idempotency keys) and `net` (requests whose sender is gone).

A database transaction is one step: its row locks (`lock_usage`, `lock_report`) make
it atomic. Reading Redis, committing, sending a request to Stripe and receiving its
answer are separate steps. Actions: counting and refunding (`Increment`, `Refund`,
`KeyExpires`); sync (`SyncBegin`, `SyncWrite`); the overage task (`BillBegin`,
`BillStage`); the invoice handlers (`InvoiceCreatedBegin/Stage`,
`InvoicePaidBegin/Close`); the check of closed periods (`LateBegin`, `LateStage`,
`WatchEnds`); deletion (`DeletedBegin/Stage/Skip`, `Downgrade`); delivery
(`DeliverBegin`, `DeliverPrepare`, `DeliverSend`, `DeliverRecover`, `RecordItem`,
`Carryover`, `DeliverUncollectable`, `DeliverFinish`, `DeliverExit`, `DeliverFails`);
Stripe (`InvoiceDrafted`, `InvoiceFinalized`, `StripeAnswers`, `StripeLate`,
`KeyForgotten`, `AttemptAges`); failures (`Crash`, `Restart`, `LockExpires`).

Abstractions: one period, because reports of different periods share no row; the price
of a charge is a function of its units and the frozen base, so units stand for
amounts; the Stripe customer exists; categories are delivered in any order, as the
JSON object they are stored in keeps none; a counter may fall below zero (`Refund`: the
script does not look at it, and the unit may have been counted before the key expired), but
no further than `MaxBelow`; a search of Stripe's items that ends
inconclusively after its 1000 items is possible at every recovery and leads to review.

### OverageLedger and BillingReportsLedger

The ledger has three variables: units reserved, charges owed, invoice lines (each with
the charge it is for). Its steps reserve exactly the new units of a category as one
charge that has no line yet, and invoice an owed charge with exactly one new line, which
settles it. `BillingReportsLedger` reads them off the implementation: what is due off the
first and last report only, what is owed off requests Stripe has no item for, what is
invoiced off Stripe's items. That billing implements the ledger says that the overage
between the first and the last reservation is charged exactly once, unit for unit, or
still owed: neither the reports in between nor the number of attempts matter.

### WebhookEvents and OwnedLock

One event, deliveries numbered in the order Stripe sends them, each a request with its
own lock token. `CallRedis` runs the script the request is at; `ReplyLost` runs it and
loses the answer, which the Redis client (`redis/client.py`: one retry) answers by
sending it again; `RedisDown` does not reach it. `Handle`, `HandleFails` and
`HandleFailsLate` are the outcomes of the handler's transaction; the last raises after
its commit, when the overage lock is released. `SendUnheard` is a retry, an hour after
an unanswered delivery and so after the five minutes of the lock, `SendDuplicate` a
duplicate at any time. `expired` and `interrupted` record what the property
`OnceUnlessInterrupted` excepts, `yielded` (the requests that were answered 200 because
another one held the lock) what `AcknowledgedIsProcessed` and `EventuallyProcessed` do.
The completion marker does not run out here; in the code it lives 72 hours
(`webhooks.py:43`), about as long as Stripe goes on retrying, and a copy that came later
would be processed again.

### UsageMetering

One organization and category. A request looks the subscription up (`Lookup`, `Fetch`,
`Fill`: the read of the row and the store into the cache are separate steps), counts a
unit (`Count`, with the limit and the retry key of the Lua script), is served or fails
(`Serve`, `ServeFails`), and in the latter case looks the subscription up again before
it gives the unit back (`Refund`). Writers are webhooks (`ChangeSub`, `WarmRead`,
`WarmSet`) and the HOBBY reset (`ResetDispatch` to `ResetInvalidate`, retried by
`ResetFails`). Periods are numbered; two periods never share a usage key, which in the
code holds unless they start on the same day.

### EvalRun

Rows (`runs`, `scores`, `traces`), tasks in the broker (`queue`), requests (`api`) and
workers (`work`). `plan` is what a run evaluates, as pairs of a trace and a metric; it
also stands for `trace_metric_map` of a retry. `TakeRun` receives a task, which is
acknowledged there (Celery's default), and executes the DELETE of earlier scores;
`StartRun` commits it, with the counters reset and RUNNING: two executions side by side
delete only what was committed when they began. `StoreScores` is one trace: all
metrics, each with a score or a FAILED score, and the progress, in one commit.
`FailRun`, `RetryRun`, `SoftLimit`, `HardLimit` and `FailLost` are the ends an
execution may come to. Faults and operations of users draw on one budget (`MaxFaults`), so
that an instance can offer all of them and combine any few; `lost` records the runs whose
request or execution was cut off and `touched` that a user deleted or edited something,
which is what `EventuallyEnds` and `CompletedIsComplete` except. A metric list without
repetitions is assumed (the routes do not reject a repeated name: it is evaluated, stored and
counted twice).

### Monitors

`BeatBegin` takes the Redis lock and reads the due monitors, `BeatCommit` reschedules
them in one transaction and releases the lock, `BeatDispatch` queues one task per
monitor, after the lock is gone. `TakeMonitor` reads the monitor and the skip check,
`SpawnRun` reads the targets and counts their units, `CommitRun` stores the run and
`last_run_at`, `Publish` hands it to the broker; `CommitFails`, `ProcessFails`,
`QuotaExceeded`, `TimeLimit`, `WorkerDies` and `Retry` are the other ways out. Users may
change the row between any two of these steps. A run is named after the execution that
spawned it, so that the runs of one due time can be told apart. `Redeliver` is the broker
handing a waiting task out again after its visibility timeout: a delivery of the same due
time, with retries of its own.

A commit that raises may have taken place all the same (`InsertUnsure`), and so may a
publish that raises (`unsure` records the run). `RollbackIncrement` gives units back, or is
lost, as `rollback_increment` swallows its own exceptions. A soft time limit at the commit
either reaches the handler, which refunds, or cancels the awaited commit, and
`CancelledError` passes `except Exception` (`tasks.py:464`) by; `stranded` records the
charges that such an end, a lost refund or a death left behind. `Trigger`, `TriggerFails`
and `TriggerEnds` are the same for a run that a user asks for. As in `EvalRun` faults and
user operations draw on one budget (`MaxFaults`).

Time is a counter; a cadence is an interval or, for cron expressions, the multiples of a
number. Left out: filters and sampling, and sessions as targets (the same steps on other
rows).

### SessionEval

`CreateRun`, `CreateBatchRun` and `RetryFailed` commit and publish a run in one step; what
may happen between the two, and to a lost worker, is in `EvalRun`. A worker takes the task
(`Take`), deletes what an earlier attempt of the run stored and resets it (`Start`), reads
the traces of a session (`LoadSession`), then goes through the signals of each trace: the
newest score that is there is reused (`ReuseSignal`), otherwise the signal is computed and
inserted (`ComputeSignal`, a failed one too); `CommitSignals` commits them,
`StoreSessionScores` aggregates and commits the session. Rows inserted and not yet
committed are in `work`, and hold the foreign-key locks of their trace and run: deleting
these waits. A trace score has a data type: `Accepted` is what `validate_score_value` lets
through, a number of 0..1 for NUMERIC and any text for CATEGORICAL (BOOLEAN is among these:
it too is stored as a text). The reuse of a score does not look at its type, so a text that
spells a number (`Spelled`) becomes a signal of that size, in or out of 0..1, and any other
raises outside the metric's `try` and fails the execution. Texts that `float` reads as `nan`
or `inf` are not modelled. The weights of a run are its own (`plan[r].weights`): the
defaults with what the request overrides, of either sign, as the routes accept any float.

`Reliability` and `Consistency` are the two formulas in thousandths, with weights in tenths
and `TopK` in per cent; `BetterSignalsScoreHigher` compares all their inputs of the
instance, under each of its weightings. `ScoreSummary`, `ScoreDistribution`, `ScoreHistory`,
`Comparison` and the trace score variants are the queries of `eval_repo.py`; `width_bucket`
puts the value 1.0 into bucket n + 1, as PostgreSQL does.

### TraceIngest

A task merges its payload with one upsert (`Persist`), fails and is retried
(`ProcessFails`, `Retry`), or times out (`ProcessTimesOut`, not retried). `Merged` has one
column for each kind of merge: overwritten (`status`, `started`), coalesced (`ended`,
`session`, `user`), JSON (`output`, whose `None` is the JSON null and so not a NULL for
COALESCE), united (`tags`, `meta`). `UpdateTrace` reads the row, `UpdateCommit` writes the
columns whose value changed (`Written`: SQLAlchemy's unit of work); `AddSpans`/`AddCommit` and
`UpdateSpan`/`UpdateSpanCommit` likewise. `sent` and `gone` record what payloads said and
what requests asked to remove. The read routes are operators on the same state, and
`TotalsAgree` compares them in every state; they are snapshots here, where the code reads a
page and its total in two statements. One project; a trace id is not used by two projects
(the upsert's conflict clause does not look at the project).

### Organizations

A request is one READ COMMITTED transaction: `_resolve_jwt` and the handler's checks are
one step, the writes and the commit another, and `Rollback` may come instead at any time.
`_resolve_jwt` writes the caller's `users` row first, so the requests of one user exclude
each other (`LocksUser`) and those of different users interleave; for a caller without
organization it provisions one, committed or rolled back with the request (`jit`).
`seen` is what `session.delete` loaded: the foreign keys refuse the deletion of an
organization to which a row was added since. The two counts of the seat check are read one
after the other (`CreateInvitation`, `SeatCheck`). `creator` and `admitted` are history.

### Credentials

The same transactions, for two tenants, of which the second is only seen through its key
and its project. Data-plane requests come with a Bearer token (`ServeJwt`) or a key
(`ServeKey`, `Touch`, `GetOrCreate`, `ServeCommit`): the key is looked up, its row stamped
and held, the project found by name or inserted, and the handler runs with what was
resolved. `ExchangeGet`, `ExchangeDel` and `ExchangeCheck` are the calls of
`CliAuthService.exchange`; what they do to Redis no rollback undoes. Members join and leave
at any time (`MembershipChanges`, whose causes `Organizations` models), `stale` records the
codes whose user left.

## 3. Runs

Every run is bounded by its sets, its `MaxX` constants and, in most modules, by
`Enabled` (`Faults` in `WebhookEvents`), the set of handlers, faults and user operations that
take part. Deadlock is not checked: each instance
really ends when its bounded work is done.

| Run | Question | Bounds, and why they are enough |
|---|---|---|
| `billing_reservation` | Do reservations tile the usage, does the watermark stay behind unresolved charges, are reservations frozen, does closing reserve everything? | two workers, a plan with one included unit and one with none, counts to 2, two reports: two stages race, one of them stale, counters fall after a sync, a late check follows a closure |
| `billing_delivery` | No double charge; reported means charged | one report, two workers that crash, a legacy watermark, renewal invoice drafted and finalised, checkout and status changes, requests arriving late, keys forgotten |
| `billing_settlement` | Is every report settled, overage counted after the closure reserved, and does billing implement the ledger? | two reports, the closing one and a late one, a legacy watermark of 0 or 1; crashes and aging attempts, under fairness |
| `webhook_deliveries` | Is the lock exclusive, are effects applied once, is the event processed and not acknowledged before? | four deliveries, retries and duplicates, the first three with any fault: one that lost its lock, one that took over, one that waits, one retry after |
| `usage_metering` | Is the quota kept, does the counter match, does metering catch up with the subscription? | two requests for a limit of one, two writers, two periods: a winner, a loser, a refund, a stale fill and a stale refresh, with repeated scripts |
| `eval_runs` | Do attempts replace each other, is a completed run complete, does a run end? | two runs of one trace and metric, one possibly the retry of the other's failure, two workers, one retry, one redelivery, and any two of all faults and user operations, under fairness |
| `eval_hard_limit` *(violation)* | Does every run end under the time limits? | one run of one trace |
| `monitor_schedule` | Is a due time evaluated once, do charges match the runs, does no monitor stay due? | one monitor, one due time and one trigger, two ticks at a time, two workers, one retry, and any two of all faults and user operations, redelivery among them, under fairness |
| `session_eval` | One score per target, completed means complete, monotone aggregation, reports that agree | two runs for one session, a second session to move traces to, two workers, one retry, one operation of a user; a computed signal is 0 or fails, an annotation is 0, 1, a text or a text that spells 2; the runs have a negative weight; the formulas over two traces, two signals and three weightings, with the repository's 15 per cent, so that the tail is one of two traces |
| `trace_ingest` | Is nothing forgotten that was sent, does every span have its trace, do totals agree, does every task end? | two tasks out of three payloads (the start and the end of one trace, an error of another), two patches, a late span, two tag edits, one retry, a request in flight |
| `org_membership` | Does an organization keep its creator as owner, are there no orphans, is an invitation good once, is the limit of organizations kept? | three users, three organizations of which requests name one, two invitations, two requests in flight, three seats |
| `credentials` | Is a code good for one key, and none for who left; is the tenant kept, are names unique, does a wrong verifier burn nothing? | two users, two tenants, one code and two verifiers, two new keys (which expire; the other tenant's does not), two new projects and two names, two requests in flight |

The types of a module (`TypeOK`) are a conjunct of one of the invariants of its run
(`ReportedIsCharged`, `CounterMatches`, `AttemptsReplace`, `ChargesMatchRuns`,
`OneScorePerTarget`, `SpansHaveTraces`, `NoOrphans`, `OneProjectPerName`); those of
`WebhookEvents` are part of the invariant of its proofs.
Of the billing runs only `billing_reservation` has a plan with included units, none has
counters below zero (`MaxBelow = 0`) or two plans in one period; the theorems about tiling,
the watermark and the ledger hold for all of these.
Types are proved for every module.

What the violation shows (quoted in `PROJECT.json` under `findings`): in `eval_hard_limit`,
`SoftTimeLimitExceeded` raised inside a metric is caught by the metric's own
`except Exception`; the hard limit then leaves the run RUNNING.

Limits of the properties, found while modelling. The models have all of
these behaviours; a property says what it excepts, or its run leaves the cause out of
`Enabled` where one is named:

* `CloseReservesAll` with `"deleted"`: `handle_subscription_deleted` skips reporting when
  it does not get the overage lock and still closes the period; nothing looks at it again.
* `QuotaHolds` and `CounterMatches` after the first period: a refund goes to the period the
  subscription has when the work fails, not to the one the unit was counted in, and the
  reset deletes the counters of the ended period while requests may still see that period
  in the cache. Both properties are stated for the first period (`FirstPeriod`).
* `EventuallyEnds` without its exception for `lost`: a run committed before its task could be
  published stays PENDING; one whose worker died, or whose failure could not be recorded,
  stays RUNNING.
* `EventuallyProcessed` without its exception for `yielded`: a duplicate that meets the
  processing lock is answered 200 before the outcome of the first delivery is known; if
  that one fails and Stripe counts the event as delivered, the event is lost.
* `OncePerDueTime` with `"slow"`: when a tick takes more than the 60 seconds of its lock, a
  second one finds the same monitors due.
* `OncePerDueTime` excepts a task that the broker delivered again: nothing in
  `process_single_monitor` recognises the due time, and `celery_app.py` sets no visibility
  timeout, so a task that waits, fetched, behind evaluations of up to an hour is run twice.
  It also excepts a publish that raised though the message went out, which is retried.
* `ChargesMatchRuns` excepts the units in `stranded`: counted, with no run, because the
  worker died or was cancelled at the commit or the refund was lost. And a refund after a
  commit that raised though it took place leaves a PENDING run that nobody publishes.
* A monitor is rescheduled before its task is published: an error of the broker or a crash
  in between skips that due time. A run committed and not published stays PENDING, charged
  when a task spawned it and refunded when a user triggered it.
* A run is marked FAILED before each automatic retry, so FAILED is not final while retries
  are left; and two deliveries of one task that run side by side leave up to two scores for
  a pair, which is why `AttemptsReplace` counts deliveries.
* A monitor's skip check looks for traces whose client's start time is later than
  `last_run_at`, which is taken after the targets were read: a trace that arrives between the
  two, or late, does not count as new.
* `CreatorOwns` is about the creator only: the role of another member may be read as ADMIN,
  raised to OWNER by a second request, and then removed or lowered by the first, although
  `organizations.py` says that an OWNER cannot be removed.
* The seats of a plan (`SeatCheck`) are counted before the invitation is inserted and not
  when it is accepted: concurrent requests exceed `max_members`, and can leave two pending
  invitations for one address. The status EXPIRED that `accept_invitation` sets is rolled back
  by the exception that follows.
* `NothingForgotten` leaves out what the code does overwrite: a late payload turns status and
  start back; one without output replaces the stored output by the JSON null, although the
  docstring of `upsert_trace` speaks of non-null fields; a PATCH of metadata writes back what
  it read and drops keys merged in between; a late payload recreates a deleted trace.
* A payload whose project was deleted is dropped after its retries, and stays counted.
* The DEL of `exchange` is not undone when its request rolls back: the code is used up and no
  key was made. A key revoked between its lookup and its stamp still serves that request.
* `prepare_retry_failed_session_run` retries every failed metric for every session with a
  failure, where its route promises only the failed pairs.
* A text annotation of a signal makes every session run that meets it fail. A session all of
  whose signals failed scores 1.0, the documented value for "no evaluable traces". Session
  runs count failed session scores, not failed signals.
* `BetterSignalsScoreHigher` says better in the direction of the weight: a negative weight,
  which the routes accept, makes a higher signal the worse one. For `agent_consistency` it
  compares only inputs without negative risk: the formula squares the risk, so a text that
  spells more than 1.0, or a negative weight, counts as if it were as far on the other side.
* A PATCH of a failed score without a value leaves a successful score without value;
  `get_score_distribution` then has a group without bucket and raises, which is why
  `TraceDistribution` may be `None` in `ReportsAgree`.

### Fairness

* Billing: a running task goes on and Stripe answers (weak fairness of `WorkerStep`); the
  beat schedule queues every pending report and every recent closure again each five
  minutes, so a worker that is free over and over takes it up (strong fairness of
  `DeliverBegin` per report and of `LateBegin`); crashes and outages do not go on for
  ever. The closure marker may age out (`WatchEnds`) but need not. The dispatcher takes at
  most 200 pending reports at a time, oldest update first; that every report comes up
  rests on that rotation, which is not modelled.
* Webhooks: Stripe retries (duplicates are not owed), keys with a TTL expire, requests go
  on. The last delivery of
  an instance meets no fault: faults do not go on for ever.
* Metering: requests and handlers go on, and the cached copy expires after its five
  minutes.
* Monitors: Celery beat queues the tick every five minutes and a worker takes it, a tick
  goes on, a lock left behind expires, ticks do not fail for ever. Nothing is assumed of
  users or of the tasks that spawn runs.
* Runs: a request that is being served goes on, a free worker takes a task, an execution
  goes on until it ends. Errors may come at any point; retries are limited.
* Ingestion: a worker runs the tasks in the queue.
* `SessionEval`, `Organizations` and `Credentials` are checked for safety only: session runs
  end as the runs of `EvalRun` do, and requests end by themselves.

## 4. Proofs

Every safety invariant and every action property of the runs is proved here, for every value
of the constants that the module's assumption allows. Two small specifications are proved
about next to a larger one: `WebhookEvents` in `BillingProofs`, `UsageMetering` in
`IngestionProofs`. A proof module extends both, so these two have names of their own for what
every specification has (`EventInit`, `EventNext`, `EventSpec`; `MeterInit`, `MeterNext`,
`MeterSpec`); the theorems stay those of one specification each.

### Overage reporting (`BillingProofs`)

From `BillingAssumption` alone (types of the constants; any number of workers,
categories and reports, any plan table), for every behaviour of `Spec`:

* `TypeCorrect`: `TypeOK` always holds; the other invariants build on it.
* `Tiling`: reservations of consecutive reports are adjacent (`ReservationsTile`).
* `WatermarkIsSafe`: the watermark never passes an unresolved charge (`WatermarkSafe`).
* `Freezing`: no step changes a committed reservation or moves the watermark back
  (`ReservationsFrozen`).
* `ChargedOnce`: Stripe holds at most one item for what a report owes in a category
  (`NoDoubleCharge`).
* `ReportedHasItems`: a report marked reported has an item for each of its charges
  (`ReportedIsCharged`, with the types).
* `LedgerIsImplemented`: billing refines the ledger (`ImplementsLedger`).
* `ClosingReservesAll`: when the period closes, all counted overage is reserved
  (`CloseReservesAll`), if `"deleted" \notin Enabled`.

Neither tiling nor the watermark property is inductive. `Inv` adds: within a report a
reservation is no larger than its snapshot, snapshots ascend from report to report
(otherwise the maximum that `Reserved` takes need not be the last snapshot), the
watermark is bounded by what was reserved (otherwise a fresh report could start behind
it), every unresolved charge starts at or after it, and locally, that a delivering
worker is at an existing row and one waiting for Stripe holds the request it sent
(otherwise a crash could leave a request without a report). `AppendSound` shows that
staging preserves this, `UpdateSound` that rewriting a row's delivery state does, and
`FinishSound` that `finish()` does: the minimum over the open charges of the other
reports, and the maximum with the old watermark, keep it behind all of them. The step
theorem splits `Next` into its five groups and each of these into its actions.

The charges need a second invariant, `Charged`, on top of `Inv`. It relates the three
places a charge is in at once, Stripe, the requests under way and the row:

* `OnRowOK`: one worker at a time has a request for a row, and that request is the one the
  row describes (`Current`: attempted, the same key, the same invoice);
* `NetOK`: a request whose sender is gone is current, or `Obsolete`: it names the first key
  of a charge since carried over, on an invoice that is final, so Stripe refuses it;
* `ItemsOK`: an item has the key its row would use now, no key has two items, and a
  remembered key has one;
* `ForgottenOK`: once Stripe has forgotten the key of an item, the row's attempt is old and
  no request with that key is left, so that only the search of `DeliverRecover` follows;
* `AnswersOK`: an answer tells the truth about the item until it is recorded;
* `RecordedOK`: what the row calls an item is one at Stripe, and a carried-over charge is
  off the invoice.

The refinement rests on both. Every step is of one of three kinds: it keeps the charges of
the rows (`KeepsRows`), appends a report (`AddsRow`), or has a request arrive at Stripe
(`Arrives`). The ledger stutters on the first (`LedgerStutters`), reserves on the second
(`LedgerReserves`: tiling makes the new report's interval exactly the new units) and on
the third stutters or invoices (`LedgerInvoices`: by `Charged` the charge had no item, so
it was owed). `Booked` adds that only what was asked for is attempted and that all reports
of a period share a base.

`ClosingReservesAll` needs that no closing report exists before the row is billed
(`OpenOK`). The hypothesis leaves out the handler of a deleted subscription, as the run
does: `DeletedSkip` closes a period without a report when the overage lock is busy
(`billing_service.py:571`), so without the hypothesis the statement is false of the code.

### Webhook events (`BillingProofs`, last section)

From `WebhookAssumption`, for any number of deliveries and any set of faults:

* `LeaseIsExclusive`: `ExclusiveLease`, which with the types is inductive;
* `AppliedOnce`: `OnceUnlessInterrupted`, which is not. `Calm` adds that as long as no lock
  ran out and nothing was interrupted, a handler runs only before anything was
  committed, and after a commit the key holds the committing request's token until it
  holds the marker;
* `AcknowledgedAfterCommit`: `AcknowledgedIsProcessed`. `Acknowledged` adds that the marker,
  and a request about to write it, follow a commit.

### Usage metering (`IngestionProofs`, last section)

From `UsageAssumption` (finitely many requests; any number of writers and any limit):
`QuotaIsKept` (`QuotaHolds`) and `CounterIsBounded` (`CounterMatches`). `Balance` holds the
counter of the first period between the number of requests that owe their unit (`Owing`)
and the number that ever got one (`Granted`), and under the limit. Between the two are
the requests whose refund ran and lost its answer. `Seen` keeps every remembered
subscription from being newer than the row, `WriterOK` keeps the reset from deleting the
current counter. Every step of a request is one of three entries (`Accounts`): none, one
unit up, one unit down.

### Trace evaluation runs (`EvalRunProofs`)

From `EvalAssumption` (finitely many traces and metrics; any number of runs and workers,
any limits of retries, copies and faults): `RetriesReplace` (`AttemptsReplace`) and
`CompletionIsComplete` (`CompletedIsComplete`). The attempts of a task are a chain that a
single token moves along, in the queue or with one worker (`OneToken`); `ScoresOK` says
that what an earlier attempt stored is doomed until it is deleted and that no stored
score is of a trace still to do. `Counted` is existential: there is a set of counted
targets and of failed pairs, with the counters as cardinalities, in which no pending trace
occurs. `ExactInv` is what completion needs if nothing was redelivered: the counters equal
what is done, and unless a user deleted or annotated something, so do the scores.

### Monitors (`MonitorsProofs`)

From `MonitorAssumption` (any number of monitors, ticks, workers, traces and retries, any
set and number of faults, redelivered tasks among them):

* `RunsArePaidFor`: `ChargesMatchRuns`. Each delivery of a firing has one token, in the queue
  or with one worker (`OneToken`), which has not yet inserted the run of its attempt until it
  commits (`Fresh`) and whose published runs are only those it does not know of (`Open`);
  `Charges` then relates units, runs, and what was stranded.
* `DueTimesRunOnce`: `OncePerDueTime`, if `"slow" \notin Enabled`. `Exclusive` says that a due
  time is fired once, redeliveries apart, that what is read, about to be queued or scheduled
  for a monitor lies at strictly later times than what was fired, and that a tick that has
  read the due monitors holds the lock until it commits. The lock has a timeout of 60 seconds
  and commits do not check it, so the hypothesis is needed: a slow tick commits after another
  has taken the same due time.

### Trace ingestion (`IngestionProofs`)

From `IngestAssumption` (payloads and patches that validation lets through; any number of
them, for finitely many traces, spans, sessions, models, users and times): `IngestedIsKept`
(`NothingForgotten`), `SpansBelongToTraces` (`SpansHaveTraces`) and `TotalsAddUp`
(`TotalsAgree`).
`Tables` keeps rows, request locals and what was sent typed; a trace that has no row has
nothing sent that must be found. The proof follows the merge column by column: tags are a
union, the other columns coalesce. For the totals every query is a sum or a count over the
rows, grouped by bucket, session, model or user; `Sums` turns the sum over the groups into
the sum over the rows, where each row is in one group or, without session, model or user, in
none. That the spans belong to traces that exist is needed there: the tokens by session are
read through the trace.

### Organizations (`OrganizationsProofs`)

From `OrganizationAssumption` (finite sets; positive limits): `CreatorStaysOwner`
(`CreatorOwns`), `RowsGoWithOrganization` (`NoOrphans`), `InvitationAdmitsOnce`
(`AdmittedOnce`) and `CreationIsBounded` (`OwnedByCreation`). `RequestOK` says what the checks
of a request still mean when it writes: its target is not the creator, its invitation
still belongs to its organization and admitted nobody, its count still leaves room.
`Isolated` makes that stable: two requests in flight never have the same user, because
each locks its `users` row. `Rows` is what the foreign keys keep.

### Projects, keys and CLI login (`CredentialsProofs`)

From `CredentialAssumption` (any number of users, tenants, projects and codes, finitely many
keys): `CodeMintsOneKey` (`MintedOnce`), `CodeOfLeaverMintsNone` (`LeaverGetsNoKey`),
`RequestsStayInTenant` (`ScopedToTenant`), `ProjectNamesAreUnique` (`OneProjectPerName`) and
the action property `OnlyVerifiedExchangesBurn` (`OnlyVerifiedBurns`). `Tokens` says that a
consumed code is with one request or in one key; `CodeOK` what an exchange knows of its
code between its Redis calls, and that a verified one verified against the challenge that
is still stored; `UniqueNames` extends uniqueness to inserted and uncommitted projects;
`ProjectOK` and `KeyOK` tie a request to rows of its own tenant.

Each inductive invariant was checked by TLC on the instance of its run before it was proved.

### Session evaluation runs (`SessionEvalProofs`)

From `SessionEvalAssumption` (finitely many traces, sessions, workers and signals; any number
of runs, retries and user operations; any integer weights, any integers that texts spell,
any scale, a tail of 1 to 100 per cent):

* `OneScore`: `OneScorePerTarget`, with the types. That a run holds one score per session and
  metric is not inductive: a score must also not exist yet when it is stored. `OneTask` says
  that a run has one task, in the queue or with one worker, so nobody else writes for it;
  `Remaining` that nothing is stored for the sessions still to do, which `Start` makes true by
  deleting; `Counted` bounds the rows of a signal by the sessions begun. The bound is no
  smaller, because a trace whose signal failed may be moved to a session that comes later,
  where the signal is computed again.
* `CompletedRuns`: the action property `CompletedIsComplete`. `Progress` ties the counter to
  the sessions done, `Undisturbed` the session scores and the failures to them, as long as no
  user operation came between.
* `BetterScoresHigher`: `BetterSignalsScoreHigher`, a fact about the two formulas. A better
  input has, for each trace, a subset of the signals with no more risk each; maxima, sums of
  the `k` largest and rounded quotients each keep that order, of negative risks too, and for
  risks that are not negative so do sums of squares and roots. That the
  inputs concern the same traces is needed: a trace without signals leaves the mean.
* `RoutesAgree`: `ReportsAgree`. Every score is in one bucket of the distribution, or is a
  text; in the history of one session; and in the comparison only once, since no two scores of
  a session and metric have the same place in the order of creation (`SessionScores`).

### Sums and finite sets (`Sums`)

`SumFunctionOnSet` of the community modules is a fold: the value at `S` of some function that
solves a recursion over the subsets of `S`. `SolutionExists` and `SolutionUnique` show that
there is exactly one solution on a finite set, from which follow the sum of one element more,
of a union, over groups, and that sums keep the order of their terms. Induction over a finite
set is `SetInduction`, whose property is a set of subsets instead of a predicate: if it lacked
one there would be a smallest one it lacks, by the well-foundedness of strict inclusion.

### Only model-checked

* Liveness (`EventuallySettled`, `LateUsageReserved`, `EventuallyProcessed`,
  `CacheCatchesUp`, `EventuallyEnds`, `DueIsTaken`, `Settles`), which needs fairness and
  ENABLED.
* The violation of `EveryRunEnds` in `eval_hard_limit`, a counterexample.

## 5. Not modelled, and the plan

Without state, or external: prompts and LLM providers, analytics events, email, CRM, the
verification of tokens, request validation and response shapes, the dashboard and its
polling of runs, the worker health probe. Not modelled although they have state: the calendar
(`BillingReports` and `UsageMetering` treat periods as given, so periods that start on the
same day, and a period reset into the future, do not show), the 200-report batch of the
delivery dispatcher with its 120-second claim, the LRU cache of embeddings, cron expressions
in the run of `Monitors` (its `NextRun` has them). Filters and sampling only choose targets,
which the models choose freely. Two categories of usage at once are proved about
(`BillingProofs`) but too many for TLC together with crashes.

No safety property of a run is left to prove. The hypotheses of `ClosingReservesAll`
and `DueTimesRunOnce` cannot be dropped: section 4 says why.
