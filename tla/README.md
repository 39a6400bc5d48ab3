# Verification of croj-judging-server

TLA+ models of the judge orchestration server, checked with TLC on small
instances and, for the core, proved with TLAPS for every value of the constants.

## 1. The system

The server has two entry paths that share an execution pipeline.

* **Internal path.** A RocketMQ consumer resolves a task, `TaskRegistry`
  deduplicates deliveries, the pipeline runs it, and a callback client publishes
  the result to the backend.
* **External path.** A REST API admits jobs into MySQL. Durable workers claim
  them under leases, run them, and settle them together with a webhook event in a
  transactional outbox. A webhook worker delivers the events. Background sweepers
  remove expired sources, idempotency records, reservations and staged bundles.

| Component | Source | State | Operations | Hard behaviour |
|---|---|---|---|---|
| Job repository | `external/mysql_job_worker.go` | tenant, job, attempt, daily ledger, outbox rows | claim, heartbeat, control, complete, fail, recover | leases against stale clocks, takeovers, budgets across midnight, wakeups |
| Admission, cancel | `external/mysql_job_repository.go` | job, idempotency, source, reservation rows; object store | submit, replay, cancel | ambiguous commit, compensation, replay races |
| Durable worker | `worker/runner.go` | one claim, its execution, heartbeat and control loops | claim, load, execute, settle | crash, late settlement, cancellation racing completion |
| Webhook outbox and worker | `external/mysql_webhook_outbox.go`, `webhook_worker.go`, `webhook.go` | outbox row with lease and attempt count | claim, deliver, settle, sweep | crash after the receiver accepted, retry at the limits |
| Source retention | `external/source_retention.go` | source rows with claim tokens | expire, claim, delete, finalize | two-phase deletion, blockers appearing late |
| Reservations | `external/source_reservation.go` | reservation rows with leases | acquire, sweep | sweeper against a slow submitter |
| Bundles | `external/bundle_repository.go`, `bundle_service.go`, `bundle_reconciler.go`, `bundle_staging_gc.go` | bundle rows, publication leases, staged objects | upload, publish, revive, sweep | publisher races, staged object still referenced |
| Request quota | `external/redis_quota.go` | token bucket | allow | rounding, clock going back |
| Task registry | `service/task_registry.go`, `judge_service.go`, `consumer/rocketmq.go`, `callback/client.go` | entry per task | claim, execute, publish, evict | duplicates, failed publish, full registry |
| Batch pipeline | `service/bundle_batch_pipeline.go` | none across calls | run, retry, validate, score | retry elsewhere, malformed event streams |
| Sandbox connections | `sandbox/client.go`, `scheduler/scheduler.go` | pool with reference counts | acquire, release, evict, close | eviction of a connection in use |
| Bundle cache | `bundle/cache.go` | entries, flights | resolve, evict | follower of a flight whose result was evicted |
| Runtime | `app/runtime.go`, `cmd/` | readiness, shutdown order | start, stop | partial start |
| Stateless parts | `httpapi/`, `bundle/{archive,manifest,pack}.go`, crypto, transport, config, migrations, generated code | none | parse, encode, route | - |

The parts interact through the database. Admission writes the job a worker
claims; settlement writes the event the webhook worker claims; retention may
delete a source only when no job needs it. Every job transaction locks the tenant
row first, which makes a committed transaction one atomic step of the model.

## 2. The modules

* **`JobRepository`** models the five tables of the job path and every
  transaction that changes them. `Submit`, `Cancel`, the recovery of a job whose
  lease ran out (`RecoverDisabled`, `RecoverCancelled`, `RecoverExhausted`,
  `RecoverImpossible`, `RecoverDeferred`), a claim, `Heartbeat`, the outcomes of
  `Complete` and `FailInfrastructure`, and the operator's and the clock's steps.
* **`JobLifecycle`** is the abstract specification: what a client sees of a job
  (status, cancellation, result, failure) and of its event.
* **`JobWorker`** composes `JobRepository` with the control flow of `runner.go`:
  claim, load, execution, the monitor that turns a heartbeat or control result
  into at most one control event, the settlement, crash and restart.
* **`WebhookOutbox`** models the rows of the outbox and the transactions on them:
  `InsertEvent`, `LeaseEvent` and `DeadLetter` (the two ends of `claimWebhook`),
  `SettleWebhook` and `SweepTerminal`.
* **`WebhookWorker`** composes `WebhookOutbox` with `processNext`, the outcomes of
  `DeliverOutcome`, the backoff, a receiver, lost answers and crashes. A worker is
  idle, has claimed, is sending, or has answered: it knows what to settle.
* **`MCJobRepository`, `MCJobWorker`, `MCWebhook`** give the constants small values.
* **`JobRepositorySteps`, `JobRepositoryProofs`, `JobLifecycleProofs`,
  `JobLedgerProofs`, `WebhookProofs`** hold the theorems.

`JobRepository` ends where the event is inserted (`InsertTerminalEvent`);
`WebhookOutbox` begins there and lets `InsertEvent` happen at any time.

State corresponds to columns: `job[j].nextAt` is `next_attempt_at`, `cancel` is
"`cancel_requested_at` is not null", `leaseUntil` is `lease_until`, `-1` is NULL.
An absent row has status `NONE`. `PROJECT.json` maps each definition to its lines.

### What the abstraction keeps and leaves out

* **Clocks.** Claim, heartbeat and settlement read `CURRENT_TIMESTAMP` before
  they wait for row locks. Their `c` may lag `now` by `MaxClockLag`. Submit and
  Cancel read it after locking and use `now`. `lockActiveClaimAndPolicy` compares
  the lease with the current time in its locking statement; the wait inside that
  one statement is not modelled.
* **SKIP LOCKED** is a set of rows held by others (`TenantLocks`, `JobLocks`),
  chosen freely for each claim. `Heartbeat` does not lock the tenant, so the two
  selects of a claim may see different leases. Skipped rows and the check of the
  running limit cover this.
* **Lease tokens.** Every attempt draws a new token, so the attempt number stands
  for it.
* **Time** counts abstract units; a day has `DayLength` of them. Milliseconds of
  execution are small naturals; the code's overflow guards bound them.
* **Submit** contains the admission decision and the inserted row. A replay
  changes nothing. Reservations and source objects are outside (section 7).
* **The worker's clock.** `processNext` estimates the database time as the time of
  its claim plus what elapsed since before it asked. The estimate runs ahead of
  the database by the worker's `skew`. A request at clock `n` is in flight at some
  instant of `[n, n+1)`, and its context ends it before its deadline is reached;
  that the context ends it on time is assumed of the runtime.
* **Webhook settlements** carry a delay. The repository also accepts an absolute
  `RetryAt`, which no caller sends. A settlement the repository would reject
  disables `SettleWebhook`; `SettlementsAccepted` shows that there is none. The
  base delay is at least two nanoseconds, or its half would be rejected. The codes
  stored with a dead event are left out, as nothing reads them. The worker's
  second look at the expiry, after a claim that has just checked it, never fires.
* **Commit** is reliable here. A settlement whose commit fails is the settlement
  that did not happen or the crash of its worker after it did.

## 3. What the runs check

| Run | Instance | Properties |
|---|---|---|
| `jobs_one_tenant` | two jobs, budget 2, two days, clock lag 1, any job rows locked, times below and above the reservation | `ChargeWithinReservation`, `LedgerBalanced`, `DailyBudget`, `OneRunningAttempt`, `NoLostWakeup`, `LiveLeaseIsSafe`, `PublishedByLiveClaim` |
| `jobs_operator` | two jobs, status and policy changing | `LedgerBalanced`, `LeaseMatchesStatus`, `CancelHonoured`, `EventMatchesJob`, `TerminalIsFinal`, `ImplementsLifecycle` |
| `jobs_backlog` | three jobs, one queued and one running allowed | `RunningWithinLimit`, `BacklogBounded`, `TriesBounded` |
| `workers_safe` | two workers, one job, crashes, lag 1 | `WorkerTypeOK`, `AttemptFences`, `PlaceholderDiscarded` |
| `workers_live` | one worker that may crash, two jobs, seven time units | `EveryJobEnds`, `CancellationEnds` |
| `webhook_race` | two workers, one event, crashes, lag 1, skew 1 | `OneRequestInFlight`, `DeliveredWasAccepted`, `AttemptsBounded`, `EndedIsFinal` |
| `webhook_answers` | one worker, twelve statuses, four Retry-After values | `TypeOK`, `SettlementsAccepted` |
| `webhook_queue` | two events of two tenants, any rows locked, the sweep | `ScheduledBeforeExpiry` |
| `webhook_live` | one worker that may crash, two events | `EveryEventEnds` |
| `poison_job` | lowered ceiling | `OversizedJobEnds` is violated |
| `poison_tenant` | the same with a second tenant | `EveryTenantServed` is violated |

**Bounds.** `MaxTime`, `MaxClockLag`, `MaxAttemptNo`, `MaxBeats`, `LastSubmit`,
`LastInsert` and `MaxSkew` are the only bounds. Two jobs suffice for competition over a budget, a wakeup or
a slot; three for a backlog in which one job waits, one runs and one is refused.
Two days of two units contain a claim on one day and its settlement on the next.
Two attempts contain a takeover, three an attempt beyond the limit. Two workers
contain a late settlement against its successor. No passing run has two tenants:
apart from the choice of the next tenant, a step reads and writes the rows of one.
In the webhook runs the clock outlasts the delivery window, a lease fits twice into
it and the statuses lie on both sides of every border of the classification, so
expiry, reclaim, exhaustion and each kind of answer occur.

Deadlock checking is off because the clock and the set of jobs are bounded: an
instance in which all jobs ended at `MaxTime` stops.

**Fairness.** A worker loops until it is stopped and every call it makes has a
context deadline, so `FairSpec` assumes weak fairness of each worker's own steps
and of the clock. Nothing assumes that clients or operators act, or that an
execution succeeds. `PromptSpec`, used by `workers_live`, adds that the polling
interval is short against a lease: time does not pass while an idle worker could
claim. Without it the bounded clock could run out before the first poll. The
webhook worker needs no such assumption: an event that is late becomes a dead
letter. Its `FairSpec` assumes the worker's own steps and the clock; the receiver,
the sweep and the operator are free.

### Disagreements with the documents

A claim checks the bundle's manifest against the tenant's current ceilings
(`mysql_job_worker.go:306`). When an operator lowered a ceiling after the job was
admitted, the check returns an error that rolls the transaction back.

* The job stays QUEUED for ever (`poison_job`). The design says "deterministic
  invalid bundle/config failures and exhausted attempts finish as `FAILED`"
  (`docs/superpowers/specs/2026-07-19-external-http-judge-api-design.md:102`).
* The error returns (line 313) before any call of `advanceTenantFairness`, so the
  cursor does not move, that tenant is chosen again and a single worker serves no
  other (`poison_tenant`). The design promises "bounded round-robin fairness"
  (`docs/superpowers/specs/2026-07-20-external-rest-production-hardening-design.md:17`).

The error is not transient, so `Runner.Run` also returns (`runner.go:157`) and the
external runtime ends; a restarted worker meets the same job first. Here that is a
step no worker can take, the same as the restart of an idle worker. With several
workers SKIP LOCKED may let another tenant through while a failing claim holds
the first one's row.

## 4. What is proved

The theorems hold for all sets of tenants, jobs, events and workers, all policies,
leases, lags and skews allowed by `JobsAssumption`, `PolicyAssumption`,
`ClockAssumption`, `OutboxAssumption` and `WorkerAssumption`.

| Theorem | Statement |
|---|---|
| `TypeCorrect` | `Spec => []TypeOK` (proved only) |
| `LeaseCorrect` | `Spec => []LeaseMatchesStatus` |
| `CancelCorrect` | `Spec => []CancelHonoured` |
| `EventCorrect` | `Spec => []EventMatchesJob` |
| `AttemptCorrect` | `Spec => []OneRunningAttempt` |
| `TerminalCorrect` | `Spec => TerminalIsFinal` |
| `LeaseSafety` | `Spec => LiveLeaseIsSafe` |
| `PublicationCorrect` | `Spec => PublishedByLiveClaim` |
| `LifecycleCorrect` | `Spec => ImplementsLifecycle` |
| `BudgetCorrect` | `Spec => []DailyBudget` |
| `WebhookProofs!TypeCorrect` | `Spec => []TypeOK` of the webhook worker |
| `RequestsExclusive` | `Spec => []OneRequestInFlight` |
| `DeliveryCorrect` | `Spec => []DeliveredWasAccepted` |
| `AttemptsCorrect` | `Spec => []AttemptsBounded` |
| `ScheduleCorrect` | `Spec => []ScheduledBeforeExpiry` |
| `EndedCorrect` | `Spec => EndedIsFinal` |

**The argument.** The invariants are not inductive one by one: that a cancelled
job never returns to the queue needs that only a RUNNING job carries a request,
which needs the shape of the attempt rows. `RowInv` (in `JobRepositorySteps`)
joins, per job, the row types with the relations between a job, its attempts and
its event. `StepShape` shows that every step changes at most one job apart from
wakeups, and lists the ways it may; each invariant and action property is then
proved once per shape. `LifecycleCorrect` maps each shape to a lifecycle step or a
stutter. `BudgetCorrect` follows from the ledger alone: a claim checks the room
before it reserves, and a release moves at most the reserved amount.

For the webhook worker, that requests do not overlap needs two facts that `Inv` (in
`WebhookProofs`) adds: a worker whose lease has not run out still owns its row,
and a request's deadline lies within that lease. The first holds because a claim
takes only events that are free by a clock no later than the database's; the second
because the estimate never runs behind. `DeliveredWasAccepted` needs that a worker
reports a delivery only for an accepted attempt. `ScheduleCorrect` and
`EndedCorrect` follow from a list of what a step may do to a row (`RowStep`).

**Only model-checked.** `LedgerBalanced` (a sum over a set, which needs induction
over data), `NoLostWakeup`, the three limits, the properties of `JobWorker`,
`SettlementsAccepted` (the backoff is a recursive function), and all liveness, which
is out of the prover's reach together with ENABLED.

## 5. Hazards

`PROJECT.json` lists them at the lines where they bite, with the properties that
would catch them. Those without a property carry a note; most belong to the parts
in section 7.

## 6. Running

```
tlc -config JobsOneTenant.cfg MCJobRepository
tlapm JobRepositoryProofs.tla
```

## 7. Plan and what is not modelled

In order:

1. `Submission`: replay, the two reservations, the source object, compensation,
   the ambiguous commit and the sweeper; no committed job without its source, no
   object left for ever.
2. `SourceRetention`: two-phase deletion and its blockers.
3. `TaskRegistry`: duplicate deliveries, remembered results, a full registry.
4. `BundlePublication` with the staging collector and the reconciler.
5. `TenantFairness`: bounded bypass with endless backlogs and ties of the cursor.
6. `BundleCache`, the sandbox connection pool, the runtime's start and stop.
7. Pure algorithms against reference definitions: the manifest's
   worst-case time, batch validation, aggregation and scoring, the token bucket.
8. Proofs: `NoLostWakeup`, `RunningWithinLimit`, `WorkerSpec => Spec` and the
   fences of the reservations.

Left out for good: parsing, encoding and cryptography (no state), the REST layer
(stateless), Kubernetes discovery (an external watch), migrations, configuration
and generated code.
