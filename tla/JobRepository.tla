----------------------------- MODULE JobRepository -----------------------------
(***************************************************************************)
(* The durable job repository of the external REST path: the rows of       *)
(* t_external_tenant, t_external_job, t_external_job_attempt,              *)
(* t_external_execution_daily and t_external_webhook_outbox, and the       *)
(* transactions of MySQLJobRepository that change them.                    *)
(*                                                                         *)
(* Every transaction that changes a job takes the tenant row first, so a   *)
(* committed transaction is one atomic action.  What is not atomic is the  *)
(* clock: most transactions read CURRENT_TIMESTAMP before they take their  *)
(* row locks, so their "now" (the parameter c) may lag behind the clock at *)
(* which they take effect.                                                 *)
(*                                                                         *)
(* A claim handed to a worker is [job, attempt, worker].  The random       *)
(* lease_token of a claim is not a separate field: every attempt draws one *)
(* token, so two claims of a job have the same token exactly when they     *)
(* have the same attempt number.                                           *)
(***************************************************************************)
EXTENDS Integers, FiniteSets, FiniteSetsExt

CONSTANTS
    Tenants,        \* primary keys of t_external_tenant
    Jobs,           \* primary keys of t_external_job, in order of creation
    Workers,        \* worker identities
    TenantOf,       \* job.tenant_id
    Cost,           \* maximumManifestExecutionMillis of the job's bundle
    Size,           \* time and memory limits the bundle's manifest asks for
    HasCallback,    \* the jobs submitted with a callback_id
    Policies,       \* the policies an operator may install
    Results,        \* results a worker may report: [time, compile]
    OperatorStatus, \* statuses an operator sets on tenants
    Failures,       \* failures a worker may report: [permanent, charge]
    TenantLocks,    \* tenant rows other transactions may hold (SKIP LOCKED)
    JobLocks,       \* job rows other transactions may hold (SKIP LOCKED)
    DayLength,      \* clock units in one accounting day
    LeaseDuration,
    RetryDelay,
    MaxTime,        \* bound of the clock
    MaxClockLag,    \* how far a transaction's clock may lag behind
    MaxAttemptNo    \* the largest attempt_no (2^32 - 1 in the code)

Times == 0 .. MaxTime
AttemptNos == 1 .. MaxAttemptNo
NoCases == -1       \* a result without a case list
NoWorker == "none"
NoResult == [time |-> NoCases, compile |-> "NONE"]
NoFailure == "NONE"
NoLease == -1       \* lease_until IS NULL
Never == -1         \* last_claimed_at IS NULL; NULL sorts before every time
NoEvent == [status |-> "NONE", result |-> NoResult, failure |-> NoFailure]

Policy == {p \in [maxRunning : Nat \ {0}, maxQueued : Nat \ {0}, maxTries : 1 .. 10,
                  daily : Nat \ {0}, ceiling : Nat \ {0}] : p.maxRunning <= p.maxQueued}

ASSUME JobsAssumption ==
    /\ Tenants \subseteq Nat
    /\ Jobs \subseteq Nat
    /\ IsFiniteSet(Jobs)
    /\ NoWorker \notin Workers
    /\ TenantOf \in [Jobs -> Tenants]
    /\ Cost \in [Jobs -> Nat \ {0}]
    /\ Size \in [Jobs -> Nat]
    /\ HasCallback \subseteq Jobs

ASSUME PolicyAssumption ==
    /\ Policies \subseteq Policy
    /\ Results \subseteq [time : Nat \cup {NoCases}, compile : {"SUCCEEDED", "FAILED"}]
    /\ OperatorStatus \subseteq {"ACTIVE", "DISABLED"}
    /\ Failures \subseteq [permanent : BOOLEAN, charge : BOOLEAN]

ASSUME ClockAssumption ==
    /\ DayLength \in Nat \ {0}
    /\ LeaseDuration \in Nat \ {0}
    /\ RetryDelay \in Nat
    /\ MaxTime \in Nat
    /\ MaxClockLag \in Nat
    /\ MaxAttemptNo \in Nat

VARIABLES
    now,        \* CURRENT_TIMESTAMP of the database
    tenant,     \* t_external_tenant
    job,        \* t_external_job
    attempt,    \* t_external_job_attempt, by job and attempt_no
    ledger,     \* t_external_execution_daily, by tenant and accounting_day
    outbox      \* t_external_webhook_outbox, by job

vars == <<now, tenant, job, attempt, ledger, outbox>>

-----------------------------------------------------------------------------
(* The calendar of the accounting days. *)

Day(c) == c \div DayLength
Midnight(d) == d * DayLength
Days == 0 .. Day(MaxTime)

-----------------------------------------------------------------------------
(* Types. *)

Terminal == {"SUCCEEDED", "FAILED", "CANCELLED"}
JobStatus == {"NONE", "QUEUED", "RUNNING"} \cup Terminal
FailureCodes == {NoFailure, "WORKER", "TENANT_DISABLED", "LEASE_EXPIRED",
                 "DAILY_EXECUTION_LIMIT_TOO_LOW"}
AttemptStatus == {"NONE", "RUNNING", "SUCCEEDED", "FAILED", "CANCELLED", "EXPIRED"}

TenantRow == [status : {"ACTIVE", "DISABLED"}, policy : Policies,
              lastClaimed : Times \cup {Never}]
JobRow == [status : JobStatus, attempt : AttemptNos \cup {0},
           worker : Workers \cup {NoWorker}, leaseUntil : Nat \cup {NoLease},
           nextAt : Nat, cancel : BOOLEAN, result : Results \cup {NoResult},
           failure : FailureCodes]
AttemptRow == [status : AttemptStatus, worker : Workers \cup {NoWorker},
               day : Days, reserved : Nat, consumed : Nat]
Event == [status : Terminal \cup {"NONE"}, result : Results \cup {NoResult},
          failure : FailureCodes]

NoJob == [status |-> "NONE", attempt |-> 0, worker |-> NoWorker,
          leaseUntil |-> NoLease, nextAt |-> 0, cancel |-> FALSE,
          result |-> NoResult, failure |-> NoFailure]
NoAttempt == [status |-> "NONE", worker |-> NoWorker, day |-> 0,
              reserved |-> 0, consumed |-> 0]

(* Every row of the five tables has the type its columns declare. *)
TypeOK ==
    /\ now \in Times
    /\ tenant \in [Tenants -> TenantRow]
    /\ job \in [Jobs -> JobRow]
    /\ attempt \in [Jobs -> [AttemptNos -> AttemptRow]]
    /\ ledger \in [Tenants -> [Days -> [reserved : Nat, consumed : Nat]]]
    /\ outbox \in [Jobs -> Event]

Init ==
    /\ now = 0
    /\ tenant \in [Tenants -> {[status |-> "ACTIVE", policy |-> p, lastClaimed |-> Never] :
                               p \in Policies}]
    /\ job = [j \in Jobs |-> NoJob]
    /\ attempt = [j \in Jobs |-> [n \in AttemptNos |-> NoAttempt]]
    /\ ledger = [t \in Tenants |-> [d \in Days |-> [reserved |-> 0, consumed |-> 0]]]
    /\ outbox = [j \in Jobs |-> NoEvent]

-----------------------------------------------------------------------------
(* The columns a transaction reads. *)

JobsOf(t) == {j \in Jobs : TenantOf[j] = t}
Queued(t) == {j \in JobsOf(t) : job[j].status = "QUEUED"}
Running(t) == {j \in JobsOf(t) : job[j].status = "RUNNING"}
Active(t) == tenant[t].status = "ACTIVE"
PolicyOf(j) == tenant[TenantOf[j]].policy

(* CURRENT_TIMESTAMP as read at the start of a transaction that commits now. *)
TransactionClock(c) == c <= now /\ now - c <= MaxClockLag

(* insertTerminalWebhookEvent: the event carries the terminal state; a job    *)
(* has one outbox row, and a second insert must find the same event.          *)
InsertTerminalEvent(j, row) ==
    LET event == [status |-> row.status, result |-> row.result, failure |-> row.failure]
    IN  IF j \in HasCallback
        THEN /\ outbox[j] \in {NoEvent, event}
             /\ outbox' = [outbox EXCEPT ![j] = event]
        ELSE UNCHANGED outbox

-----------------------------------------------------------------------------
(* The daily execution ledger. *)

(* Mutant: the sum of the case times without the early return at the cap. *)
UncappedCaseMillis(time, reservation) == IF time = NoCases THEN 0 ELSE time

(* cappedCaseExecutionMillis, from the total time of the reported cases. *)
CappedCaseMillis(time, reservation) ==
    IF time = NoCases THEN 0
    ELSE IF time >= reservation THEN reservation ELSE time

ReservationImpossible(j) == Cost[j] > PolicyOf(j).daily

(* Mutant: the check forgets what the day has already consumed. *)
FitsIgnoringConsumed(book, j, d) ==
    ~(book[TenantOf[j]][d].reserved > PolicyOf(j).daily - Cost[j])

(* reserveDailyExecution on the ledger book: the reservation fits into day d. *)
ReservationFits(book, j, d) ==
    LET row == book[TenantOf[j]][d]
        room == PolicyOf(j).daily - Cost[j]
    IN  ~(row.consumed > room \/ row.reserved > room - row.consumed)

Reserve(book, j, d) == [book EXCEPT ![TenantOf[j]][d].reserved = @ + Cost[j]]

(* releaseAttemptReservation: its guards, the settled ledger, and the jobs it *)
(* wakes, those that wait for the midnight after the attempt's day.           *)
Releasable(j, n) ==
    LET row == attempt[j][n]
    IN  /\ row.status = "RUNNING"
        /\ row.reserved > 0
        /\ ledger[TenantOf[j]][row.day].reserved >= row.reserved

(* Mutant: the reservation is settled on the current day. *)
ReleaseToday(j, n, used) ==
    [ledger EXCEPT ![TenantOf[j]][Day(now)] =
        [reserved |-> @.reserved - attempt[j][n].reserved,
         consumed |-> @.consumed + used]]

Release(j, n, used) ==
    [ledger EXCEPT ![TenantOf[j]][attempt[j][n].day] =
        [reserved |-> @.reserved - attempt[j][n].reserved,
         consumed |-> @.consumed + used]]

(* Mutant: the wake-up looks for the midnight that began the attempt's day. *)
WakeOffByOne(rows, j, n, c) ==
    [k \in Jobs |->
        IF /\ TenantOf[k] = TenantOf[j]
           /\ rows[k].status = "QUEUED"
           /\ rows[k].nextAt = Midnight(attempt[j][n].day)
        THEN [rows[k] EXCEPT !.nextAt = c]
        ELSE rows[k]]

Wake(rows, j, n, c) ==
    [k \in Jobs |->
        IF /\ TenantOf[k] = TenantOf[j]
           /\ rows[k].status = "QUEUED"
           /\ rows[k].nextAt = Midnight(attempt[j][n].day + 1)
        THEN [rows[k] EXCEPT !.nextAt = c]
        ELSE rows[k]]

(* Mutant: the attempt keeps its reservation. *)
FinishKeepsReservation(j, n, status, used) ==
    [attempt EXCEPT ![j][n] = [@ EXCEPT !.status = status, !.consumed = used]]

FinishAttempt(j, n, status, used) ==
    [attempt EXCEPT ![j][n] =
        [@ EXCEPT !.status = status, !.reserved = 0, !.consumed = used]]

-----------------------------------------------------------------------------
(* Admission and cancellation.  Both read the clock after the row locks. *)

(* Mutant: the queue quota is off by one. *)
SubmitOffByOne(j) ==
    LET t == TenantOf[j]
    IN  /\ job[j].status = "NONE"
        /\ \A i \in JobsOf(t) : i < j => job[i].status # "NONE"
        /\ Active(t)
        /\ Cardinality(Queued(t)) <= PolicyOf(j).maxQueued
        /\ job' = [job EXCEPT ![j] = [NoJob EXCEPT !.status = "QUEUED", !.nextAt = now]]
        /\ UNCHANGED <<now, tenant, attempt, ledger, outbox>>

Submit(j) ==
    LET t == TenantOf[j]
    IN  /\ job[j].status = "NONE"
        /\ \A i \in JobsOf(t) : i < j => job[i].status # "NONE"
        /\ Active(t)
        /\ Cardinality(Queued(t)) < PolicyOf(j).maxQueued
        /\ job' = [job EXCEPT ![j] = [NoJob EXCEPT !.status = "QUEUED", !.nextAt = now]]
        /\ UNCHANGED <<now, tenant, attempt, ledger, outbox>>

(* Mutant: the cancelled job's event is not inserted. *)
CancelQueuedSilently(j) ==
    /\ job[j].status = "QUEUED"
    /\ job' = [job EXCEPT ![j] = [@ EXCEPT !.status = "CANCELLED", !.cancel = TRUE]]
    /\ UNCHANGED <<now, tenant, attempt, ledger, outbox>>

CancelQueued(j) ==
    LET row == [job[j] EXCEPT !.status = "CANCELLED", !.cancel = TRUE,
                              !.worker = NoWorker, !.leaseUntil = NoLease]
    IN  /\ job[j].status = "QUEUED"
        /\ job' = [job EXCEPT ![j] = row]
        /\ InsertTerminalEvent(j, row)
        /\ UNCHANGED <<now, tenant, attempt, ledger>>

(* Mutant: the status is not checked before the request is recorded. *)
CancelAnyStatus(j) ==
    /\ job[j].status # "NONE"
    /\ ~job[j].cancel
    /\ job' = [job EXCEPT ![j].cancel = TRUE]
    /\ UNCHANGED <<now, tenant, attempt, ledger, outbox>>

CancelRunning(j) ==
    /\ job[j].status = "RUNNING"
    /\ ~job[j].cancel
    /\ job' = [job EXCEPT ![j].cancel = TRUE]
    /\ UNCHANGED <<now, tenant, attempt, ledger, outbox>>

Cancel(j) == CancelQueued(j) \/ CancelRunning(j)

-----------------------------------------------------------------------------
(* Claiming: claimOneWithClock picks a tenant, then a job of that tenant. *)

(* Mutant: the lease is not compared with the clock. *)
ExpiredAlways(j, c) == job[j].status = "RUNNING"

Expired(j, c) == job[j].status = "RUNNING" /\ job[j].leaseUntil <= c
Due(j, c) == job[j].status = "QUEUED" /\ job[j].nextAt <= c
Recovering(t, c) == \E j \in JobsOf(t) : Expired(j, c)

(* Mutant: a tenant at its running limit is skipped although it has expired work. *)
ServableWithoutRecovery(t, c) ==
    /\ Active(t)
    /\ tenant[t].policy.maxRunning > Cardinality(Running(t))
    /\ \E j \in JobsOf(t) : Due(j, c)

Servable(t, c) ==
    \/ Recovering(t, c)
    \/ /\ Active(t)
       /\ tenant[t].policy.maxRunning > Cardinality(Running(t))
       /\ \E j \in JobsOf(t) : Due(j, c)

(* ORDER BY recovery first, then least recently served (NULL first), then id. *)
TenantPrecedes(t, u, c) ==
    IF Recovering(t, c) # Recovering(u, c) THEN Recovering(t, c)
    ELSE IF tenant[t].lastClaimed # tenant[u].lastClaimed
         THEN tenant[t].lastClaimed < tenant[u].lastClaimed
         ELSE t < u

NextTenant(t, c, locked) ==
    LET candidates == {u \in Tenants \ locked : Servable(u, c)}
    IN  t \in candidates /\ \A u \in candidates \ {t} : TenantPrecedes(t, u, c)

(* ORDER BY RUNNING first, then next_attempt_at, then creation. *)
JobPrecedes(i, j) ==
    IF job[i].status # job[j].status THEN job[i].status = "RUNNING"
    ELSE IF job[i].nextAt # job[j].nextAt THEN job[i].nextAt < job[j].nextAt
         ELSE i < j

NextJob(j, c, locked) ==
    LET t == TenantOf[j]
        candidates == {i \in JobsOf(t) \ locked : Expired(i, c) \/ (Active(t) /\ Due(i, c))}
    IN  j \in candidates /\ \A i \in candidates \ {j} : JobPrecedes(j, i)

(* The manifest of a job of an active tenant must still be within the policy; *)
(* otherwise the claim fails with an error and changes nothing.               *)
WithinCeilings(j) == Active(TenantOf[j]) => Size[j] <= PolicyOf(j).ceiling

Picked(j, c) ==
    /\ \E locked \in TenantLocks : NextTenant(TenantOf[j], c, locked)
    /\ \E locked \in JobLocks : NextJob(j, c, locked)
    /\ WithinCeilings(j)

AdvanceFairness(j, c) == tenant' = [tenant EXCEPT ![TenantOf[j]].lastClaimed = c]

(* Mutant: the lease is not cleared. *)
SettledKeepsLease(row, status, result, failure) ==
    [row EXCEPT !.status = status, !.result = result, !.failure = failure]

Settled(row, status, result, failure) ==
    [row EXCEPT !.status = status, !.result = result, !.failure = failure,
                !.worker = NoWorker, !.leaseUntil = NoLease]

-----------------------------------------------------------------------------
(* Claiming an expired RUNNING job: the old attempt expires and its           *)
(* reservation is refunded, then the job is settled, deferred or taken over.  *)

ExpireAttempt(j, c) ==
    /\ TransactionClock(c)
    /\ Expired(j, c)
    /\ Picked(j, c)
    /\ Releasable(j, job[j].attempt)

RecoverAs(j, c, status, result, failure) ==
    LET n == job[j].attempt
        row == Settled(job[j], status, result, failure)
    IN  /\ ExpireAttempt(j, c)
        /\ ledger' = Release(j, n, 0)
        /\ attempt' = FinishAttempt(j, n, "EXPIRED", 0)
        /\ job' = [Wake(job, j, n, c) EXCEPT ![j] = row]
        /\ InsertTerminalEvent(j, row)
        /\ UNCHANGED now

RecoverDisabled(j, c) ==
    /\ ~Active(TenantOf[j])
    /\ RecoverAs(j, c, "FAILED", job[j].result, "TENANT_DISABLED")
    /\ UNCHANGED tenant

RecoverCancelled(j, c) ==
    /\ Active(TenantOf[j])
    /\ job[j].cancel
    /\ RecoverAs(j, c, "CANCELLED", NoResult, NoFailure)
    /\ UNCHANGED tenant

(* Mutant: exhausted attempts are decided before the cancellation. *)
ExhaustedBeforeCancel(j, c) ==
    /\ Active(TenantOf[j])
    /\ job[j].attempt >= PolicyOf(j).maxTries
    /\ RecoverAs(j, c, "FAILED", job[j].result, "LEASE_EXPIRED")
    /\ UNCHANGED tenant

RecoverExhausted(j, c) ==
    /\ Active(TenantOf[j])
    /\ ~job[j].cancel
    /\ job[j].attempt >= PolicyOf(j).maxTries
    /\ RecoverAs(j, c, "FAILED", job[j].result, "LEASE_EXPIRED")
    /\ UNCHANGED tenant

(* The expired job may run again. *)
Retryable(j) ==
    /\ Active(TenantOf[j])
    /\ ~job[j].cancel
    /\ job[j].attempt < PolicyOf(j).maxTries

RecoverImpossible(j, c) ==
    /\ Retryable(j)
    /\ ReservationImpossible(j)
    /\ RecoverAs(j, c, "FAILED", job[j].result, "DAILY_EXECUTION_LIMIT_TOO_LOW")
    /\ AdvanceFairness(j, c)

RecoverDeferred(j, c) ==
    LET n == job[j].attempt
        row == [job[j] EXCEPT !.status = "QUEUED", !.worker = NoWorker,
                              !.leaseUntil = NoLease, !.nextAt = Midnight(Day(c) + 1)]
    IN  /\ Retryable(j)
        /\ ~ReservationImpossible(j)
        /\ ExpireAttempt(j, c)
        /\ ~ReservationFits(Release(j, n, 0), j, Day(c))
        /\ ledger' = Release(j, n, 0)
        /\ attempt' = FinishAttempt(j, n, "EXPIRED", 0)
        /\ job' = [Wake(job, j, n, c) EXCEPT ![j] = row]
        /\ AdvanceFairness(j, c)
        /\ UNCHANGED <<now, outbox>>

(* Mutant: attempt_no is not advanced in the job row. *)
ClaimedSameAttempt(j, c, w) ==
    [job[j] EXCEPT !.status = "RUNNING", !.worker = w,
                   !.leaseUntil = c + LeaseDuration, !.failure = NoFailure]

(* The rows a successful claim writes. *)
ClaimedRow(j, c, w) ==
    [job[j] EXCEPT !.status = "RUNNING", !.attempt = @ + 1, !.worker = w,
                   !.leaseUntil = c + LeaseDuration, !.failure = NoFailure]
ClaimedAttempt(j, c, w) ==
    [status |-> "RUNNING", worker |-> w, day |-> Day(c), reserved |-> Cost[j], consumed |-> 0]

TakeOver(j, c, w) ==
    LET n == job[j].attempt
    IN  /\ Retryable(j)
        /\ ~ReservationImpossible(j)
        /\ ExpireAttempt(j, c)
        /\ ReservationFits(Release(j, n, 0), j, Day(c))
        /\ n < MaxAttemptNo
        /\ ledger' = Reserve(Release(j, n, 0), j, Day(c))
        /\ attempt' = [FinishAttempt(j, n, "EXPIRED", 0)
                          EXCEPT ![j][n + 1] = ClaimedAttempt(j, c, w)]
        /\ job' = [Wake(job, j, n, c) EXCEPT ![j] = ClaimedRow(j, c, w)]
        /\ AdvanceFairness(j, c)
        /\ UNCHANGED <<now, outbox>>

(* Claiming a due QUEUED job. *)

(* Mutant: the running limit is not rechecked under the tenant lock. *)
PickBeyondLimit(j, c) == TransactionClock(c) /\ Due(j, c) /\ Picked(j, c)

PickQueued(j, c) ==
    /\ TransactionClock(c)
    /\ Due(j, c)
    /\ Picked(j, c)
    /\ Cardinality(Running(TenantOf[j])) < PolicyOf(j).maxRunning

FailImpossible(j, c) ==
    LET row == Settled(job[j], "FAILED", job[j].result, "DAILY_EXECUTION_LIMIT_TOO_LOW")
    IN  /\ PickQueued(j, c)
        /\ ReservationImpossible(j)
        /\ job' = [job EXCEPT ![j] = row]
        /\ InsertTerminalEvent(j, row)
        /\ AdvanceFairness(j, c)
        /\ UNCHANGED <<now, attempt, ledger>>

DeferQueued(j, c) ==
    /\ PickQueued(j, c)
    /\ ~ReservationImpossible(j)
    /\ ~ReservationFits(ledger, j, Day(c))
    /\ job' = [job EXCEPT ![j].nextAt = Midnight(Day(c) + 1)]
    /\ AdvanceFairness(j, c)
    /\ UNCHANGED <<now, attempt, ledger, outbox>>

ClaimQueued(j, c, w) ==
    /\ PickQueued(j, c)
    /\ ~ReservationImpossible(j)
    /\ ReservationFits(ledger, j, Day(c))
    /\ job[j].attempt < MaxAttemptNo
    /\ ledger' = Reserve(ledger, j, Day(c))
    /\ attempt' = [attempt EXCEPT ![j][job[j].attempt + 1] = ClaimedAttempt(j, c, w)]
    /\ job' = [job EXCEPT ![j] = ClaimedRow(j, c, w)]
    /\ AdvanceFairness(j, c)
    /\ UNCHANGED <<now, outbox>>

(* A claim transaction that commits without handing out a claim. *)
Maintain(j, c) ==
    \/ RecoverDisabled(j, c)
    \/ RecoverCancelled(j, c)
    \/ RecoverExhausted(j, c)
    \/ RecoverImpossible(j, c)
    \/ RecoverDeferred(j, c)
    \/ FailImpossible(j, c)
    \/ DeferQueued(j, c)

(* A claim transaction that hands the next attempt of j to worker w. *)
Claim(j, c, w) == TakeOver(j, c, w) \/ ClaimQueued(j, c, w)

-----------------------------------------------------------------------------
(* What the holder of a claim may do with it.  Nothing takes a claim away     *)
(* from a worker: a claim may be used however late.  A claim that was never   *)
(* issued owns no job.                                                        *)

Claims == [job : Jobs, attempt : AttemptNos, worker : Workers]

(* Mutant: any claim owns a running job. *)
OwnsWithoutFence(cl) == job[cl.job].status = "RUNNING"

(* The fencing predicate, without its lease condition. *)
OwnsJob(cl) ==
    /\ job[cl.job].status = "RUNNING"
    /\ job[cl.job].attempt = cl.attempt
    /\ job[cl.job].worker = cl.worker

OwnsAttempt(cl) ==
    /\ attempt[cl.job][cl.attempt].status = "RUNNING"
    /\ attempt[cl.job][cl.attempt].worker = cl.worker

(* Mutant: an expired lease still counts. *)
ActiveAfterExpiry(cl) == OwnsJob(cl)

(* lockActiveClaimAndPolicy checks the lease at the time it locks the row. *)
ActiveClaim(cl) == OwnsJob(cl) /\ job[cl.job].leaseUntil > now

(* LoadClaimInput finds the claim's row. *)
Loadable(cl) == ActiveClaim(cl) /\ Active(TenantOf[cl.job])

Heartbeat(cl, c) ==
    /\ TransactionClock(c)
    /\ OwnsJob(cl)
    /\ job[cl.job].leaseUntil > c
    /\ OwnsAttempt(cl)
    /\ job' = [job EXCEPT ![cl.job].leaseUntil = c + LeaseDuration]
    /\ UNCHANGED <<now, tenant, attempt, ledger, outbox>>

(* The common part of Complete and FailInfrastructure: the job row is written *)
(* first, then the reservation is settled, deferred jobs are woken and the    *)
(* attempt is finished.                                                       *)
SettleClaim(cl, c, row, status, used) ==
    LET j == cl.job
        n == cl.attempt
    IN  /\ TransactionClock(c)
        /\ ActiveClaim(cl)
        /\ Releasable(j, n)
        /\ OwnsAttempt(cl)
        /\ ledger' = Release(j, n, used)
        /\ attempt' = FinishAttempt(j, n, status, used)
        /\ job' = Wake([job EXCEPT ![j] = row], j, n, c)
        /\ UNCHANGED <<now, tenant>>

CompletionCharge(cl, res) ==
    LET reserved == attempt[cl.job][cl.attempt].reserved
    IN  IF res.time = NoCases /\ (job[cl.job].cancel \/ res.compile = "FAILED")
        THEN reserved
        ELSE CappedCaseMillis(res.time, reserved)

(* Mutant: the cancellation request is not rechecked under the fence. *)
CompleteIgnoresCancel(cl, res, c) ==
    LET row == Settled(job[cl.job], "SUCCEEDED", res, NoFailure)
    IN  /\ SettleClaim(cl, c, row, "SUCCEEDED", CompletionCharge(cl, res))
        /\ InsertTerminalEvent(cl.job, row)

CompleteResult(cl, res, c) ==
    LET row == Settled(job[cl.job], "SUCCEEDED", res, NoFailure)
    IN  /\ ~job[cl.job].cancel
        /\ SettleClaim(cl, c, row, "SUCCEEDED", CompletionCharge(cl, res))
        /\ InsertTerminalEvent(cl.job, row)

CompleteCancelled(cl, res, c) ==
    LET row == Settled(job[cl.job], "CANCELLED", NoResult, NoFailure)
    IN  /\ job[cl.job].cancel
        /\ SettleClaim(cl, c, row, "CANCELLED", CompletionCharge(cl, res))
        /\ InsertTerminalEvent(cl.job, row)

Complete(cl, res, c) == CompleteResult(cl, res, c) \/ CompleteCancelled(cl, res, c)

FailureCharge(cl, failure) ==
    IF failure.charge THEN attempt[cl.job][cl.attempt].reserved ELSE 0

(* Mutant: one attempt too many. *)
RetryOffByOne(cl, failure) ==
    ~failure.permanent /\ cl.attempt <= PolicyOf(cl.job).maxTries

RetryLeft(cl, failure) ==
    ~failure.permanent /\ cl.attempt < PolicyOf(cl.job).maxTries

FailCancelled(cl, failure, c) ==
    LET row == [Settled(job[cl.job], "CANCELLED", job[cl.job].result, NoFailure)
                   EXCEPT !.nextAt = c]
    IN  /\ job[cl.job].cancel
        /\ SettleClaim(cl, c, row, "CANCELLED", FailureCharge(cl, failure))
        /\ InsertTerminalEvent(cl.job, row)

(* Mutant: a cancelled job is put back into the queue. *)
RequeueCancelled(cl, failure, c) ==
    LET row == [Settled(job[cl.job], "QUEUED", job[cl.job].result, NoFailure)
                   EXCEPT !.nextAt = c + RetryDelay]
    IN  /\ RetryLeft(cl, failure)
        /\ SettleClaim(cl, c, row, "FAILED", FailureCharge(cl, failure))
        /\ UNCHANGED outbox

FailRequeued(cl, failure, c) ==
    LET row == [Settled(job[cl.job], "QUEUED", job[cl.job].result, NoFailure)
                   EXCEPT !.nextAt = c + RetryDelay]
    IN  /\ ~job[cl.job].cancel
        /\ RetryLeft(cl, failure)
        /\ SettleClaim(cl, c, row, "FAILED", FailureCharge(cl, failure))
        /\ UNCHANGED outbox

FailTerminal(cl, failure, c) ==
    LET row == [Settled(job[cl.job], "FAILED", job[cl.job].result, "WORKER")
                   EXCEPT !.nextAt = c]
    IN  /\ ~job[cl.job].cancel
        /\ ~RetryLeft(cl, failure)
        /\ SettleClaim(cl, c, row, "FAILED", FailureCharge(cl, failure))
        /\ InsertTerminalEvent(cl.job, row)

FailInfrastructure(cl, failure, c) ==
    \/ FailCancelled(cl, failure, c)
    \/ FailRequeued(cl, failure, c)
    \/ FailTerminal(cl, failure, c)

-----------------------------------------------------------------------------
(* The environment: the clock, and the operator who changes tenant rows. *)

Tick == now < MaxTime /\ now' = now + 1 /\ UNCHANGED <<tenant, job, attempt, ledger, outbox>>

SetStatus(t, s) ==
    /\ tenant[t].status # s
    /\ tenant' = [tenant EXCEPT ![t].status = s]
    /\ UNCHANGED <<now, job, attempt, ledger, outbox>>

SetPolicy(t, p) ==
    /\ tenant[t].policy # p
    /\ tenant' = [tenant EXCEPT ![t].policy = p]
    /\ UNCHANGED <<now, job, attempt, ledger, outbox>>

Next ==
    \/ Tick
    \/ \E t \in Tenants : \/ \E s \in OperatorStatus : SetStatus(t, s)
                          \/ \E p \in Policies : SetPolicy(t, p)
    \/ \E j \in Jobs : Submit(j) \/ Cancel(j)
    \/ \E j \in Jobs, c \in Times :
          Maintain(j, c) \/ \E w \in Workers : Claim(j, c, w)
    \/ \E cl \in Claims, c \in Times :
          \/ Heartbeat(cl, c)
          \/ \E res \in Results : Complete(cl, res, c)
          \/ \E failure \in Failures : FailInfrastructure(cl, failure, c)

Spec == Init /\ [][Next]_vars

-----------------------------------------------------------------------------
(* Safety. *)

AttemptsOn(t, d) ==
    {a \in Jobs \X AttemptNos : TenantOf[a[1]] = t /\ attempt[a[1]][a[2]].day = d}

(* The ledger row of a tenant and day holds exactly the reservations of the   *)
(* attempts that run on that day's budget and exactly what finished attempts  *)
(* consumed: no crash, takeover, late settlement or midnight loses or doubles *)
(* a reservation, and settlement's "reserved_millis >= ?" guard never fails.  *)
LedgerBalanced ==
    \A t \in Tenants, d \in Days :
        /\ ledger[t][d].reserved =
              MapThenSumSet(LAMBDA a : attempt[a[1]][a[2]].reserved, AttemptsOn(t, d))
        /\ ledger[t][d].consumed =
              MapThenSumSet(LAMBDA a : attempt[a[1]][a[2]].consumed, AttemptsOn(t, d))

(* No day is overbooked: reservations plus consumption stay within the        *)
(* largest daily limit an operator ever installs (the limit itself when the   *)
(* policy is fixed), although attempts settle on the day they were claimed.   *)
DailyBudget ==
    \A t \in Tenants, d \in Days :
        \E p \in Policies : ledger[t][d].reserved + ledger[t][d].consumed <= p.daily

(* What an attempt holds and what it was charged together never exceed what   *)
(* its claim reserved, whatever times the judge reports and whichever of      *)
(* completion, failure, cancellation and recovery settles it, on any day      *)
(* (cappedCaseExecutionMillis, releaseAttemptReservation).                    *)
ChargeWithinReservation ==
    \A j \in Jobs, n \in AttemptNos : attempt[j][n].reserved + attempt[j][n].consumed <= Cost[j]

(* A RUNNING job has exactly one RUNNING attempt, the one its attempt_no      *)
(* names, held by the same worker and with a reservation; every other attempt *)
(* up to attempt_no is finished and holds none.                               *)
OneRunningAttempt ==
    \A j \in Jobs, n \in AttemptNos :
        LET row == attempt[j][n]
        IN  /\ row.status # "NONE" <=> n <= job[j].attempt
            /\ row.status = "RUNNING" <=> job[j].status = "RUNNING" /\ n = job[j].attempt
            /\ row.status = "RUNNING" => row.worker = job[j].worker /\ row.reserved = Cost[j]
            /\ row.status # "RUNNING" => row.reserved = 0

(* A job is leased exactly while it is RUNNING, and only a RUNNING or ended   *)
(* job can carry a cancellation request: requeueing and deferral never bring  *)
(* a cancelled job back into the queue.                                       *)
LeaseMatchesStatus ==
    \A j \in Jobs :
        /\ job[j].leaseUntil # NoLease <=> job[j].status = "RUNNING"
        /\ job[j].worker # NoWorker <=> job[j].status = "RUNNING"
        /\ job[j].status \in {"NONE", "QUEUED"} => ~job[j].cancel

(* A cancellation accepted by Cancel is never lost to a racing completion,    *)
(* failure or takeover: the job ends CANCELLED without a result, or FAILED    *)
(* because its tenant was disabled first.                                     *)
CancelHonoured ==
    \A j \in Jobs :
        job[j].cancel /\ job[j].status \in Terminal =>
            /\ job[j].result = NoResult
            /\ \/ job[j].status = "CANCELLED"
               \/ job[j].status = "FAILED" /\ job[j].failure = "TENANT_DISABLED"

(* Transactional outbox: a job with a callback has an event exactly when it   *)
(* is terminal, and the event carries the job's own outcome; a job without a  *)
(* callback has none.                                                         *)
EventMatchesJob ==
    \A j \in Jobs :
        outbox[j] = IF job[j].status \in Terminal /\ j \in HasCallback
                    THEN [status |-> job[j].status, result |-> job[j].result,
                          failure |-> job[j].failure]
                    ELSE NoEvent

(* Concurrent claims and takeovers keep every tenant within maxRunningJobs.   *)
RunningWithinLimit ==
    \A t \in Tenants : \E p \in Policies : Cardinality(Running(t)) <= p.maxRunning

(* Requeued and deferred jobs bypass the admission check on queued jobs, yet  *)
(* the backlog never exceeds the queued and the running limit together.       *)
BacklogBounded ==
    \A t \in Tenants : \E p, q \in Policies :
        Cardinality(Queued(t)) + Cardinality(Running(t)) <= p.maxQueued + q.maxRunning

(* Neither takeovers nor requeues nor deferrals run a job more often than     *)
(* maxInfrastructureTries allows.                                             *)
TriesBounded ==
    \A j \in Jobs : job[j].attempt > 0 => \E p \in Policies : job[j].attempt <= p.maxTries

(* No lost wakeup: a job deferred to tomorrow (one never attempted, so that   *)
(* it is not in retry backoff) waits only while today's ledger has no room    *)
(* for it.  Every settlement that frees budget wakes it.                      *)
NoLostWakeup ==
    \A j \in Jobs :
        job[j].status = "QUEUED" /\ job[j].attempt = 0 /\ job[j].nextAt > now =>
            LET row == ledger[TenantOf[j]][Day(now)]
            IN  \E p \in Policies : row.reserved + row.consumed + Cost[j] > p.daily

-----------------------------------------------------------------------------
(* What a step may never do. *)

(* A terminal job, its event and a finished attempt never change again,       *)
(* whatever late claims, cancels and takeovers still arrive.                  *)
TerminalIsFinal ==
    [][\A j \in Jobs :
          /\ job[j].status \in Terminal => job'[j] = job[j] /\ outbox'[j] = outbox[j]
          /\ \A n \in AttemptNos :
                attempt[j][n].status \notin {"NONE", "RUNNING"} =>
                    attempt'[j][n] = attempt[j][n]]_vars

(* A live lease is never taken away: an attempt is expired only by a step     *)
(* taken when its lease has run out, however stale that step's clock is.      *)
LiveLeaseIsSafe ==
    [][\A j \in Jobs, n \in AttemptNos :
          attempt[j][n].status = "RUNNING" /\ attempt'[j][n].status = "EXPIRED" =>
              job[j].leaseUntil <= now]_vars

(* A result is published only by the current attempt, while its lease is      *)
(* alive and no cancellation was requested.                                   *)
PublishedByLiveClaim ==
    [][\A j \in Jobs :
          job[j].status # "SUCCEEDED" /\ job'[j].status = "SUCCEEDED" =>
              /\ job[j].status = "RUNNING"
              /\ job[j].leaseUntil > now
              /\ ~job[j].cancel
              /\ attempt'[j][job[j].attempt].status = "SUCCEEDED"]_vars

-----------------------------------------------------------------------------
(* Refinement: what a client sees of the job row and of the outbox. *)

Visible == [j \in Jobs |-> [status |-> job[j].status, cancel |-> job[j].cancel,
                            result |-> job[j].result, failure |-> job[j].failure]]

Lifecycle == INSTANCE JobLifecycle
    WITH Failures <- FailureCodes \ {NoFailure}, TenantDisabled <- "TENANT_DISABLED",
         state <- Visible, event <- outbox

(* The repository keeps the promise of the job API: every transaction is one  *)
(* step of one job's life cycle, or invisible to clients.                     *)
ImplementsLifecycle == Lifecycle!Spec

=============================================================================
