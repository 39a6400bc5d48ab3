------------------------------- MODULE JobWorker -------------------------------
(***************************************************************************)
(* The durable workers (internal/worker/runner.go) running against the job *)
(* repository: each worker claims a job, executes it under a monitor that  *)
(* heartbeats the lease and polls for cancellation, and settles the claim. *)
(*                                                                         *)
(* A worker may stop at any point (process crash, shutdown, or a database  *)
(* error that leaves the claim unsettled) and start over without its       *)
(* claim.                                                                  *)
(***************************************************************************)
EXTENDS JobRepository

CONSTANTS
    MaxBeats,       \* bound of the heartbeats of one claim: executions end
    LastSubmit      \* bound of the time of the last submission

VARIABLE runner     \* per worker: what ExecuteClaim holds

workerVars == <<vars, runner>>

Phases == {"idle", "loading", "executing", "ended"}
ControlEvents == {"none", "cancel", "stale", "error"}
Outcomes == {"none", "result", "infra", "checker", "stale"}
NoClaim == [phase |-> "idle", job |-> 0, attempt |-> 0, event |-> "none",
            outcome |-> "none", beats |-> 0]

ClaimOf(w) == [job |-> runner[w].job, attempt |-> runner[w].attempt, worker |-> w]
Monitored(w) == runner[w].phase \in {"loading", "executing"} /\ runner[w].event = "none"

(* Type invariant of the workers' local state. *)
WorkerTypeOK ==
    runner \in [Workers -> [phase : Phases, job : Jobs \cup {0}, attempt : AttemptNos \cup {0},
                            event : ControlEvents, outcome : Outcomes, beats : 0 .. MaxBeats]]

WorkerInit == Init /\ runner = [w \in Workers |-> NoClaim]

-----------------------------------------------------------------------------
(* Run: the claim loop. *)

(* Mutant: the attempt number handed to the worker is incremented twice. *)
ClaimCountsTwice(w, j, c) ==
    /\ runner[w].phase = "idle"
    /\ Claim(j, c, w)
    /\ runner' = [runner EXCEPT ![w] = [NoClaim EXCEPT !.phase = "loading", !.job = j,
                                                       !.attempt = job'[j].attempt + 1]]

ClaimNext(w, j, c) ==
    /\ runner[w].phase = "idle"
    /\ Claim(j, c, w)
    /\ runner' = [runner EXCEPT ![w] = [NoClaim EXCEPT !.phase = "loading", !.job = j,
                                                       !.attempt = job'[j].attempt]]

ClaimMaintenance(w, j, c) ==
    /\ runner[w].phase = "idle"
    /\ Maintain(j, c)
    /\ UNCHANGED runner

(* The process stops, or the claim is abandoned after a database error. *)
Crash(w) ==
    /\ runner[w].phase # "idle"
    /\ runner' = [runner EXCEPT ![w] = NoClaim]
    /\ UNCHANGED vars

-----------------------------------------------------------------------------
(* executeControlled: load the input, then execute. *)

LoadInput(w) ==
    /\ runner[w].phase = "loading"
    /\ Loadable(ClaimOf(w))
    /\ WithinCeilings(runner[w].job)
    /\ runner' = [runner EXCEPT ![w].phase = "executing"]
    /\ UNCHANGED vars

(* The execution ends.  If a control event is queued at that moment,          *)
(* monitorClaim takes either the event or the end of the execution.           *)
End(w, outcome) ==
    /\ \E event \in {runner[w].event, "none"} :
          runner' = [runner EXCEPT ![w].phase = "ended", ![w].outcome = outcome,
                                   ![w].event = event]
    /\ UNCHANGED vars

LoadStale(w) ==
    /\ runner[w].phase = "loading"
    /\ ~Loadable(ClaimOf(w))
    /\ End(w, "stale")

(* Input, bundle or sandbox fail, or the context is cancelled by an event. *)
ExecutionFails(w) ==
    /\ runner[w].phase \in {"loading", "executing"}
    /\ End(w, "infra")

CheckerFails(w) ==
    /\ runner[w].phase = "executing"
    /\ End(w, "checker")

ExecutionSucceeds(w) ==
    /\ runner[w].phase = "executing"
    /\ End(w, "result")

-----------------------------------------------------------------------------
(* monitorClaim: the heartbeat and the control loop. *)

HeartbeatOk(w, c) ==
    /\ Monitored(w)
    /\ runner[w].beats < MaxBeats
    /\ Heartbeat(ClaimOf(w), c)
    /\ runner' = [runner EXCEPT ![w].beats = @ + 1]

HeartbeatStale(w) ==
    /\ Monitored(w)
    /\ ~(OwnsJob(ClaimOf(w)) /\ job[runner[w].job].leaseUntil > now)
    /\ runner' = [runner EXCEPT ![w].event = "stale"]
    /\ UNCHANGED vars

(* ClaimCancelled sees the request. *)
CancelSeen(w) ==
    /\ Monitored(w)
    /\ ActiveClaim(ClaimOf(w))
    /\ job[runner[w].job].cancel
    /\ runner' = [runner EXCEPT ![w].event = "cancel"]
    /\ UNCHANGED vars

(* A heartbeat or a poll fails on the database or runs into its timeout. *)
ControlFails(w) ==
    /\ Monitored(w)
    /\ runner' = [runner EXCEPT ![w].event = "error"]
    /\ UNCHANGED vars

-----------------------------------------------------------------------------
(* ExecuteClaim settles the claim: first the control event, then the outcome. *)

Transient == [permanent |-> FALSE, charge |-> FALSE]
CheckerFailure == [permanent |-> TRUE, charge |-> TRUE]

(* The result completeCancellation reports; the repository must discard it.   *)
Placeholder == [time |-> NoCases, compile |-> "SUCCEEDED"]

Ended(w) == runner[w].phase = "ended"
Settles(w, event, outcomes) ==
    Ended(w) /\ runner[w].event = event /\ runner[w].outcome \in outcomes
Idle(w) == runner' = [runner EXCEPT ![w] = NoClaim]

CompleteCancellation(w, c) ==
    /\ Settles(w, "cancel", Outcomes)
    /\ Complete(ClaimOf(w), Placeholder, c)
    /\ Idle(w)

ReportResult(w, res, c) ==
    /\ Settles(w, "none", {"result"})
    /\ Complete(ClaimOf(w), res, c)
    /\ Idle(w)

ReportFailure(w, c) ==
    /\ Settles(w, "error", Outcomes) \/ Settles(w, "none", {"infra"})
    /\ FailInfrastructure(ClaimOf(w), Transient, c)
    /\ Idle(w)

ReportCheckerFailure(w, c) ==
    /\ Settles(w, "none", {"checker"})
    /\ FailInfrastructure(ClaimOf(w), CheckerFailure, c)
    /\ Idle(w)

(* The claim is known to be stale, or the settlement finds that it is. *)
DropStale(w) ==
    /\ Ended(w)
    /\ \/ Settles(w, "stale", Outcomes)
       \/ Settles(w, "none", {"stale"})
       \/ ~ActiveClaim(ClaimOf(w))
    /\ Idle(w)
    /\ UNCHANGED vars

Settle(w, c) ==
    \/ CompleteCancellation(w, c)
    \/ \E res \in Results : ReportResult(w, res, c)
    \/ ReportFailure(w, c)
    \/ ReportCheckerFailure(w, c)

-----------------------------------------------------------------------------

(* What worker w does on its own, given time and a database that answers. *)
Work(w) ==
    \/ LoadInput(w)
    \/ LoadStale(w)
    \/ ExecutionFails(w)
    \/ CheckerFails(w)
    \/ ExecutionSucceeds(w)
    \/ \E c \in Times : Settle(w, c)
    \/ DropStale(w)

Poll(w) == \E j \in Jobs, c \in Times : ClaimNext(w, j, c) \/ ClaimMaintenance(w, j, c)

Monitor(w) ==
    \/ \E c \in Times : HeartbeatOk(w, c)
    \/ HeartbeatStale(w)
    \/ CancelSeen(w)
    \/ ControlFails(w)

(* Clients and operators. *)
Environment ==
    /\ \/ \E j \in Jobs : (now <= LastSubmit /\ Submit(j)) \/ Cancel(j)
       \/ \E t \in Tenants : \/ \E s \in OperatorStatus : SetStatus(t, s)
                             \/ \E p \in Policies : SetPolicy(t, p)
    /\ UNCHANGED runner

WorkerTick == Tick /\ UNCHANGED runner

WorkerStep == Environment \/ \E w \in Workers : Poll(w) \/ Work(w) \/ Monitor(w) \/ Crash(w)

WorkerNext == WorkerTick \/ WorkerStep
WorkerSpec == WorkerInit /\ [][WorkerNext]_workerVars

(* Every worker keeps polling while idle and keeps working on what it holds. *)
WorkerFairness == \A w \in Workers : WF_workerVars(Poll(w) \/ Work(w))

FairSpec == WorkerSpec /\ WorkerFairness /\ WF_workerVars(WorkerTick)

(* The polling interval is short against leases and days: time does not pass  *)
(* while an idle worker could claim or a worker holds a claim it has lost.    *)
Prompt ==
    \A w \in Workers :
        IF runner[w].phase = "idle" THEN ~\E t \in Tenants : Servable(t, now)
        ELSE ActiveClaim(ClaimOf(w))

PromptTick == Prompt /\ WorkerTick
PromptNext == PromptTick \/ WorkerStep
PromptSpec ==
    /\ WorkerInit
    /\ [][PromptNext]_workerVars
    /\ WorkerFairness
    /\ WF_workerVars(PromptTick)

-----------------------------------------------------------------------------
(* Safety of the composition. *)

(* The attempt number fences: what a worker holds, however late, is an attempt *)
(* of its own that no other worker holds, and it passes the fencing predicate  *)
(* exactly while that attempt has not been settled or expired.                 *)
AttemptFences ==
    \A w \in Workers : runner[w].phase # "idle" =>
        LET held == attempt[runner[w].job][runner[w].attempt]
        IN  /\ runner[w].attempt <= job[runner[w].job].attempt
            /\ held.worker = w
            /\ held.status = "RUNNING" <=> OwnsJob(ClaimOf(w))
            /\ \A v \in Workers \ {w} :
                  runner[v].phase # "idle" =>
                      <<runner[v].job, runner[v].attempt>> # <<runner[w].job, runner[w].attempt>>

(* completeCancellation's placeholder is never published: a job ends          *)
(* SUCCEEDED only through a worker whose own execution of the job's current   *)
(* attempt succeeded and whose monitor reported no control event.             *)
PlaceholderDiscarded ==
    [][\A j \in Jobs :
          job[j].status # "SUCCEEDED" /\ job'[j].status = "SUCCEEDED" =>
              \E w \in Workers :
                  /\ runner[w].job = j /\ runner[w].attempt = job[j].attempt
                  /\ runner[w].outcome = "result" /\ runner[w].event = "none"]_workerVars

-----------------------------------------------------------------------------
(* Liveness. *)

(* Every accepted job ends, whatever workers crash, lose their lease or fail, *)
(* as long as its tenant stays active: it is retried, taken over or woken     *)
(* from the daily limit until it succeeds, fails or is cancelled.             *)
EveryJobEnds == \A j \in Jobs : job[j].status = "QUEUED" ~> job[j].status \in Terminal

(* Once requested, a cancellation ends the job as CANCELLED. *)
CancellationEnds == \A j \in Jobs : job[j].cancel ~> job[j].status = "CANCELLED"

(* A job whose bundle exceeds its tenant's execution limits, because an       *)
(* operator lowered them after its upload, does not stay queued for ever:     *)
(* "deterministic invalid bundle/config failures ... finish as `FAILED`".     *)
OversizedJobEnds ==
    \A j \in Jobs : []<>~(job[j].status = "QUEUED" /\ ~WithinCeilings(j))

(* The scheduler cursor "provides bounded round-robin fairness": once the     *)
(* operator leaves the policies alone, a queued job that every policy allows  *)
(* is served, whatever other tenants have queued.                             *)
EveryTenantServed ==
    <>[][\A t \in Tenants : tenant'[t].policy = tenant[t].policy]_workerVars =>
        \A j \in Jobs :
            (\A p \in Policies : Size[j] <= p.ceiling) =>
                (job[j].status = "QUEUED" ~> job[j].status # "QUEUED")

=============================================================================
