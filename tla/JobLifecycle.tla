------------------------------ MODULE JobLifecycle ------------------------------
(***************************************************************************)
(* What the job API promises its clients about one job, without tenants,   *)
(* time, leases, attempts or budgets: the states a job goes through, when  *)
(* a cancellation is final, and that the webhook event of a job appears    *)
(* together with the job's terminal state and never changes.               *)
(***************************************************************************)
EXTENDS Naturals

CONSTANTS Jobs, HasCallback, Results, NoResult, Failures, NoFailure, TenantDisabled

VARIABLES
    state,      \* what GET /jobs/{id} shows
    event       \* the job's webhook event

lifecycleVars == <<state, event>>

Ended == {"SUCCEEDED", "FAILED", "CANCELLED"}
Hidden == [status |-> "NONE", cancel |-> FALSE, result |-> NoResult, failure |-> NoFailure]
NoNotice == [status |-> "NONE", result |-> NoResult, failure |-> NoFailure]

LifecycleInit ==
    /\ state = [j \in Jobs |-> Hidden]
    /\ event = [j \in Jobs |-> NoNotice]

Move(j, status) == state' = [state EXCEPT ![j].status = status]

Accept(j) == state[j].status = "NONE" /\ Move(j, "QUEUED") /\ UNCHANGED event

Start(j) == state[j].status = "QUEUED" /\ Move(j, "RUNNING") /\ UNCHANGED event

(* A job comes back to the queue only if no client asked to cancel it. *)
Requeue(j) ==
    state[j].status = "RUNNING" /\ ~state[j].cancel /\ Move(j, "QUEUED") /\ UNCHANGED event

RequestCancel(j) ==
    /\ state[j].status = "RUNNING"
    /\ state' = [state EXCEPT ![j].cancel = TRUE]
    /\ UNCHANGED event

(* The job ends and, in the same step, its event is recorded. *)
End(j, row) ==
    /\ state[j].status \in {"QUEUED", "RUNNING"}
    /\ state' = [state EXCEPT ![j] = row]
    /\ event' = IF j \in HasCallback
                THEN [event EXCEPT ![j] = [status |-> row.status, result |-> row.result,
                                           failure |-> row.failure]]
                ELSE event

Succeed(j) ==
    /\ state[j].status = "RUNNING" /\ ~state[j].cancel
    /\ \E res \in Results :
          End(j, [status |-> "SUCCEEDED", cancel |-> FALSE, result |-> res,
                  failure |-> NoFailure])

Fail(j) ==
    \E code \in Failures :
        /\ state[j].cancel => code = TenantDisabled
        /\ End(j, [status |-> "FAILED", cancel |-> state[j].cancel, result |-> NoResult,
                   failure |-> code])

Abort(j) ==
    /\ state[j].status = "QUEUED" \/ state[j].cancel
    /\ End(j, [status |-> "CANCELLED", cancel |-> TRUE, result |-> NoResult,
               failure |-> NoFailure])

LifecycleNext ==
    \E j \in Jobs :
        Accept(j) \/ Start(j) \/ Requeue(j) \/ RequestCancel(j) \/ Succeed(j) \/ Fail(j) \/ Abort(j)

Spec == LifecycleInit /\ [][LifecycleNext]_lifecycleVars

=============================================================================
