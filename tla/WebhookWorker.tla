----------------------------- MODULE WebhookWorker -----------------------------
(***************************************************************************)
(* Webhook workers over WebhookOutbox: WebhookWorker.processNext, the HTTP *)
(* exchange of WebhookDeliverer.DeliverOutcome, and a receiver that may    *)
(* accept a request whose answer is lost.                                  *)
(*                                                                         *)
(* A worker estimates the database clock as the time of its claim plus     *)
(* what has elapsed since before it asked for the claim.  The estimate     *)
(* therefore runs ahead of the database clock, by the worker's skew.  A    *)
(* request in flight at clock n is in flight at some instant in [n, n+1),  *)
(* and its context ends it before its deadline is reached.                 *)
(***************************************************************************)
EXTENDS WebhookOutbox

CONSTANTS
    RequestTimeout,
    BaseRetryDelay,
    MaximumRetryDelay,
    Responses,       \* HTTP statuses a receiver may answer with
    RetryAfters,     \* Retry-After values it may send; negative if absent or past
    DurationLimit,   \* the largest Retry-After that a time.Duration can hold
    MaxSkew          \* bound of a worker's skew

ASSUME WorkerAssumption ==
    /\ RequestTimeout \in Nat \ {0} /\ RequestTimeout < LeaseDuration
    \* A base of 1 could be halved to a zero delay, which the repository rejects.
    /\ BaseRetryDelay \in Nat \ {0, 1}
    /\ MaximumRetryDelay \in BaseRetryDelay .. MaximumRetryAfter
    /\ Responses \subseteq 100 .. 999
    /\ RetryAfters \subseteq Int
    /\ DurationLimit \in Nat
    /\ MaxSkew \in Nat

VARIABLES
    runner,    \* per worker: the claim it holds and how far it got
    accepted   \* per event: the attempts whose request the receiver accepted

workerVars == <<runner, accepted>>
vars == <<now, usable, row, runner, accepted>>

NoSettlement == [disposition |-> "NONE", status |-> 0, code |-> "", delay |-> 0]

Phases == {"idle", "claimed", "sending", "answered"}
NoClaim == [phase |-> "idle", event |-> 0, attempt |-> 0, leaseUntil |-> 0, skew |-> 0,
            deadline |-> 0, settlement |-> NoSettlement]

RunnerOK(k) ==
    /\ k.phase \in Phases
    /\ k.phase # "idle" => k.event \in Events /\ k.attempt \in 1 .. MaximumAttempts
    /\ {k.leaseUntil, k.skew, k.deadline} \subseteq Nat
    /\ k.settlement.disposition = "NONE" <=> k.phase # "answered"

(* Rows and workers are well formed. *)
TypeOK ==
    /\ OutboxTypeOK
    /\ accepted \in [Events -> SUBSET (1 .. MaximumAttempts)]
    /\ DOMAIN runner = Workers
    /\ \A w \in Workers : RunnerOK(runner[w])

Init ==
    /\ OutboxInit
    /\ runner = [w \in Workers |-> NoClaim]
    /\ accepted = [e \in Events |-> {}]

ClaimOf(w) == [event |-> runner[w].event, attempt |-> runner[w].attempt, worker |-> w]

In(w, phase) == runner[w].phase = phase

(* Mutant: the worker trusts its own clock for the database's. *)
EstimateBehind(w) == now - runner[w].skew

(* estimatedWebhookDatabaseTime *)
DatabaseTime(w) == now + runner[w].skew

-----------------------------------------------------------------------------
(* What DeliverOutcome makes of an exchange. *)

Permanent(code) == [disposition |-> "PERMANENT_FAILURE", status |-> 0, code |-> code, delay |-> 0]
Retry(status, code, delay) ==
    [disposition |-> "RETRY", status |-> status, code |-> code, delay |-> delay]

(* parseWebhookRetryAfter *)
RetryAfter(header) ==
    IF header < 0 \/ header > DurationLimit THEN 0
    ELSE IF header > MaximumRetryDelay THEN MaximumRetryDelay ELSE header

(* The delay of webhookBackoff before its jitter: the base doubled once per    *)
(* earlier attempt, saturating at the maximum.                                 *)
Doubled[n \in Nat] ==
    IF n <= 1 THEN BaseRetryDelay
    ELSE IF Doubled[n - 1] > MaximumRetryDelay \div 2 THEN MaximumRetryDelay
    ELSE 2 * Doubled[n - 1]

Larger(x, y) == IF x < y THEN y ELSE x
Smaller(x, y) == IF x < y THEN x ELSE y

(* webhookBackoff: floor(random * delay / 2^64) is below delay. *)
WebhookBackoff(attempt, retryAfter) ==
    {Larger(Smaller(Doubled[attempt] \div 2 + jitter, MaximumRetryDelay), retryAfter) :
        jitter \in 0 .. Doubled[attempt] - 1}

(* The delays processNext may ask for. *)
RetryDelays(attempt, retryAfter) ==
    IF attempt < MaximumAttempts THEN WebhookBackoff(attempt, retryAfter)
    ELSE {BaseRetryDelay \div 2}

(* Mutant: a status outside 200 .. 599 is reported as it came. *)
OutcomesUnchecked(status, attempt, header) ==
    IF status \in 200 .. 299
    THEN {[disposition |-> "DELIVERED", status |-> status, code |-> "", delay |-> 0]}
    ELSE IF Retryable(status)
    THEN {Retry(status, "http_retryable", d) : d \in RetryDelays(attempt, RetryAfter(header))}
    ELSE {[Permanent("http_permanent") EXCEPT !.status = status]}

(* The settlements that may follow an answer. *)
Outcomes(status, attempt, header) ==
    IF status \notin 200 .. 599 THEN {Permanent("invalid_delivery")}
    ELSE IF status \in 200 .. 299
    THEN {[disposition |-> "DELIVERED", status |-> status, code |-> "", delay |-> 0]}
    ELSE IF Retryable(status)
    THEN {Retry(status, "http_retryable", d) : d \in RetryDelays(attempt, RetryAfter(header))}
    ELSE {[Permanent("http_permanent") EXCEPT !.status = status]}

-----------------------------------------------------------------------------
(* processNext. *)

ClaimNextWebhook(w, e, c, skew) ==
    /\ In(w, "idle")
    /\ LeaseEvent(w, e, c)
    /\ runner' = [runner EXCEPT ![w] =
          [phase |-> "claimed", event |-> e, attempt |-> row[e].attempts + 1,
           leaseUntil |-> now + LeaseDuration, skew |-> skew, deadline |-> 0,
           settlement |-> NoSettlement]]
    /\ UNCHANGED accepted

(* The maintenance part of ClaimNextWebhook. *)
ClaimDeadLetter(w, e, c) == In(w, "idle") /\ DeadLetter(e, c) /\ UNCHANGED workerVars

Sweep(w, c) == In(w, "idle") /\ SweepTerminal(c) /\ UNCHANGED workerVars

(* The claim of w moves on to a phase. *)
Advance(w, phase, deadline, settlement) ==
    runner' = [runner EXCEPT ![w] =
        [phase |-> phase, event |-> runner[w].event, attempt |-> runner[w].attempt,
         leaseUntil |-> runner[w].leaseUntil, skew |-> runner[w].skew,
         deadline |-> deadline, settlement |-> settlement]]

Answered(w, settlement) == Advance(w, "answered", 0, settlement)

Send(w) ==
    /\ In(w, "claimed")
    /\ DatabaseTime(w) < runner[w].leaseUntil
    /\ LET remaining == runner[w].leaseUntil - DatabaseTime(w)
       IN  Advance(w, "sending", now + Smaller(RequestTimeout, remaining), NoSettlement)
    /\ UNCHANGED <<outboxVars, accepted>>

(* The receiver processes the request. *)
Accept(w) ==
    /\ In(w, "sending")
    /\ accepted' = [accepted EXCEPT ![runner[w].event] = @ \cup {runner[w].attempt}]
    /\ UNCHANGED <<outboxVars, runner>>

(* The answer arrives; a 2xx comes only from a receiver that accepted. *)
Answer(w, status, header) ==
    /\ In(w, "sending")
    /\ status \in 200 .. 299 => runner[w].attempt \in accepted[runner[w].event]
    /\ \E s \in Outcomes(status, runner[w].attempt, header) : Answered(w, s)
    /\ UNCHANGED <<outboxVars, accepted>>

(* A network error, a lost answer or the deadline; or a request that is not    *)
(* sent because its address or its content is refused.                         *)
RequestFails(w) ==
    /\ In(w, "sending")
    /\ \/ \E d \in RetryDelays(runner[w].attempt, 0) : Answered(w, Retry(0, "network", d))
       \/ \E code \in {"unsafe_destination", "invalid_delivery"} : Answered(w, Permanent(code))
    /\ UNCHANGED <<outboxVars, accepted>>

Idle(w) == runner' = [runner EXCEPT ![w] = NoClaim]

(* By its own estimate the worker has lost the lease, before or after the      *)
(* request.                                                                    *)
GiveUp(w) ==
    /\ In(w, "claimed") \/ In(w, "answered")
    /\ DatabaseTime(w) >= runner[w].leaseUntil
    /\ Idle(w)
    /\ UNCHANGED <<outboxVars, accepted>>

Settle(w, c) ==
    /\ In(w, "answered")
    /\ SettleWebhook(ClaimOf(w), runner[w].settlement, c)
    /\ Idle(w)
    /\ UNCHANGED accepted

(* The destination, the secret or the deliverer is unusable; this is settled   *)
(* without a request and without a look at the lease.                          *)
PreflightFails(w, c) ==
    /\ In(w, "claimed")
    /\ \E code \in {"unsafe_destination", "callback_decrypt", "configuration"} :
          SettleWebhook(ClaimOf(w), Permanent(code), c)
    /\ Idle(w)
    /\ UNCHANGED accepted

(* ErrWebhookLeaseLost *)
SettleStale(w, c) ==
    /\ In(w, "claimed") \/ In(w, "answered")
    /\ TransactionClock(c)
    /\ ~Holds(ClaimOf(w), c)
    /\ Idle(w)
    /\ UNCHANGED <<outboxVars, accepted>>

(* The process dies and is restarted, or the worker is told to stop. *)
Crash(w) == ~In(w, "idle") /\ Idle(w) /\ UNCHANGED <<outboxVars, accepted>>

-----------------------------------------------------------------------------

(* Time passes; a request ends before its deadline is reached. *)
Tick ==
    /\ now < MaxTime
    /\ \A w \in Workers : In(w, "sending") => now + 1 < runner[w].deadline
    /\ now' = now + 1
    /\ UNCHANGED <<usable, row, workerVars>>

Poll(w) ==
    \E e \in Events, c \in Times :
        \/ \E skew \in 0 .. MaxSkew : ClaimNextWebhook(w, e, c, skew)
        \/ ClaimDeadLetter(w, e, c)

Work(w) ==
    \/ Send(w)
    \/ \E status \in Responses, header \in RetryAfters : Answer(w, status, header)
    \/ RequestFails(w)
    \/ GiveUp(w)
    \/ \E c \in Times : Settle(w, c) \/ PreflightFails(w, c) \/ SettleStale(w, c)

Environment ==
    /\ \/ \E e \in Events, c \in Times : InsertEvent(e, c)
       \/ \E t \in Tenants : SetUsable(t)
    /\ UNCHANGED workerVars

Next ==
    \/ Tick
    \/ Environment
    \/ \E w \in Workers :
          \/ Poll(w) \/ Work(w) \/ Accept(w) \/ Crash(w)
          \/ \E c \in Times : Sweep(w, c)

Spec == Init /\ [][Next]_vars

(* Run loops until it is stopped, and every request has a deadline. *)
Fairness == WF_vars(Tick) /\ \A w \in Workers : WF_vars(Poll(w) \/ Work(w))
FairSpec == Spec /\ Fairness

-----------------------------------------------------------------------------
(* Safety. *)

(* No two workers have a request for the same event in flight: whatever the   *)
(* skew of a worker's clock, its request ends within the lease, so an event   *)
(* is reclaimed only after the earlier request is over.                       *)
OneRequestInFlight ==
    \A w \in Workers : In(w, "sending") =>
        /\ Holds(ClaimOf(w), now)
        /\ \A v \in Workers \ {w} : In(v, "sending") => runner[v].event # runner[w].event

(* An event is DELIVERED only when the receiver accepted the very attempt     *)
(* that settled it: neither a stale worker nor a redirect settles it.         *)
DeliveredWasAccepted ==
    \A e \in Events : row[e].status = "DELIVERED" => row[e].attempts \in accepted[e]

(* Crashes, retries and reclaims together use at most MaximumAttempts.        *)
AttemptsBounded == \A e \in Events : row[e].attempts <= MaximumAttempts

(* "The next attempt never exceeds event expiry": an event waits only for a   *)
(* time at which it can still be delivered.                                   *)
ScheduledBeforeExpiry ==
    \A e \in Events : row[e].status = "PENDING" => row[e].nextAt < row[e].expiresAt

(* Every settlement a worker produces from any answer passes the repository's *)
(* validation; a rejected one would stop the worker and resend the event.     *)
SettlementsAccepted ==
    \A w \in Workers : In(w, "answered") => Accepts(runner[w].settlement)

(* An ended event is never claimed, rescheduled or settled again; it can only *)
(* be swept.                                                                  *)
EndedIsFinal ==
    [][\A e \in Events : row[e].status \in Ended /\ row'[e] # row[e] =>
          row'[e].status = "SWEPT"]_vars

-----------------------------------------------------------------------------
(* Liveness. *)

(* Every event ends, whatever workers crash at every attempt. *)
EveryEventEnds ==
    \A e \in Events : row[e].status = "PENDING" ~> row[e].status \in Ended \cup {"SWEPT"}

=============================================================================
