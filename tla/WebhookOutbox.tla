----------------------------- MODULE WebhookOutbox -----------------------------
(***************************************************************************)
(* The rows of t_external_webhook_outbox after a job transaction inserted  *)
(* them, and the transactions of MySQLWebhookOutboxRepository: claim or    *)
(* reclaim, settlement, and the retention sweep.                           *)
(*                                                                         *)
(* A claim is [event, attempt, worker]; as in JobRepository the random     *)
(* lease_token of an attempt is represented by its number.  The code,      *)
(* status and text recorded for a dead event are left out: nothing reads   *)
(* them.                                                                   *)
(***************************************************************************)
EXTENDS Integers, FiniteSets

CONSTANTS
    Events,          \* primary keys of t_external_webhook_outbox
    Tenants,         \* primary keys of t_external_tenant
    Workers,         \* worker identities
    Owner,           \* outbox.tenant_id
    RowLocks,        \* sets of events another transaction may hold (SKIP LOCKED)
    MaximumAttempts,
    LeaseDuration,
    DeliveryWindow,  \* webhookDeliveryWindow
    Retention,       \* TerminalRetention
    SweepLimit,      \* rows deleted by one sweep
    MaximumRetryAfter, \* the longest delay a settlement may ask for
    MaxTime,         \* bound of the clock
    MaxClockLag,     \* how far a transaction's clock may lag behind
    LastInsert       \* bound: no event is inserted later

Times == 0 .. MaxTime
NoWorker == "none"
NoTime == -1         \* a NULL timestamp

ASSUME OutboxAssumption ==
    /\ Events \subseteq Nat
    /\ Tenants \subseteq Nat
    /\ Owner \in [Events -> Tenants]
    /\ NoWorker \notin Workers
    /\ RowLocks \subseteq SUBSET Events
    /\ MaximumAttempts \in 1 .. 100
    /\ {LeaseDuration, DeliveryWindow, Retention, SweepLimit} \subseteq Nat \ {0}
    /\ {MaximumRetryAfter, MaxTime, MaxClockLag, LastInsert} \subseteq Nat

VARIABLES
    now,       \* CURRENT_TIMESTAMP of the database
    usable,    \* the tenants that are ACTIVE and whose callback is enabled and valid
    row        \* t_external_webhook_outbox

outboxVars == <<now, usable, row>>

Ended == {"DELIVERED", "DEAD"}
\* NONE: not inserted yet; SWEPT: deleted.
Status == {"NONE", "PENDING", "DELIVERING", "SWEPT"} \cup Ended

EventRow == [status : Status, attempts : Nat, worker : Workers \cup {NoWorker},
             leaseUntil : Nat \cup {NoTime}, nextAt : Nat, expiresAt : Nat,
             endedAt : Times \cup {NoTime}]

NoRow == [status |-> "NONE", attempts |-> 0, worker |-> NoWorker, leaseUntil |-> NoTime,
          nextAt |-> 0, expiresAt |-> 0, endedAt |-> NoTime]

OutboxTypeOK == now \in Times /\ usable \subseteq Tenants /\ row \in [Events -> EventRow]

OutboxInit == now = 0 /\ usable = Tenants /\ row = [e \in Events |-> NoRow]

(* A clock that was read before the transaction waited for its locks. *)
TransactionClock(c) == c <= now /\ now - c <= MaxClockLag

Released(r) == [r EXCEPT !.worker = NoWorker, !.leaseUntil = NoTime]
Dead(r, c) == [Released(r) EXCEPT !.status = "DEAD", !.endedAt = c]

-----------------------------------------------------------------------------
(* insertTerminalWebhookEvent, inside the job's transaction. *)
NewEvent(c) == [status |-> "PENDING", attempts |-> 0, worker |-> NoWorker, leaseUntil |-> NoTime,
                nextAt |-> c, expiresAt |-> c + DeliveryWindow, endedAt |-> NoTime]

InsertEvent(e, c) ==
    /\ now <= LastInsert
    /\ TransactionClock(c)
    /\ row[e].status = "NONE"
    /\ row' = [row EXCEPT ![e] = NewEvent(c)]
    /\ UNCHANGED <<now, usable>>

-----------------------------------------------------------------------------
(* claimWebhook. *)

(* Mutant: an abandoned delivery is not reclaimed. *)
DuePendingOnly(e, c) == row[e].status = "PENDING" /\ row[e].nextAt <= c

Due(e, c) ==
    \/ row[e].status = "PENDING" /\ row[e].nextAt <= c
    \/ row[e].status = "DELIVERING" /\ row[e].leaseUntil <= c

DueAt(e) == IF row[e].status = "DELIVERING" THEN row[e].leaseUntil ELSE row[e].nextAt

Earlier(d, e) ==
    \/ DueAt(d) < DueAt(e)
    \/ DueAt(d) = DueAt(e) /\ d < e

(* The oldest due event of each tenant. *)
Heads(c) ==
    {e \in Events : Due(e, c) /\ ~\E d \in Events : Owner[d] = Owner[e] /\ Due(d, c) /\ Earlier(d, e)}

(* ORDER BY due time, tenant, id. *)
HeadPrecedes(d, e) ==
    \/ DueAt(d) < DueAt(e)
    \/ DueAt(d) = DueAt(e) /\ Owner[d] < Owner[e]
    \/ DueAt(d) = DueAt(e) /\ Owner[d] = Owner[e] /\ d <= e

(* e is selected, skipping the heads that another transaction holds. *)
Selected(e, c) ==
    /\ TransactionClock(c)
    /\ \E locked \in RowLocks :
          /\ e \in Heads(c) \ locked
          /\ \A d \in Heads(c) \ locked : HeadPrecedes(e, d)

(* Mutant: one attempt too many. *)
ExhaustedOffByOne(e) == row[e].attempts > MaximumAttempts

Exhausted(e) == row[e].attempts >= MaximumAttempts

(* The reasons for a dead letter, judged by the second clock reading. *)
Undeliverable(e) == Owner[e] \notin usable \/ row[e].expiresAt <= now \/ Exhausted(e)

DeadLetter(e, c) ==
    /\ Selected(e, c)
    /\ Undeliverable(e)
    /\ row' = [row EXCEPT ![e] = Dead(row[e], now)]
    /\ UNCHANGED <<now, usable>>

Leased(r, w) == [r EXCEPT !.status = "DELIVERING", !.attempts = r.attempts + 1,
                          !.worker = w, !.leaseUntil = now + LeaseDuration]

LeaseEvent(w, e, c) ==
    /\ Selected(e, c)
    /\ ~Undeliverable(e)
    /\ row' = [row EXCEPT ![e] = Leased(row[e], w)]
    /\ UNCHANGED <<now, usable>>

-----------------------------------------------------------------------------
(* SettleWebhook.  The lease is compared with the clock read before the lock. *)

(* Mutant: the row is selected by its id and attempt_count alone. *)
HoldsByAttempt(cl, c) == row[cl.event].attempts = cl.attempt

(* Mutant: the attempt and the worker are not compared. *)
HoldsAnyAttempt(cl, c) ==
    row[cl.event].status = "DELIVERING" /\ row[cl.event].leaseUntil > c

Holds(cl, c) ==
    /\ row[cl.event].status = "DELIVERING"
    /\ row[cl.event].attempts = cl.attempt
    /\ row[cl.event].worker = cl.worker
    /\ row[cl.event].leaseUntil > c

Retryable(status) == status \in {408, 425, 429} \cup 500 .. 599

(* The error codes of failures without an HTTP status. *)
PreflightCodes == {"unsafe_destination", "configuration", "invalid_delivery",
                   "callback_decrypt", "delivery_expired"}

(* validWebhookSettlement, for settlements that give a delay and no date. *)
Accepts(s) ==
    CASE s.disposition = "DELIVERED" -> s.status \in 200 .. 299 /\ s.code = "" /\ s.delay = 0
      [] s.disposition = "RETRY" ->
            /\ s.delay \in 1 .. MaximumRetryAfter
            /\ \/ s.code = "network" /\ s.status = 0
               \/ s.code = "http_retryable" /\ Retryable(s.status)
      [] s.disposition = "PERMANENT_FAILURE" ->
            /\ s.delay = 0
            /\ IF s.code = "http_permanent"
               THEN s.status \in 300 .. 499 /\ ~Retryable(s.status)
               ELSE s.status = 0 /\ s.code \in PreflightCodes
      [] OTHER -> FALSE

(* Mutant: the delivery window is not looked at. *)
RescheduledPastExpiry(r, c, delay) ==
    IF r.attempts >= MaximumAttempts THEN Dead(r, c)
    ELSE [Released(r) EXCEPT !.status = "PENDING", !.nextAt = c + delay]

(* The row after a settlement that asks for another attempt after a delay. *)
Rescheduled(r, c, delay) ==
    IF r.attempts >= MaximumAttempts \/ c + delay >= r.expiresAt THEN Dead(r, c)
    ELSE [Released(r) EXCEPT !.status = "PENDING", !.nextAt = c + delay]

SettledRow(r, c, settlement) ==
    CASE settlement.disposition = "DELIVERED" ->
            [Released(r) EXCEPT !.status = "DELIVERED", !.endedAt = c]
      [] settlement.disposition = "PERMANENT_FAILURE" -> Dead(r, c)
      [] settlement.disposition = "RETRY" -> Rescheduled(r, c, settlement.delay)

SettleWebhook(cl, settlement, c) ==
    /\ TransactionClock(c)
    /\ Accepts(settlement)
    /\ Holds(cl, c)
    /\ row' = [row EXCEPT ![cl.event] = SettledRow(row[cl.event], c, settlement)]
    /\ UNCHANGED <<now, usable>>

-----------------------------------------------------------------------------
(* SweepTerminal deletes the SweepLimit oldest ended events past retention. *)

PastRetention(c) ==
    {e \in Events : row[e].status \in Ended /\ row[e].endedAt <= c - Retention}

SweepPrecedes(d, e) ==
    \/ row[d].endedAt < row[e].endedAt
    \/ row[d].endedAt = row[e].endedAt /\ d < e

Swept(c, locked) ==
    LET free == PastRetention(c) \ locked
    IN  {e \in free : Cardinality({d \in free : SweepPrecedes(d, e)}) < SweepLimit}

SweepTerminal(c) ==
    /\ TransactionClock(c)
    /\ \E locked \in RowLocks :
          /\ Swept(c, locked) # {}
          /\ row' = [e \in Events |-> IF e \in Swept(c, locked)
                                      THEN [NoRow EXCEPT !.status = "SWEPT"] ELSE row[e]]
    /\ UNCHANGED <<now, usable>>

-----------------------------------------------------------------------------
(* Operators disable and enable tenants and callbacks. *)
SetUsable(t) ==
    /\ usable' = IF t \in usable THEN usable \ {t} ELSE usable \cup {t}
    /\ UNCHANGED <<now, row>>

=============================================================================
