----------------------------- MODULE WebhookProofs -----------------------------
(***************************************************************************)
(* Proofs about WebhookWorker, for any events, workers, leases and clocks. *)
(*                                                                         *)
(* That two requests for one event never overlap is not inductive: it      *)
(* needs that a worker whose lease has not run out still owns the row, and *)
(* that a request ends within the lease the worker knows of.               *)
(***************************************************************************)
EXTENDS WebhookWorker, TLAPS

(* w's attempt is the one its event's row records. *)
Owns(w) ==
    LET r == row[runner[w].event]
    IN  /\ r.status = "DELIVERING"
        /\ r.attempts = runner[w].attempt
        /\ r.worker = w
        /\ r.leaseUntil = runner[w].leaseUntil

(* Until its lease runs out, a worker that has not answered owns its row. *)
LeaseOwned(w) ==
    (In(w, "claimed") \/ In(w, "sending")) /\ now < runner[w].leaseUntil => Owns(w)

(* A request ends within the lease. *)
WithinLease(w) ==
    In(w, "sending") => now < runner[w].deadline /\ runner[w].deadline <= runner[w].leaseUntil

(* A worker reports a delivery only after the receiver accepted it. *)
ReportsAccepted(w) ==
    In(w, "answered") /\ runner[w].settlement.disposition = "DELIVERED" =>
        runner[w].attempt \in accepted[runner[w].event]

(* The inductive invariant. *)
Inv ==
    /\ TypeOK
    /\ AttemptsBounded
    /\ DeliveredWasAccepted
    /\ \A w \in Workers : LeaseOwned(w) /\ WithinLease(w) /\ ReportsAccepted(w)

-----------------------------------------------------------------------------
(* What the type invariant says of a worker. *)

(* The times a worker remembers are numbers, and a busy worker has a claim. *)
LEMMA RunnerFields ==
    ASSUME TypeOK, NEW w \in Workers
    PROVE  /\ RunnerOK(runner[w]) /\ now \in Nat
           /\ runner[w].leaseUntil \in Nat /\ runner[w].skew \in Nat
           /\ runner[w].deadline \in Nat
           /\ runner[w].phase # "idle" =>
                 runner[w].event \in Events /\ runner[w].attempt \in 1 .. MaximumAttempts
<1>1. RunnerOK(runner[w]) /\ now \in Nat
  BY OutboxAssumption DEF TypeOK, OutboxTypeOK, Times
<1> QED
  BY <1>1, Zenon DEF RunnerOK

(* An idle worker is well formed. *)
LEMMA NoClaimOK == RunnerOK(NoClaim) /\ NoClaim.phase = "idle"
<1>1. /\ NoClaim.phase = "idle" /\ NoClaim.settlement = NoSettlement
      /\ NoClaim.leaseUntil = 0 /\ NoClaim.skew = 0 /\ NoClaim.deadline = 0
  BY Zenon DEF NoClaim
<1>2. NoSettlement.disposition = "NONE"
  BY Zenon DEF NoSettlement
<1> QED
  BY <1>1, <1>2 DEF RunnerOK, Phases

(* A step that changes at most one worker, to a well-formed state, keeps the  *)
(* type invariant when it keeps that of the outbox.                           *)
LEMMA OneRunnerTyped ==
    ASSUME TypeOK, OutboxTypeOK', accepted' \in [Events -> SUBSET (1 .. MaximumAttempts)],
           NEW w \in Workers, NEW k, RunnerOK(k), DOMAIN runner' = Workers,
           \A v \in Workers : runner'[v] = IF v = w THEN k ELSE runner[v]
    PROVE  TypeOK'
<1>1. \A v \in Workers : RunnerOK(runner'[v])
  BY Zenon DEF TypeOK
<1>2. \A v \in Workers : RunnerOK(runner[v])'
  BY <1>1, Zenon DEF RunnerOK
<1> QED
  BY <1>2, Zenon DEF TypeOK

(* A step that changes neither the rows nor the clock nor the receiver.       *)
LEMMA SameOutboxTyped ==
    ASSUME TypeOK, UNCHANGED <<now, usable, row, accepted>>
    PROVE  OutboxTypeOK' /\ accepted' \in [Events -> SUBSET (1 .. MaximumAttempts)]
  BY Zenon DEF TypeOK, OutboxTypeOK

(* A step that leaves the workers alone.                                      *)
LEMMA SameRunnersTyped ==
    ASSUME TypeOK, OutboxTypeOK', UNCHANGED runner,
           accepted' \in [Events -> SUBSET (1 .. MaximumAttempts)]
    PROVE  TypeOK'
  BY Zenon DEF TypeOK, RunnerOK

-----------------------------------------------------------------------------
(* The rows after the transactions of the repository. *)

(* A dead letter keeps the number of attempts of its row. *)
LEMMA DeadRow ==
    ASSUME NEW r \in EventRow, NEW c \in Times
    PROVE  /\ Dead(r, c) \in EventRow
           /\ Dead(r, c).status = "DEAD"
           /\ Dead(r, c).attempts = r.attempts
  BY Zenon DEF Dead, Released, EventRow, Status, Ended

(* So does an event that waits for another attempt. *)
LEMMA PendingRow ==
    ASSUME NEW r \in EventRow, NEW t \in Nat
    PROVE  LET q == [Released(r) EXCEPT !.status = "PENDING", !.nextAt = t]
           IN  /\ q \in EventRow /\ q.status = "PENDING" /\ q.attempts = r.attempts
               /\ q.nextAt = t /\ q.expiresAt = r.expiresAt
  BY Zenon DEF Released, EventRow, Status, Ended

(* An event that is over, or waits for a time before its expiry. *)
Scheduled(r) == r.status \in Ended \/ (r.status = "PENDING" /\ r.nextAt < r.expiresAt)

(* A settlement leaves a well-formed row with the same number of attempts,    *)
(* which is DELIVERED only when the settlement says so and waits only for a   *)
(* time before its expiry.                                                    *)
LEMMA SettledRowFields ==
    ASSUME NEW r \in EventRow, NEW c \in Times, NEW s, Accepts(s)
    PROVE  /\ SettledRow(r, c, s) \in EventRow
           /\ SettledRow(r, c, s).attempts = r.attempts
           /\ SettledRow(r, c, s).status = "DELIVERED" => s.disposition = "DELIVERED"
           /\ Scheduled(SettledRow(r, c, s))
<1>1. CASE s.disposition = "DELIVERED"
  BY <1>1, Zenon DEF SettledRow, Released, EventRow, Status, Ended, Scheduled
<1>2. CASE s.disposition = "PERMANENT_FAILURE"
  <2>1. SettledRow(r, c, s) = Dead(r, c)
    BY <1>2, Zenon DEF SettledRow
  <2> QED
    BY <2>1, DeadRow, Zenon DEF Scheduled, Ended
<1>3. CASE s.disposition = "RETRY"
  <2>1. SettledRow(r, c, s) = Rescheduled(r, c, s.delay)
    BY <1>3, Zenon DEF SettledRow
  <2>2. s.delay \in 1 .. MaximumRetryAfter
    BY <1>3, Zenon DEF Accepts
  <2>3. c + s.delay \in Nat
    BY <2>2, OutboxAssumption DEF Times
  <2>4. CASE Rescheduled(r, c, s.delay) = Dead(r, c)
    BY <2>1, <2>4, DeadRow DEF Scheduled, Ended
  <2> DEFINE t == c + s.delay
             q == [Released(r) EXCEPT !.status = "PENDING", !.nextAt = t]
  <2>5. /\ q \in EventRow /\ q.status = "PENDING" /\ q.attempts = r.attempts
        /\ q.nextAt = t /\ q.expiresAt = r.expiresAt
    <3> HIDE DEF t
    <3> QED
      BY <2>3, PendingRow, Zenon DEF t
  <2>6. \/ Rescheduled(r, c, s.delay) = Dead(r, c)
        \/ Rescheduled(r, c, s.delay) = q /\ ~(t >= r.expiresAt)
    BY Zenon DEF Rescheduled
  <2> HIDE DEF q
  <2>7. CASE Rescheduled(r, c, s.delay) = q /\ ~(t >= r.expiresAt)
    <3>1. t < r.expiresAt
      BY <2>3, <2>7 DEF EventRow
    <3> HIDE DEF t
    <3> QED
      BY <2>1, <2>5, <2>7, <3>1, Zenon DEF Scheduled
  <2> QED
    BY <2>4, <2>6, <2>7, Zenon
<1> QED
  BY <1>1, <1>2, <1>3, Zenon DEF Accepts

(* No worker holds a live lease on event e. *)
Free(e) == row[e].status = "DELIVERING" => row[e].leaseUntil <= now

(* claimWebhook selects only events that nobody holds, however old its clock. *)
LEMMA SelectedFree ==
    ASSUME OutboxTypeOK, NEW e \in Events, NEW c \in Times, Selected(e, c)
    PROVE  /\ row[e].status \in {"PENDING", "DELIVERING"}
           /\ Free(e)
<1>1. Due(e, c) /\ TransactionClock(c)
  BY Zenon DEF Selected, Heads
<1>2. row[e] \in EventRow /\ now \in Nat /\ c \in Nat
  BY OutboxAssumption DEF OutboxTypeOK, Times
<1> QED
  BY <1>1, <1>2 DEF Due, TransactionClock, Free, EventRow, NoTime

(* A worker that has not answered and whose lease is alive owns a row that is *)
(* not free.                                                                  *)
LEMMA OwnedNotFree ==
    ASSUME Inv, NEW v \in Workers, In(v, "claimed") \/ In(v, "sending"),
           now < runner[v].leaseUntil
    PROVE  /\ runner[v].event \in Events
           /\ Owns(v)
           /\ ~Free(runner[v].event)
<1>1. runner[v].event \in Events
  BY RunnerFields, Zenon DEF Inv, In
<1>2. Owns(v)
  BY Zenon DEF Inv, LeaseOwned
<1>3. runner[v].leaseUntil \in Nat /\ now \in Nat
  BY RunnerFields, Zenon DEF Inv
<1> QED
  BY <1>1, <1>2, <1>3 DEF Owns, Free

(* Changing a free row, without delivering it, keeps the invariant. *)
LEMMA FreeRowChange ==
    ASSUME Inv, NEW e \in Events, Free(e), NEW q \in EventRow,
           q.attempts <= MaximumAttempts, q.status # "DELIVERED",
           row' = [row EXCEPT ![e] = q], UNCHANGED <<now, usable, workerVars>>
    PROVE  Inv'
<1>1. row' \in [Events -> EventRow] /\ UNCHANGED <<now, usable, runner, accepted>>
  BY Zenon DEF Inv, TypeOK, OutboxTypeOK, workerVars
<1>2. TypeOK'
  <2>1. OutboxTypeOK' /\ accepted' \in [Events -> SUBSET (1 .. MaximumAttempts)]
    BY <1>1, Zenon DEF Inv, TypeOK, OutboxTypeOK
  <2> QED
    BY <1>1, <2>1, SameRunnersTyped, Zenon DEF Inv
<1>3. \A d \in Events : row'[d] = IF d = e THEN q ELSE row[d]
  BY Zenon DEF Inv, TypeOK, OutboxTypeOK
<1>4. AttemptsBounded' /\ DeliveredWasAccepted'
  BY <1>1, <1>3, Zenon DEF Inv, AttemptsBounded, DeliveredWasAccepted
<1>5. ASSUME NEW v \in Workers PROVE LeaseOwned(v)'
  <2>1. SUFFICES ASSUME In(v, "claimed") \/ In(v, "sending"), now < runner[v].leaseUntil
                 PROVE  Owns(v)'
    BY <1>1, Zenon DEF LeaseOwned, In
  <2>2. runner[v].event \in Events \ {e} /\ Owns(v)
    BY <2>1, OwnedNotFree, Zenon
  <2> QED
    BY <1>1, <1>3, <2>2, Zenon DEF Owns
<1>6. ASSUME NEW v \in Workers PROVE (WithinLease(v) /\ ReportsAccepted(v))'
  BY <1>1, Zenon DEF Inv, WithinLease, ReportsAccepted, In
<1> QED
  BY <1>2, <1>4, <1>5, <1>6, Zenon DEF Inv

-----------------------------------------------------------------------------
(* Steps of a worker that leave the outbox alone. *)

(* A worker that begins to send within its lease, or stops with a settlement  *)
(* that reports only accepted deliveries, keeps the invariant.                *)
LEMMA AdvanceKeeps ==
    ASSUME Inv, NEW w \in Workers, NEW phase \in {"sending", "answered"},
           NEW deadline \in Nat, NEW s, ~In(w, "idle"),
           Advance(w, phase, deadline, s), UNCHANGED <<outboxVars, accepted>>,
           s.disposition = "NONE" <=> phase # "answered",
           phase = "sending" =>
               In(w, "claimed") /\ now < deadline /\ deadline <= runner[w].leaseUntil,
           s.disposition = "DELIVERED" => runner[w].attempt \in accepted[runner[w].event]
    PROVE  Inv'
<1> DEFINE k == [phase |-> phase, event |-> runner[w].event, attempt |-> runner[w].attempt,
                 leaseUntil |-> runner[w].leaseUntil, skew |-> runner[w].skew,
                 deadline |-> deadline, settlement |-> s]
<1>1. /\ UNCHANGED <<now, usable, row, accepted>>
      /\ DOMAIN runner = Workers
      /\ runner' = [runner EXCEPT ![w] = k]
  BY Zenon DEF Inv, TypeOK, outboxVars, Advance
<1>2. /\ DOMAIN runner' = Workers
      /\ runner'[w] = k
      /\ \A v \in Workers \ {w} : runner'[v] = runner[v]
  BY <1>1, Zenon
<1>3. /\ k.phase = phase /\ k.event = runner[w].event /\ k.attempt = runner[w].attempt
      /\ k.leaseUntil = runner[w].leaseUntil /\ k.skew = runner[w].skew
      /\ k.deadline = deadline /\ k.settlement = s
  BY Zenon
<1> HIDE DEF k
<1>4. runner[w].phase # "idle"
  BY Zenon DEF In
<1>5. TypeOK'
  <2>1. RunnerOK(k)
    BY <1>3, <1>4, RunnerFields, Zenon DEF Inv, RunnerOK, Phases
  <2>2. \A v \in Workers : runner'[v] = IF v = w THEN k ELSE runner[v]
    BY <1>2, Zenon
  <2> QED
    BY <1>1, <1>2, <2>1, <2>2, SameOutboxTyped, OneRunnerTyped, Zenon DEF Inv
<1>6. AttemptsBounded' /\ DeliveredWasAccepted'
  BY <1>1, Zenon DEF Inv, AttemptsBounded, DeliveredWasAccepted
<1>7. ASSUME NEW v \in Workers PROVE (LeaseOwned(v) /\ WithinLease(v) /\ ReportsAccepted(v))'
  <2>1. CASE v # w
    BY <1>1, <1>2, <2>1, Zenon DEF Inv, LeaseOwned, WithinLease, ReportsAccepted, Owns, In
  <2>2. CASE v = w
    <3>1. LeaseOwned(w)'
      BY <1>1, <1>2, <1>3 DEF Inv, LeaseOwned, Owns, In
    <3>2. WithinLease(w)' /\ ReportsAccepted(w)'
      BY <1>1, <1>2, <1>3, Zenon DEF WithinLease, ReportsAccepted, In
    <3> QED
      BY <2>2, <3>1, <3>2, Zenon
  <2> QED
    BY <2>1, <2>2, Zenon
<1> QED
  BY <1>5, <1>6, <1>7, Zenon DEF Inv

(* A worker that forgets its claim keeps the invariant. *)
LEMMA IdleKeeps ==
    ASSUME Inv, NEW w \in Workers, Idle(w), UNCHANGED <<outboxVars, accepted>>
    PROVE  Inv'
<1>1. /\ UNCHANGED <<now, usable, row, accepted>>
      /\ DOMAIN runner' = Workers
      /\ runner'[w] = NoClaim
      /\ \A v \in Workers \ {w} : runner'[v] = runner[v]
  BY Zenon DEF Inv, TypeOK, outboxVars, Idle
<1>2. \A v \in Workers : runner'[v] = IF v = w THEN NoClaim ELSE runner[v]
  BY <1>1, Zenon
<1>3. TypeOK'
  BY <1>1, <1>2, NoClaimOK, SameOutboxTyped, OneRunnerTyped, Zenon DEF Inv
<1>4. AttemptsBounded' /\ DeliveredWasAccepted'
  BY <1>1, Zenon DEF Inv, AttemptsBounded, DeliveredWasAccepted
<1>5. ASSUME NEW v \in Workers PROVE (LeaseOwned(v) /\ WithinLease(v) /\ ReportsAccepted(v))'
  <2>1. CASE v # w
    BY <1>1, <2>1 DEF Inv, LeaseOwned, WithinLease, ReportsAccepted, Owns, In
  <2>2. CASE v = w
    BY <1>1, <2>2, NoClaimOK, Zenon DEF LeaseOwned, WithinLease, ReportsAccepted, In
  <2> QED
    BY <2>1, <2>2, Zenon
<1> QED
  BY <1>3, <1>4, <1>5, Zenon DEF Inv

-----------------------------------------------------------------------------
(* One lemma per action. *)

(* Time passes: leases run out, requests in flight end first. *)
LEMMA TickKeeps == Inv /\ Tick => Inv'
<1> SUFFICES ASSUME Inv, Tick PROVE Inv'
  BY Zenon
<1>1. now \in Nat /\ now' = now + 1 /\ UNCHANGED <<usable, row, runner, accepted>>
  BY OutboxAssumption DEF Inv, TypeOK, OutboxTypeOK, Times, Tick, workerVars
<1>2. TypeOK'
  <2>1. OutboxTypeOK' /\ accepted' \in [Events -> SUBSET (1 .. MaximumAttempts)]
    BY <1>1, OutboxAssumption DEF Inv, TypeOK, OutboxTypeOK, Times, Tick
  <2> QED
    BY <1>1, <2>1, SameRunnersTyped, Zenon DEF Inv
<1>3. AttemptsBounded' /\ DeliveredWasAccepted'
  BY <1>1, Zenon DEF Inv, AttemptsBounded, DeliveredWasAccepted
<1>4. ASSUME NEW v \in Workers PROVE (LeaseOwned(v) /\ WithinLease(v) /\ ReportsAccepted(v))'
  <2>1. runner[v].leaseUntil \in Nat /\ runner[v].deadline \in Nat
    BY RunnerFields, Zenon DEF Inv
  <2>2. LeaseOwned(v) /\ WithinLease(v) /\ ReportsAccepted(v)
    BY Zenon DEF Inv
  <2>3. LeaseOwned(v)'
    BY <1>1, <2>1, <2>2 DEF LeaseOwned, Owns, In
  <2>4. WithinLease(v)'
    BY <1>1, <2>1, <2>2, Zenon DEF WithinLease, In, Tick
  <2>5. ReportsAccepted(v)'
    BY <1>1, <2>2, Zenon DEF ReportsAccepted, In
  <2> QED
    BY <2>3, <2>4, <2>5, Zenon
<1> QED
  BY <1>2, <1>3, <1>4, Zenon DEF Inv

(* insertTerminalWebhookEvent adds an event nobody holds; an operator's       *)
(* change leaves the rows alone.                                              *)
LEMMA EnvironmentKeeps == Inv /\ Environment => Inv'
<1> SUFFICES ASSUME Inv, Environment PROVE Inv'
  BY Zenon
<1>1. ASSUME NEW e \in Events, NEW c \in Times, InsertEvent(e, c), UNCHANGED workerVars
      PROVE  Inv'
  <2>1. row' = [row EXCEPT ![e] = NewEvent(c)] /\ UNCHANGED <<now, usable, workerVars>>
    BY <1>1, Zenon DEF InsertEvent
  <2>2. NewEvent(c) \in EventRow
    BY OutboxAssumption DEF NewEvent, EventRow, Status, Times
  <2>3. NewEvent(c).attempts <= MaximumAttempts /\ NewEvent(c).status # "DELIVERED"
    BY OutboxAssumption DEF NewEvent
  <2>4. Free(e)
    BY <1>1, Zenon DEF InsertEvent, Free
  <2> QED
    BY <2>1, <2>2, <2>3, <2>4, FreeRowChange, Zenon
<1>2. ASSUME NEW t \in Tenants, SetUsable(t), UNCHANGED workerVars
      PROVE  Inv'
  <2>1. UNCHANGED <<now, row, runner, accepted>>
    BY <1>2, Zenon DEF SetUsable, workerVars
  <2>2. TypeOK'
    <3>1. OutboxTypeOK' /\ accepted' \in [Events -> SUBSET (1 .. MaximumAttempts)]
      BY <1>2, <2>1, Zenon DEF SetUsable, Inv, TypeOK, OutboxTypeOK
    <3> QED
      BY <2>1, <3>1, SameRunnersTyped, Zenon DEF Inv
  <2> QED
    BY <2>1, <2>2, Zenon DEF Inv, AttemptsBounded, DeliveredWasAccepted, LeaseOwned, WithinLease,
                      ReportsAccepted, Owns, In
<1> QED
  BY <1>1, <1>2, Zenon DEF Environment

(* claimWebhook turns only a free event into a dead letter. *)
LEMMA DeadLetterKeeps ==
    ASSUME Inv, NEW w \in Workers, NEW e \in Events, NEW c \in Times, ClaimDeadLetter(w, e, c)
    PROVE  Inv'
<1>1. /\ Selected(e, c)
      /\ row' = [row EXCEPT ![e] = Dead(row[e], now)]
      /\ UNCHANGED <<now, usable, workerVars>>
  BY Zenon DEF ClaimDeadLetter, DeadLetter
<1>2. row[e] \in EventRow /\ now \in Times /\ row[e].attempts <= MaximumAttempts
  BY Zenon DEF Inv, TypeOK, OutboxTypeOK, AttemptsBounded
<1>3. Free(e)
  BY <1>1, SelectedFree, Zenon DEF Inv, TypeOK
<1>4. /\ Dead(row[e], now) \in EventRow
      /\ Dead(row[e], now).status = "DEAD"
      /\ Dead(row[e], now).attempts = row[e].attempts
  BY <1>2, DeadRow, Zenon
<1> QED
  BY <1>1, <1>2, <1>3, <1>4, FreeRowChange, Zenon

(* The row that LeaseEvent writes. *)
LEMMA LeasedRow ==
    ASSUME NEW r \in EventRow, NEW w \in Workers, now \in Nat
    PROVE  /\ Leased(r, w) \in EventRow
           /\ Leased(r, w).status = "DELIVERING"
           /\ Leased(r, w).attempts = r.attempts + 1
           /\ Leased(r, w).worker = w
           /\ Leased(r, w).leaseUntil = now + LeaseDuration
<1>1. r.attempts + 1 \in Nat /\ now + LeaseDuration \in Nat
  BY OutboxAssumption DEF EventRow
<1>2. PICK n \in Nat, t \in Nat : n = r.attempts + 1 /\ t = now + LeaseDuration
  BY <1>1, Zenon
<1>3. Leased(r, w) = [r EXCEPT !.status = "DELIVERING", !.attempts = n,
                               !.worker = w, !.leaseUntil = t]
  BY <1>2, Zenon DEF Leased
<1>4. /\ Leased(r, w) \in EventRow
      /\ Leased(r, w).status = "DELIVERING" /\ Leased(r, w).attempts = n
      /\ Leased(r, w).worker = w /\ Leased(r, w).leaseUntil = t
  BY <1>3, Zenon DEF EventRow, Status
<1> QED
  BY <1>2, <1>4, Zenon

(* A claim takes a free event, so the leases of other workers stay owned. *)
LEMMA ClaimKeeps ==
    ASSUME Inv, NEW w \in Workers, NEW e \in Events, NEW c \in Times,
           NEW skew \in 0 .. MaxSkew, ClaimNextWebhook(w, e, c, skew)
    PROVE  Inv'
<1> DEFINE k == [phase |-> "claimed", event |-> e, attempt |-> row[e].attempts + 1,
                 leaseUntil |-> now + LeaseDuration, skew |-> skew, deadline |-> 0,
                 settlement |-> NoSettlement]
           q == Leased(row[e], w)
<1>1. /\ Selected(e, c) /\ ~Exhausted(e)
      /\ row' = [row EXCEPT ![e] = q]
      /\ runner' = [runner EXCEPT ![w] = k]
      /\ UNCHANGED <<now, usable, accepted>>
  BY Zenon DEF ClaimNextWebhook, LeaseEvent, Undeliverable
<1>2. /\ k.phase = "claimed" /\ k.event = e /\ k.attempt = row[e].attempts + 1
      /\ k.leaseUntil = now + LeaseDuration /\ k.skew = skew /\ k.deadline = 0
      /\ k.settlement = NoSettlement
  BY Zenon
<1> HIDE DEF k
<1>3. /\ row \in [Events -> EventRow] /\ DOMAIN runner = Workers
      /\ row[e] \in EventRow /\ row[e].attempts \in Nat
      /\ now \in Nat /\ now \in Times /\ usable \subseteq Tenants
  <2>1. OutboxTypeOK /\ DOMAIN runner = Workers
    BY Zenon DEF Inv, TypeOK
  <2>2. now \in Nat
    BY <2>1, OutboxAssumption DEF OutboxTypeOK, Times
  <2>3. row[e] \in EventRow
    BY <2>1, Zenon DEF OutboxTypeOK
  <2>4. row[e].attempts \in Nat
    BY <2>3, Zenon DEF EventRow
  <2> QED
    BY <2>1, <2>2, <2>3, <2>4, Zenon DEF OutboxTypeOK
<1>4. /\ q \in EventRow /\ q.status = "DELIVERING" /\ q.attempts = row[e].attempts + 1
      /\ q.worker = w /\ q.leaseUntil = now + LeaseDuration
  BY <1>3, LeasedRow, Zenon
<1> HIDE DEF q
<1>5. /\ row' \in [Events -> EventRow]
      /\ \A d \in Events : row'[d] = IF d = e THEN q ELSE row[d]
      /\ DOMAIN runner' = Workers
      /\ \A v \in Workers : runner'[v] = IF v = w THEN k ELSE runner[v]
  BY <1>1, <1>3, <1>4, Zenon
<1>6. row[e].attempts + 1 \in 1 .. MaximumAttempts
  BY <1>1, <1>3, OutboxAssumption DEF Exhausted
<1>7. Free(e)
  BY <1>1, SelectedFree, Zenon DEF Inv, TypeOK
<1>8. TypeOK'
  <2>1. now + LeaseDuration \in Nat /\ skew \in Nat
    BY <1>3, OutboxAssumption, WorkerAssumption
  <2>2. NoSettlement.disposition = "NONE"
    BY Zenon DEF NoSettlement
  <2>3. RunnerOK(k)
    BY <1>2, <1>6, <2>1, <2>2 DEF RunnerOK, Phases
  <2>4. OutboxTypeOK'
    BY <1>1, <1>3, <1>5, Zenon DEF OutboxTypeOK
  <2>5. accepted' \in [Events -> SUBSET (1 .. MaximumAttempts)]
    BY <1>1, Zenon DEF Inv, TypeOK
  <2> QED
    BY <1>5, <2>3, <2>4, <2>5, OneRunnerTyped, Zenon DEF Inv
<1>9. AttemptsBounded' /\ DeliveredWasAccepted'
  <2>1. q.attempts <= MaximumAttempts
    BY <1>4, <1>6
  <2>2. AttemptsBounded'
    BY <1>5, <2>1, Zenon DEF Inv, AttemptsBounded
  <2>3. DeliveredWasAccepted'
    BY <1>1, <1>4, <1>5, Zenon DEF Inv, DeliveredWasAccepted
  <2> QED
    BY <2>2, <2>3, Zenon
<1>10. ASSUME NEW v \in Workers PROVE (LeaseOwned(v) /\ WithinLease(v) /\ ReportsAccepted(v))'
  <2>1. CASE v = w
    BY <1>2, <1>4, <1>5, <2>1, Zenon DEF LeaseOwned, WithinLease, ReportsAccepted, Owns, In
  <2>2. CASE v # w
    <3>1. runner'[v] = runner[v] /\ UNCHANGED <<now, accepted>>
      BY <1>1, <1>5, <2>2, Zenon
    <3>2. (WithinLease(v) /\ ReportsAccepted(v))'
      BY <3>1, Zenon DEF Inv, WithinLease, ReportsAccepted, In
    <3>3. SUFFICES ASSUME In(v, "claimed") \/ In(v, "sending"), now < runner[v].leaseUntil
                   PROVE  Owns(v)'
      BY <3>1, <3>2, Zenon DEF LeaseOwned, In
    <3>4. runner[v].event \in Events \ {e} /\ Owns(v)
      BY <1>7, <3>3, OwnedNotFree, Zenon
    <3> QED
      BY <1>5, <3>1, <3>4, Zenon DEF Owns
  <2> QED
    BY <2>1, <2>2, Zenon
<1> QED
  BY <1>8, <1>9, <1>10, Zenon DEF Inv

(* SweepTerminal removes ended events only. *)
LEMMA SweepKeeps ==
    ASSUME Inv, NEW w \in Workers, NEW c \in Times, Sweep(w, c)
    PROVE  Inv'
<1> DEFINE q == [NoRow EXCEPT !.status = "SWEPT"]
<1>1. PICK S \in SUBSET Events :
          /\ \A e \in S : row[e].status \in Ended
          /\ row' = [e \in Events |-> IF e \in S THEN q ELSE row[e]]
  BY Zenon DEF Sweep, SweepTerminal, Swept, PastRetention
<1>2. UNCHANGED <<now, usable, runner, accepted>>
  BY Zenon DEF Sweep, SweepTerminal, workerVars
<1>3. q \in EventRow /\ q.status = "SWEPT" /\ q.attempts = 0
  BY Zenon DEF NoRow, EventRow, Status
<1> HIDE DEF q
<1>4. TypeOK'
  <2>1. row' \in [Events -> EventRow]
    BY <1>1, <1>3, Zenon DEF Inv, TypeOK, OutboxTypeOK
  <2>2. OutboxTypeOK' /\ accepted' \in [Events -> SUBSET (1 .. MaximumAttempts)]
    BY <1>2, <2>1, Zenon DEF Inv, TypeOK, OutboxTypeOK
  <2> QED
    BY <1>2, <2>2, SameRunnersTyped, Zenon DEF Inv
<1>5. AttemptsBounded' /\ DeliveredWasAccepted'
  BY <1>1, <1>2, <1>3, OutboxAssumption DEF Inv, AttemptsBounded, DeliveredWasAccepted
<1>6. ASSUME NEW v \in Workers PROVE (LeaseOwned(v) /\ WithinLease(v) /\ ReportsAccepted(v))'
  <2>1. (WithinLease(v) /\ ReportsAccepted(v))'
    BY <1>2, Zenon DEF Inv, WithinLease, ReportsAccepted, In
  <2>2. SUFFICES ASSUME In(v, "claimed") \/ In(v, "sending"), now < runner[v].leaseUntil
                 PROVE  Owns(v)'
    BY <1>2, <2>1, Zenon DEF LeaseOwned, In
  <2>3. runner[v].event \in Events /\ Owns(v)
    BY <2>2, OwnedNotFree, Zenon
  <2> QED
    BY <1>1, <1>2, <2>3, Zenon DEF Owns, Ended
<1> QED
  BY <1>4, <1>5, <1>6, Zenon DEF Inv

(* Only the owner of the current attempt settles an event, and it reports a   *)
(* delivery only if the receiver accepted that attempt.                       *)
LEMMA SettleKeeps ==
    ASSUME Inv, NEW w \in Workers, NEW c \in Times, NEW s, ~In(w, "idle"),
           SettleWebhook(ClaimOf(w), s, c), Idle(w), UNCHANGED accepted,
           s.disposition = "DELIVERED" => runner[w].attempt \in accepted[runner[w].event]
    PROVE  Inv'
<1> DEFINE e == runner[w].event
           q == SettledRow(row[e], c, s)
<1>1. /\ runner[w].phase # "idle" /\ Accepts(s)
      /\ row[e].status = "DELIVERING" /\ row[e].attempts = runner[w].attempt
      /\ row[e].worker = w
      /\ row' = [row EXCEPT ![e] = q]
      /\ runner' = [runner EXCEPT ![w] = NoClaim]
      /\ UNCHANGED <<now, usable, accepted>>
  BY Zenon DEF SettleWebhook, ClaimOf, Holds, Idle, In
<1>2. /\ e \in Events /\ row[e] \in EventRow
      /\ row \in [Events -> EventRow] /\ DOMAIN runner = Workers
      /\ row[e].attempts <= MaximumAttempts
  BY <1>1, RunnerFields, Zenon DEF Inv, TypeOK, OutboxTypeOK, AttemptsBounded
<1>3. /\ q \in EventRow
      /\ q.attempts = row[e].attempts
      /\ q.status = "DELIVERED" => s.disposition = "DELIVERED"
  BY <1>1, <1>2, SettledRowFields, Zenon
<1> HIDE DEF q
<1>4. /\ row' \in [Events -> EventRow]
      /\ \A d \in Events : row'[d] = IF d = e THEN q ELSE row[d]
      /\ DOMAIN runner' = Workers
      /\ \A v \in Workers : runner'[v] = IF v = w THEN NoClaim ELSE runner[v]
  BY <1>1, <1>2, <1>3, Zenon
<1>7. TypeOK'
  <2>1. OutboxTypeOK' /\ accepted' \in [Events -> SUBSET (1 .. MaximumAttempts)]
    BY <1>1, <1>4, Zenon DEF Inv, TypeOK, OutboxTypeOK
  <2> QED
    BY <1>4, <2>1, NoClaimOK, OneRunnerTyped, Zenon DEF Inv
<1>8. AttemptsBounded'
  BY <1>2, <1>3, <1>4, Zenon DEF Inv, AttemptsBounded
<1>9. q.status = "DELIVERED" => q.attempts \in accepted[e]
  BY <1>1, <1>3, Zenon
<1>10. DeliveredWasAccepted'
  BY <1>1, <1>4, <1>9, Zenon DEF Inv, DeliveredWasAccepted
<1>11. ASSUME NEW v \in Workers PROVE (LeaseOwned(v) /\ WithinLease(v) /\ ReportsAccepted(v))'
  <2>1. CASE v = w
    BY <1>4, <2>1, NoClaimOK, Zenon DEF LeaseOwned, WithinLease, ReportsAccepted, In
  <2>2. CASE v # w
    <3>1. runner'[v] = runner[v] /\ UNCHANGED <<now, accepted>>
      BY <1>1, <1>4, <2>2, Zenon
    <3>2. (WithinLease(v) /\ ReportsAccepted(v))'
      BY <3>1, Zenon DEF Inv, WithinLease, ReportsAccepted, In
    <3>3. SUFFICES ASSUME In(v, "claimed") \/ In(v, "sending"), now < runner[v].leaseUntil
                   PROVE  Owns(v)'
      BY <3>1, <3>2, Zenon DEF LeaseOwned, In
    <3>4. runner[v].event \in Events /\ Owns(v)
      BY <3>3, OwnedNotFree, Zenon
    <3>5. runner[v].event # e
      BY <1>1, <2>2, <3>4, Zenon DEF Owns
    <3> QED
      BY <1>4, <3>1, <3>4, <3>5, Zenon DEF Owns
  <2> QED
    BY <2>1, <2>2, Zenon
<1> QED
  BY <1>7, <1>8, <1>10, <1>11, Zenon DEF Inv

(* The receiver's acceptance is only ever added to. *)
LEMMA AcceptKeeps ==
    ASSUME Inv, NEW w \in Workers, Accept(w)
    PROVE  Inv'
<1> DEFINE e == runner[w].event
           n == runner[w].attempt
<1>1. /\ accepted' = [accepted EXCEPT ![e] = accepted[e] \cup {n}]
      /\ UNCHANGED <<now, usable, row, runner>>
      /\ e \in Events /\ n \in 1 .. MaximumAttempts
      /\ accepted \in [Events -> SUBSET (1 .. MaximumAttempts)]
  BY RunnerFields, Zenon DEF Accept, outboxVars, Inv, TypeOK, In
<1>2. /\ accepted' \in [Events -> SUBSET (1 .. MaximumAttempts)]
      /\ \A d \in Events : accepted[d] \subseteq accepted'[d]
  BY <1>1, Zenon
<1>3. TypeOK'
  <2>1. OutboxTypeOK'
    BY <1>1, Zenon DEF Inv, TypeOK, OutboxTypeOK
  <2> QED
    BY <1>1, <1>2, <2>1, SameRunnersTyped, Zenon DEF Inv
<1>4. AttemptsBounded' /\ DeliveredWasAccepted'
  BY <1>1, <1>2, Zenon DEF Inv, AttemptsBounded, DeliveredWasAccepted
<1>5. ASSUME NEW v \in Workers PROVE (LeaseOwned(v) /\ WithinLease(v) /\ ReportsAccepted(v))'
  <2>1. (LeaseOwned(v) /\ WithinLease(v))'
    BY <1>1, Zenon DEF Inv, LeaseOwned, WithinLease, Owns, In
  <2>2. In(v, "answered") => runner[v].event \in Events
    BY RunnerFields, Zenon DEF Inv, In
  <2>3. ReportsAccepted(v)'
    BY <1>1, <1>2, <2>2, Zenon DEF Inv, ReportsAccepted, In
  <2> QED
    BY <2>1, <2>3, Zenon
<1> QED
  BY <1>3, <1>4, <1>5, Zenon DEF Inv

(* DeliverOutcome reports a delivery for a 2xx status only. *)
LEMMA OutcomeDisposition ==
    ASSUME NEW status, NEW attempt, NEW header, NEW s \in Outcomes(status, attempt, header)
    PROVE  /\ s.disposition # "NONE"
           /\ s.disposition = "DELIVERED" => status \in 200 .. 299
<1>1. \A code : Permanent(code).disposition = "PERMANENT_FAILURE"
  BY Zenon DEF Permanent
<1>2. [Permanent("http_permanent") EXCEPT !.status = status].disposition = "PERMANENT_FAILURE"
  BY Zenon DEF Permanent
<1>3. \A code, d : Retry(status, code, d).disposition = "RETRY"
  BY Zenon DEF Retry
<1>4. CASE status \in 200 .. 299
  <2>1. status \in 200 .. 599
    BY <1>4
  <2>2. s = [disposition |-> "DELIVERED", status |-> status, code |-> "", delay |-> 0]
    BY <1>4, <2>1, ZenonT(30) DEF Outcomes
  <2>3. s.disposition = "DELIVERED"
    BY <2>2, Zenon
  <2> QED
    BY <1>4, <2>3, Zenon
<1>5. CASE status \notin 200 .. 299
  <2>1. \/ s = Permanent("invalid_delivery")
        \/ \E d : s = Retry(status, "http_retryable", d)
        \/ s = [Permanent("http_permanent") EXCEPT !.status = status]
    <3> DEFINE p == [Permanent("http_permanent") EXCEPT !.status = status]
    <3>1. CASE status \notin 200 .. 599
      BY <3>1, Zenon DEF Outcomes
    <3>2. CASE status \in 200 .. 599 /\ Retryable(status)
      BY <1>5, <3>2 DEF Outcomes
    <3>3. CASE status \in 200 .. 599 /\ ~Retryable(status)
      <4>1. Outcomes(status, attempt, header) = {p}
        BY <1>5, <3>3 DEF Outcomes
      <4> HIDE DEF p
      <4> QED
        BY <4>1, Zenon DEF p
    <3> QED
      BY <3>1, <3>2, <3>3, Zenon
  <2>2. s.disposition \in {"PERMANENT_FAILURE", "RETRY"}
    BY <1>1, <1>2, <1>3, <2>1, Zenon
  <2> QED
    BY <2>2, Zenon
<1> QED
  BY <1>4, <1>5, Zenon

(* Send sets a deadline after now and within the lease, whatever the skew. *)
LEMMA SendKeeps ==
    ASSUME Inv, NEW w \in Workers, Send(w)
    PROVE  Inv'
<1> DEFINE remaining == runner[w].leaseUntil - DatabaseTime(w)
           deadline == now + Smaller(RequestTimeout, remaining)
<1>1. now \in Nat /\ runner[w].leaseUntil \in Nat /\ runner[w].skew \in Nat
  BY RunnerFields, Zenon DEF Inv
<1>2. DatabaseTime(w) < runner[w].leaseUntil
  BY Zenon DEF Send
<1>3. deadline \in Nat /\ now < deadline /\ deadline <= runner[w].leaseUntil
  <2>1. remaining \in Nat \ {0} /\ remaining <= runner[w].leaseUntil - now
    BY <1>1, <1>2 DEF DatabaseTime
  <2> HIDE DEF remaining
  <2>2. /\ Smaller(RequestTimeout, remaining) \in Nat \ {0}
        /\ Smaller(RequestTimeout, remaining) <= remaining
    BY <2>1, WorkerAssumption DEF Smaller
  <2> QED
    BY <1>1, <2>1, <2>2
<1>4. /\ In(w, "claimed") /\ Advance(w, "sending", deadline, NoSettlement)
      /\ UNCHANGED <<outboxVars, accepted>>
  BY Zenon DEF Send
<1> HIDE DEF deadline
<1>5. NoSettlement.disposition = "NONE"
  BY Zenon DEF NoSettlement
<1>6. ~In(w, "idle")
  BY <1>4, Zenon DEF In
<1>7. NoSettlement.disposition # "DELIVERED"
  BY <1>5, Zenon
<1> QED
  BY <1>3, <1>4, <1>5, <1>6, <1>7, AdvanceKeeps, Zenon

(* A worker that stops with a settlement of any kind. *)
LEMMA AnsweredKeeps ==
    ASSUME Inv, NEW w \in Workers, NEW s, ~In(w, "idle"), Answered(w, s),
           UNCHANGED <<outboxVars, accepted>>, s.disposition # "NONE",
           s.disposition = "DELIVERED" => runner[w].attempt \in accepted[runner[w].event]
    PROVE  Inv'
  BY AdvanceKeeps, Zenon DEF Answered

(* Every step of processNext keeps the invariant. *)
LEMMA WorkKeeps ==
    ASSUME Inv, NEW w \in Workers, Work(w)
    PROVE  Inv'
<1>1. \A code : Permanent(code).disposition = "PERMANENT_FAILURE"
  BY Zenon DEF Permanent
<1>2. ASSUME NEW c \in Times, PreflightFails(w, c) PROVE Inv'
  <2>1. ~In(w, "idle") /\ Idle(w) /\ UNCHANGED accepted
    BY <1>2, Zenon DEF PreflightFails, In
  <2>2. PICK code : SettleWebhook(ClaimOf(w), Permanent(code), c)
    BY <1>2, Zenon DEF PreflightFails
  <2>3. Permanent(code).disposition # "DELIVERED"
    BY <1>1, Zenon
  <2> QED
    BY <2>1, <2>2, <2>3, SettleKeeps, Zenon
<1>3. CASE Send(w)
  BY <1>3, SendKeeps, Zenon
<1>4. ASSUME NEW status \in Responses, NEW header \in RetryAfters, Answer(w, status, header)
      PROVE  Inv'
  <2>1. PICK s \in Outcomes(status, runner[w].attempt, header) : Answered(w, s)
    BY <1>4, Zenon DEF Answer
  <2>2. s.disposition # "NONE" /\ (s.disposition = "DELIVERED" => status \in 200 .. 299)
    BY OutcomeDisposition, Zenon
  <2>3. /\ ~In(w, "idle") /\ UNCHANGED <<outboxVars, accepted>>
        /\ status \in 200 .. 299 => runner[w].attempt \in accepted[runner[w].event]
    BY <1>4, Zenon DEF Answer, In
  <2> QED
    BY <2>1, <2>2, <2>3, AnsweredKeeps, Zenon
<1>5. CASE RequestFails(w)
  <2>1. ~In(w, "idle") /\ UNCHANGED <<outboxVars, accepted>>
    BY <1>5, Zenon DEF RequestFails, In
  <2>2. PICK s : Answered(w, s) /\ s.disposition \in {"RETRY", "PERMANENT_FAILURE"}
    <3>1. \A d : Retry(0, "network", d).disposition = "RETRY"
      BY Zenon DEF Retry
    <3> QED
      BY <1>1, <1>5, <3>1, Zenon DEF RequestFails
  <2> QED
    BY <2>1, <2>2, AnsweredKeeps, Zenon
<1>6. CASE GiveUp(w)
  BY <1>6, IdleKeeps, Zenon DEF GiveUp
<1>7. ASSUME NEW c \in Times, Settle(w, c) PROVE Inv'
  <2>1. /\ ~In(w, "idle") /\ Idle(w) /\ UNCHANGED accepted
        /\ SettleWebhook(ClaimOf(w), runner[w].settlement, c)
        /\ In(w, "answered")
    BY <1>7, Zenon DEF Settle, In
  <2>2. runner[w].settlement.disposition = "DELIVERED" =>
            runner[w].attempt \in accepted[runner[w].event]
    BY <2>1, Zenon DEF Inv, ReportsAccepted
  <2> QED
    BY <2>1, <2>2, SettleKeeps, Zenon
<1>8. ASSUME NEW c \in Times, SettleStale(w, c) PROVE Inv'
  BY <1>8, IdleKeeps, Zenon DEF SettleStale
<1> QED
  BY <1>2, <1>3, <1>4, <1>5, <1>6, <1>7, <1>8, Zenon DEF Work

(* The invariant holds at first. *)
LEMMA InvInit == Init => Inv
<1> SUFFICES ASSUME Init PROVE Inv
  BY Zenon
<1>3. NoRow \in EventRow /\ NoRow.attempts = 0 /\ NoRow.status = "NONE"
  BY Zenon DEF NoRow, EventRow, Status
<1>4. now = 0 /\ usable = Tenants /\ row = [e \in Events |-> NoRow]
  BY Zenon DEF Init, OutboxInit
<1>5. runner = [w \in Workers |-> NoClaim] /\ accepted = [e \in Events |-> {}]
  BY Zenon DEF Init
<1>6. TypeOK
  <2>1. OutboxTypeOK
    BY <1>3, <1>4, OutboxAssumption DEF OutboxTypeOK, Times
  <2> QED
    BY <1>5, <2>1, NoClaimOK, Zenon DEF TypeOK
<1>7. AttemptsBounded /\ DeliveredWasAccepted
  BY <1>3, <1>4, OutboxAssumption DEF AttemptsBounded, DeliveredWasAccepted
<1>8. \A w \in Workers : LeaseOwned(w) /\ WithinLease(w) /\ ReportsAccepted(w)
  BY <1>5, NoClaimOK, Zenon DEF LeaseOwned, WithinLease, ReportsAccepted, In
<1> QED
  BY <1>6, <1>7, <1>8, Zenon DEF Inv

(* Every step keeps it. *)
LEMMA InvNext == Inv /\ [Next]_vars => Inv'
<1> SUFFICES ASSUME Inv, [Next]_vars PROVE Inv'
  BY Zenon
<1>1. CASE Tick
  BY <1>1, TickKeeps, Zenon
<1>2. CASE Environment
  BY <1>2, EnvironmentKeeps, Zenon
<1>3. ASSUME NEW w \in Workers, Poll(w) PROVE Inv'
  BY <1>3, ClaimKeeps, DeadLetterKeeps, Zenon DEF Poll
<1>4. ASSUME NEW w \in Workers, Work(w) PROVE Inv'
  BY <1>4, WorkKeeps, Zenon
<1>5. ASSUME NEW w \in Workers, Accept(w) PROVE Inv'
  BY <1>5, AcceptKeeps, Zenon
<1>6. ASSUME NEW w \in Workers, Crash(w) PROVE Inv'
  BY <1>6, IdleKeeps, Zenon DEF Crash
<1>7. ASSUME NEW w \in Workers, NEW c \in Times, Sweep(w, c) PROVE Inv'
  BY <1>7, SweepKeeps, Zenon
<1>8. CASE UNCHANGED vars
  <2>1. UNCHANGED <<now, usable, row, runner, accepted>>
    BY <1>8, Zenon DEF vars
  <2>2. TypeOK'
    BY <2>1, SameOutboxTyped, SameRunnersTyped, Zenon DEF Inv
  <2> QED
    BY <2>1, <2>2, Zenon DEF Inv, AttemptsBounded, DeliveredWasAccepted, LeaseOwned, WithinLease,
                      ReportsAccepted, Owns, In
<1> QED
  BY <1>1, <1>2, <1>3, <1>4, <1>5, <1>6, <1>7, <1>8, Zenon DEF Next

(* The inductive invariant holds for ever. *)
LEMMA Invariance == Spec => []Inv
  BY InvInit, InvNext, PTL DEF Spec

(* A time before a deadline is before what the deadline does not exceed. *)
LEMMA Between == \A x, y, z \in Nat : x < y /\ y <= z => x < z
  OBVIOUS

-----------------------------------------------------------------------------
(* The theorems. *)

(* Rows and workers stay well formed. *)
THEOREM TypeCorrect == Spec => []TypeOK
<1>1. Inv => TypeOK
  BY Zenon DEF Inv
<1> QED
  BY <1>1, Invariance, PTL

(* Reclaims and retries of an event never use more than MaximumAttempts       *)
(* attempts, whatever workers crash (claimWebhook, SettleWebhook).            *)
THEOREM AttemptsCorrect == Spec => []AttemptsBounded
<1>1. Inv => AttemptsBounded
  BY Zenon DEF Inv
<1> QED
  BY <1>1, Invariance, PTL

(* SettleWebhook marks an event DELIVERED only for the attempt that the       *)
(* receiver accepted.                                                         *)
THEOREM DeliveryCorrect == Spec => []DeliveredWasAccepted
<1>1. Inv => DeliveredWasAccepted
  BY Zenon DEF Inv
<1> QED
  BY <1>1, Invariance, PTL

(* processNext never has a request in flight beyond its lease, so requests    *)
(* for one event do not overlap.                                              *)
THEOREM RequestsExclusive == Spec => []OneRequestInFlight
<1>1. ASSUME Inv PROVE OneRequestInFlight
  <2>1. ASSUME NEW w \in Workers, In(w, "sending")
        PROVE  Owns(w) /\ now < runner[w].leaseUntil
    <3>1. now \in Nat /\ runner[w].leaseUntil \in Nat /\ runner[w].deadline \in Nat
      BY <1>1, RunnerFields, Zenon DEF Inv
    <3>2. now < runner[w].leaseUntil
      <4>1. WithinLease(w)
        BY <1>1, Zenon DEF Inv
      <4>2. now < runner[w].deadline /\ runner[w].deadline <= runner[w].leaseUntil
        BY <2>1, <4>1, Zenon DEF WithinLease
      <4> QED
        BY <3>1, <4>2, Between, Zenon
    <3>3. LeaseOwned(w)
      BY <1>1, Zenon DEF Inv
    <3> QED
      BY <2>1, <3>2, <3>3, Zenon DEF LeaseOwned
  <2>2. ASSUME NEW w \in Workers, In(w, "sending") PROVE Holds(ClaimOf(w), now)
    <3>1. Owns(w) /\ now < runner[w].leaseUntil
      BY <2>1, <2>2, Zenon
    <3>2. now \in Nat /\ runner[w].leaseUntil \in Nat
      BY <1>1, RunnerFields, Zenon DEF Inv
    <3> QED
      BY <3>1, <3>2, Zenon DEF Owns, Holds, ClaimOf
  <2>3. ASSUME NEW w \in Workers, NEW v \in Workers \ {w}, In(w, "sending"), In(v, "sending")
        PROVE  runner[v].event # runner[w].event
    <3>1. Owns(w) /\ Owns(v)
      BY <2>1, <2>3, Zenon
    <3> QED
      BY <3>1, Zenon DEF Owns
  <2> QED
    BY <2>2, <2>3, Zenon DEF OneRequestInFlight
<1> QED
  BY <1>1, Invariance, PTL

-----------------------------------------------------------------------------
(* What a step may do to a row. *)

(* An event is inserted; taken, ended or rescheduled while it is not over; or *)
(* swept once it is.                                                          *)
RowStep(e) ==
    \/ row'[e] = row[e]
    \/ row[e].status = "NONE" /\ Scheduled(row'[e])
    \/ /\ row[e].status \in {"PENDING", "DELIVERING"}
       /\ row'[e].status = "DELIVERING" \/ Scheduled(row'[e])
    \/ row[e].status \in Ended /\ row'[e].status = "SWEPT"

(* A step that writes one row, in one of those ways. *)
LEMMA OneRowStep ==
    ASSUME TypeOK, NEW e \in Events, NEW q, row' = [row EXCEPT ![e] = q],
           \/ row[e].status = "NONE" /\ Scheduled(q)
           \/ /\ row[e].status \in {"PENDING", "DELIVERING"}
              /\ q.status = "DELIVERING" \/ Scheduled(q)
    PROVE  \A d \in Events : RowStep(d)
<1>1. \A d \in Events : row'[d] = IF d = e THEN q ELSE row[d]
  BY Zenon DEF TypeOK, OutboxTypeOK
<1> QED
  BY <1>1, Zenon DEF RowStep

(* Every step changes every row in one of those ways. *)
LEMMA StepRows == Inv /\ [Next]_vars => \A e \in Events : RowStep(e)
<1> SUFFICES ASSUME Inv, [Next]_vars PROVE \A e \in Events : RowStep(e)
  BY Zenon
<1>1. TypeOK /\ OutboxTypeOK /\ now \in Times /\ \A e \in Events : row[e] \in EventRow
  BY Zenon DEF Inv, TypeOK, OutboxTypeOK
<1>2. CASE UNCHANGED row
  BY <1>2, Zenon DEF RowStep
<1>3. ASSUME NEW e \in Events, NEW c \in Times, InsertEvent(e, c)
      PROVE  \A d \in Events : RowStep(d)
  <2>1. Scheduled(NewEvent(c))
    <3>1. /\ NewEvent(c).status = "PENDING" /\ NewEvent(c).nextAt = c
          /\ NewEvent(c).expiresAt = c + DeliveryWindow
      BY Zenon DEF NewEvent
    <3> QED
      BY <3>1, OutboxAssumption DEF Scheduled, Times
  <2> QED
    BY <1>1, <1>3, <2>1, OneRowStep, Zenon DEF InsertEvent
<1>4. ASSUME NEW w \in Workers, NEW e \in Events, NEW c \in Times,
             DeadLetter(e, c) \/ LeaseEvent(w, e, c)
      PROVE  \A d \in Events : RowStep(d)
  <2>1. row[e].status \in {"PENDING", "DELIVERING"} /\ row[e] \in EventRow /\ now \in Nat
    <3>1. Selected(e, c)
      BY <1>4, Zenon DEF DeadLetter, LeaseEvent
    <3>2. row[e].status \in {"PENDING", "DELIVERING"}
      BY <1>1, <3>1, SelectedFree, Zenon
    <3>3. now \in Nat
      BY <1>1, OutboxAssumption DEF Times
    <3> QED
      BY <1>1, <3>2, <3>3, Zenon
  <2>2. Scheduled(Dead(row[e], now)) /\ Leased(row[e], w).status = "DELIVERING"
    BY <1>1, <2>1, DeadRow, LeasedRow, Zenon DEF Scheduled, Ended
  <2>3. CASE DeadLetter(e, c)
    BY <1>1, <2>1, <2>2, <2>3, OneRowStep, Zenon DEF DeadLetter
  <2>4. CASE LeaseEvent(w, e, c)
    BY <1>1, <2>1, <2>2, <2>4, OneRowStep, Zenon DEF LeaseEvent
  <2> QED
    BY <1>4, <2>3, <2>4, Zenon
<1>5. ASSUME NEW w \in Workers, NEW c \in Times, NEW s, ~In(w, "idle"),
             SettleWebhook(ClaimOf(w), s, c)
      PROVE  \A d \in Events : RowStep(d)
  <2> DEFINE e == runner[w].event
  <2>1. /\ Accepts(s) /\ row[e].status = "DELIVERING"
        /\ row' = [row EXCEPT ![e] = SettledRow(row[e], c, s)]
    BY <1>5, Zenon DEF SettleWebhook, ClaimOf, Holds
  <2>2. e \in Events
    BY <1>1, <1>5, RunnerFields, Zenon DEF In
  <2> HIDE DEF e
  <2>3. Scheduled(SettledRow(row[e], c, s))
    BY <1>1, <2>1, <2>2, SettledRowFields, Zenon
  <2> QED
    BY <1>1, <2>1, <2>2, <2>3, OneRowStep, Zenon
<1>6. ASSUME NEW w \in Workers, NEW c \in Times, Sweep(w, c)
      PROVE  \A d \in Events : RowStep(d)
  <2> DEFINE q == [NoRow EXCEPT !.status = "SWEPT"]
  <2>1. PICK S \in SUBSET Events :
            /\ \A e \in S : row[e].status \in Ended
            /\ row' = [e \in Events |-> IF e \in S THEN q ELSE row[e]]
    BY <1>6, Zenon DEF Sweep, SweepTerminal, Swept, PastRetention
  <2>2. q.status = "SWEPT"
    BY Zenon DEF NoRow
  <2> HIDE DEF q
  <2> QED
    BY <2>1, <2>2, Zenon DEF RowStep
<1>7. ASSUME NEW w \in Workers, Work(w)
      PROVE  \/ UNCHANGED row
             \/ \E c \in Times : \E s : ~In(w, "idle") /\ SettleWebhook(ClaimOf(w), s, c)
  <2>1. ASSUME NEW c \in Times, Settle(w, c)
        PROVE  ~In(w, "idle") /\ SettleWebhook(ClaimOf(w), runner[w].settlement, c)
    BY <2>1, Zenon DEF Settle, In
  <2>2. ASSUME NEW c \in Times, PreflightFails(w, c)
        PROVE  ~In(w, "idle") /\ \E s : SettleWebhook(ClaimOf(w), s, c)
    BY <2>2, Zenon DEF PreflightFails, In
  <2>3. UNCHANGED row \/ \E c \in Times : Settle(w, c) \/ PreflightFails(w, c)
    BY <1>7, Zenon DEF Work, Send, Answer, RequestFails, GiveUp, SettleStale, outboxVars
  <2> QED
    BY <2>1, <2>2, <2>3, Zenon
<1>8. ASSUME NEW w \in Workers, Poll(w)
      PROVE  \E e \in Events, c \in Times : DeadLetter(e, c) \/ LeaseEvent(w, e, c)
  BY <1>8, Zenon DEF Poll, ClaimNextWebhook, ClaimDeadLetter
<1>9. CASE Tick \/ (\E w \in Workers : Accept(w) \/ Crash(w)) \/ UNCHANGED vars
  BY <1>2, <1>9, Zenon DEF Tick, Accept, Crash, outboxVars, vars
<1>10. CASE Environment
  BY <1>2, <1>3, <1>10, Zenon DEF Environment, SetUsable
<1> QED
  BY <1>2, <1>4, <1>5, <1>6, <1>7, <1>8, <1>9, <1>10, Zenon DEF Next

(* "The next attempt never exceeds event expiry": an event waits only for a   *)
(* time before its expiry (insertTerminalWebhookEvent, SettleWebhook).        *)
THEOREM ScheduleCorrect == Spec => []ScheduledBeforeExpiry
<1>1. Init => ScheduledBeforeExpiry
  <2>1. NoRow.status = "NONE"
    BY Zenon DEF NoRow
  <2> QED
    BY <2>1, Zenon DEF Init, OutboxInit, ScheduledBeforeExpiry
<1>2. Inv /\ ScheduledBeforeExpiry /\ [Next]_vars => ScheduledBeforeExpiry'
  BY StepRows, Zenon DEF RowStep, Scheduled, Ended, ScheduledBeforeExpiry
<1> QED
  BY <1>1, <1>2, Invariance, PTL DEF Spec

(* No claim or settlement touches an event that is over.                      *)
THEOREM EndedCorrect == Spec => EndedIsFinal
<1>1. Inv /\ [Next]_vars =>
          [\A e \in Events : row[e].status \in Ended /\ row'[e] # row[e] =>
              row'[e].status = "SWEPT"]_vars
  BY StepRows, Zenon DEF RowStep, Ended
<1> QED
  BY <1>1, Invariance, PTL DEF Spec, EndedIsFinal

=============================================================================
