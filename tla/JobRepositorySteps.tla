--------------------------- MODULE JobRepositorySteps ---------------------------
(***************************************************************************)
(* The steps of JobRepository, for any number of tenants, jobs, workers    *)
(* and attempts, any policies and any clock lag: every step keeps the rows *)
(* typed and each job row consistent (RowStep), and has one of a few       *)
(* shapes (StepShape).  JobRepositoryProofs argues from the shapes.        *)
(***************************************************************************)
EXTENDS JobRepository, TLAPS

Entry == [reserved : Nat, consumed : Nat]
LedgerType == [Tenants -> [Days -> Entry]]
AttemptType == [Jobs -> [AttemptNos -> AttemptRow]]

-----------------------------------------------------------------------------
(* Functions of functions. *)

(* Changing one entry of a table keeps the table's type. *)
LEMMA TableUpdate ==
    ASSUME NEW A, NEW B, NEW R, NEW f \in [A -> [B -> R]], NEW a \in A, NEW b \in B, NEW r \in R
    PROVE  [f EXCEPT ![a][b] = r] \in [A -> [B -> R]]
BY Zenon

(* Changing one entry of a table changes that entry and no other. *)
LEMMA TableValue ==
    ASSUME NEW A, NEW B, NEW R, NEW f \in [A -> [B -> R]], NEW a \in A, NEW b \in B, NEW r
    PROVE  \A x \in A, y \in B :
              [f EXCEPT ![a][b] = r][x][y] = IF x = a /\ y = b THEN r ELSE f[x][y]
BY Zenon

-----------------------------------------------------------------------------
(* The calendar. *)

(* A clock value falls on one of the accounting days. *)
LEMMA DayType == \A c \in Times : c \in Nat /\ Day(c) \in Days /\ Day(c) \in Nat
BY ClockAssumption DEF Day, Days, Times

(* Midnights are clock values. *)
LEMMA MidnightType == \A d \in Nat : Midnight(d) \in Nat
BY ClockAssumption DEF Midnight

-----------------------------------------------------------------------------
(* The types of what the transactions read and write. *)

(* Under TypeOK, the rows of one job, one attempt and one ledger day. *)
LEMMA RowTypes ==
    ASSUME TypeOK
    PROVE  /\ \A j \in Jobs : job[j] \in JobRow /\ TenantOf[j] \in Tenants
           /\ \A j \in Jobs, n \in AttemptNos :
                 /\ attempt[j][n] \in AttemptRow
                 /\ attempt[j][n].day \in Days
                 /\ attempt[j][n].reserved \in Nat
           /\ \A t \in Tenants, d \in Days :
                 /\ ledger[t][d] \in Entry
                 /\ ledger[t][d].reserved \in Nat
                 /\ ledger[t][d].consumed \in Nat
           /\ \A t \in Tenants : tenant[t] \in TenantRow /\ tenant[t].policy \in Policies
BY JobsAssumption DEF TypeOK, AttemptRow, Entry, TenantRow

(* What a settlement charges is a natural number no larger than the reservation. *)
LEMMA CappedType ==
    ASSUME NEW time \in Nat \cup {NoCases}, NEW reserved \in Nat
    PROVE  /\ CappedCaseMillis(time, reserved) \in Nat
           /\ CappedCaseMillis(time, reserved) <= reserved
BY DEF CappedCaseMillis, NoCases

(* The charge of a completion is within the reservation. *)
LEMMA CompletionChargeType ==
    ASSUME TypeOK, NEW cl \in Claims, NEW res \in Results
    PROVE  /\ CompletionCharge(cl, res) \in Nat
           /\ CompletionCharge(cl, res) <= attempt[cl.job][cl.attempt].reserved
<1> DEFINE r == attempt[cl.job][cl.attempt].reserved
<1>1. r \in Nat
  BY RowTypes, Zenon DEF Claims
<1>2. res.time \in Nat \cup {NoCases}
  BY PolicyAssumption, Zenon
<1>3. CompletionCharge(cl, res) = r \/ CompletionCharge(cl, res) = CappedCaseMillis(res.time, r)
  BY Zenon DEF CompletionCharge
<1>4. CappedCaseMillis(res.time, r) \in Nat /\ CappedCaseMillis(res.time, r) <= r
  BY Zenon, <1>1, <1>2, CappedType
<1> QED
  BY <1>1, <1>3, <1>4

(* The charge of a failure is within the reservation. *)
LEMMA FailureChargeType ==
    ASSUME TypeOK, NEW cl \in Claims, NEW failure \in Failures
    PROVE  /\ FailureCharge(cl, failure) \in Nat
           /\ FailureCharge(cl, failure) <= attempt[cl.job][cl.attempt].reserved
<1>1. attempt[cl.job][cl.attempt].reserved \in Nat
  BY RowTypes, Zenon DEF Claims
<1> QED
  BY <1>1 DEF FailureCharge

(* Settling a reservation keeps the ledger's columns non-negative. *)
LEMMA ReleaseType ==
    ASSUME TypeOK, NEW j \in Jobs, NEW n \in AttemptNos, Releasable(j, n), NEW used \in Nat
    PROVE  Release(j, n, used) \in LedgerType
<1> DEFINE t == TenantOf[j]
           d == attempt[j][n].day
           held == attempt[j][n].reserved
           booked == ledger[t][d].reserved
           spent == ledger[t][d].consumed
           e == [reserved |-> booked - held, consumed |-> spent + used]
<1>1. t \in Tenants /\ d \in Days /\ held \in Nat
  BY RowTypes, Zenon
<1>2. booked \in Nat /\ spent \in Nat
  BY <1>1, RowTypes, Zenon
<1>3. booked >= held
  BY Zenon DEF Releasable
<1>4. Release(j, n, used) = [ledger EXCEPT ![t][d] = e]
  BY Zenon DEF Release
<1>5. ledger \in [Tenants -> [Days -> Entry]]
  BY Zenon DEF TypeOK, Entry
<1> HIDE DEF t, d, held, booked, spent
<1>6. e \in Entry
  BY <1>1, <1>2, <1>3 DEF Entry
<1> HIDE DEF e
<1> QED
  BY <1>1, <1>4, <1>5, <1>6, TableUpdate DEF LedgerType

(* Reserving keeps the type of the ledger. *)
LEMMA ReserveType ==
    ASSUME NEW book \in LedgerType, NEW j \in Jobs, NEW d \in Days
    PROVE  Reserve(book, j, d) \in LedgerType
<1> DEFINE t == TenantOf[j]
           e == [book[t][d] EXCEPT !.reserved = @ + Cost[j]]
<1>1. t \in Tenants /\ Cost[j] \in Nat
  BY JobsAssumption, Zenon
<1>2. book[t][d] \in Entry
  BY <1>1, Zenon DEF LedgerType
<1>3. e \in Entry
  BY <1>1, <1>2 DEF Entry
<1>4. Reserve(book, j, d) = [book EXCEPT ![t][d] = e]
  BY Zenon DEF Reserve
<1> QED
  BY <1>1, <1>3, <1>4, TableUpdate DEF LedgerType

(* Waking deferred jobs keeps the type of the job rows. *)
LEMMA WakeType ==
    ASSUME NEW rows \in [Jobs -> JobRow], NEW j \in Jobs, NEW n \in AttemptNos, NEW c \in Nat
    PROVE  Wake(rows, j, n, c) \in [Jobs -> JobRow]
<1> SUFFICES ASSUME NEW k \in Jobs
             PROVE  [rows[k] EXCEPT !.nextAt = c] \in JobRow
  BY Zenon DEF Wake
<1> QED
  BY Zenon DEF JobRow

(* Finishing an attempt keeps the type of the attempt rows. *)
LEMMA FinishType ==
    ASSUME TypeOK, NEW j \in Jobs, NEW n \in AttemptNos, NEW used \in Nat,
           NEW status \in AttemptStatus
    PROVE  FinishAttempt(j, n, status, used) \in AttemptType
<1> DEFINE r == [attempt[j][n] EXCEPT !.status = status, !.reserved = 0, !.consumed = used]
<1>1. attempt \in AttemptType
  BY Zenon DEF TypeOK, AttemptType
<1>2. r \in AttemptRow
  BY Zenon, RowTypes DEF AttemptRow
<1>3. FinishAttempt(j, n, status, used) = [attempt EXCEPT ![j][n] = r]
  BY Zenon DEF FinishAttempt
<1> QED
  BY <1>1, <1>2, <1>3, TableUpdate DEF AttemptType

(* A settled row is a job row. *)
LEMMA SettledType ==
    ASSUME NEW row \in JobRow, NEW status \in JobStatus, NEW res \in Results \cup {NoResult},
           NEW code \in FailureCodes
    PROVE  Settled(row, status, res, code) \in JobRow
BY Zenon DEF Settled, JobRow

(* The outbox keeps its type when a terminal row's event is inserted. *)
LEMMA EventType ==
    ASSUME TypeOK, NEW j \in Jobs, NEW row \in JobRow, row.status \in Terminal,
           InsertTerminalEvent(j, row)
    PROVE  outbox' \in [Jobs -> Event]
BY DEF TypeOK, InsertTerminalEvent, JobRow, Event

(* The initial rows have their types. *)
LEMMA InitTypeOK == Init => TypeOK
<1> SUFFICES ASSUME Init PROVE TypeOK
  BY Zenon
<1>1. 0 \in Times /\ 0 \in Days
  BY DayType, ClockAssumption DEF Times, Days, Day
<1> QED
  BY <1>1 DEF Init, TypeOK, TenantRow, JobRow, AttemptRow, Event, NoJob, NoAttempt, NoEvent,
              NoResult, JobStatus, AttemptStatus, FailureCodes, NoFailure, NoLease, Never, Terminal

-----------------------------------------------------------------------------
(* The invariant of a single job row. *)

(* A row is leased exactly while RUNNING, a cancelled row is not queued, and  *)
(* result and failure code belong to the terminal status they describe.       *)
RowOK(row) ==
    /\ row.leaseUntil # NoLease <=> row.status = "RUNNING"
    /\ row.worker # NoWorker <=> row.status = "RUNNING"
    /\ row.status = "RUNNING" => row.attempt \in AttemptNos
    /\ row.status = "NONE" => row.attempt = 0
    /\ row.status \in {"NONE", "QUEUED"} => ~row.cancel
    /\ row.status # "SUCCEEDED" => row.result = NoResult
    /\ row.status # "FAILED" => row.failure = NoFailure
    /\ row.status = "SUCCEEDED" => ~row.cancel
    /\ row.status = "FAILED" /\ row.cancel => row.failure = "TENANT_DISABLED"

RowInv == TypeOK /\ \A j \in Jobs : RowOK(job[j])

GoodRows == {row \in JobRow : RowOK(row)}

(* RowInv says that every row is a good one. *)
LEMMA RowInvRows == RowInv <=> TypeOK /\ job \in [Jobs -> GoodRows]
BY Zenon DEF RowInv, GoodRows, TypeOK

(* Waking a job keeps its row good. *)
LEMMA WakeGood ==
    ASSUME NEW rows \in [Jobs -> GoodRows], NEW j \in Jobs, NEW n \in AttemptNos, NEW c \in Nat
    PROVE  Wake(rows, j, n, c) \in [Jobs -> GoodRows]
<1> SUFFICES ASSUME NEW k \in Jobs
             PROVE  [rows[k] EXCEPT !.nextAt = c] \in GoodRows
  BY Zenon DEF Wake
<1>1. rows[k] \in GoodRows
  BY Zenon
<1> QED
  BY <1>1, Zenon DEF GoodRows, JobRow, RowOK

(* A row that leaves RUNNING without a result, because it failed, was         *)
(* cancelled or went back to the queue.                                       *)
LEMMA SettledGood ==
    ASSUME NEW row \in GoodRows, row.status = "RUNNING", NEW code \in FailureCodes,
           NEW status \in {"QUEUED", "FAILED", "CANCELLED"},
           status # "FAILED" => code = NoFailure,
           status = "QUEUED" => ~row.cancel,
           status = "FAILED" /\ row.cancel => code = "TENANT_DISABLED"
    PROVE  /\ Settled(row, status, row.result, code) \in GoodRows
           /\ Settled(row, status, NoResult, code) \in GoodRows
           /\ \A at \in Nat :
                 [Settled(row, status, row.result, code) EXCEPT !.nextAt = at] \in GoodRows
BY Zenon DEF GoodRows, JobRow, RowOK, Settled, JobStatus, Terminal, NoLease

(* The row of a claim. *)
LEMMA ClaimedGood ==
    ASSUME RowInv, NEW j \in Jobs, NEW c \in Times, NEW w \in Workers,
           job[j].status \in {"QUEUED", "RUNNING"}, job[j].attempt < MaxAttemptNo
    PROVE  ClaimedRow(j, c, w) \in GoodRows /\ job[j].attempt + 1 \in AttemptNos
<1>1. job[j] \in JobRow /\ RowOK(job[j])
  BY Zenon DEF RowInv, TypeOK
<1>2. c + LeaseDuration \in Nat
  BY ClockAssumption DEF Times
<1>3. job[j].attempt + 1 \in AttemptNos
  BY <1>1, ClockAssumption DEF JobRow, AttemptNos
<1>4. c + LeaseDuration # NoLease
  BY <1>2 DEF NoLease
<1>5. w # NoWorker
  BY JobsAssumption, Zenon
<1>6. ClaimedRow(j, c, w) \in JobRow
  BY Zenon, <1>1, <1>2, <1>3 DEF ClaimedRow, JobRow, JobStatus, FailureCodes
<1>7. RowOK(ClaimedRow(j, c, w))
  BY <1>1, <1>3, <1>4, <1>5, Zenon DEF ClaimedRow, RowOK, JobRow
<1> QED
  BY <1>3, <1>6, <1>7, Zenon DEF GoodRows

-----------------------------------------------------------------------------
(* Every action preserves RowInv. *)

(* What a claim transaction knows of the expired job it recovers. *)
LEMMA ExpiredFacts ==
    ASSUME RowInv, NEW j \in Jobs, NEW c \in Times, ExpireAttempt(j, c)
    PROVE  /\ job[j] \in GoodRows /\ job[j].status = "RUNNING"
           /\ job[j].attempt \in AttemptNos
           /\ Releasable(j, job[j].attempt)
           /\ job \in [Jobs -> GoodRows]
BY RowInvRows, Zenon DEF RowInv, ExpireAttempt, Expired, RowOK

(* The fairness cursor keeps the tenant rows typed. *)
LEMMA FairnessType ==
    ASSUME TypeOK, NEW j \in Jobs, NEW c \in Times, AdvanceFairness(j, c)
    PROVE  tenant' \in [Tenants -> TenantRow]
BY Zenon, JobsAssumption DEF TypeOK, AdvanceFairness, TenantRow

(* Recovering an expired job into a terminal row. *)
LEMMA RecoverAsRows ==
    ASSUME RowInv, NEW j \in Jobs, NEW c \in Times, NEW code \in FailureCodes,
           NEW status \in {"FAILED", "CANCELLED"}, NEW result \in {NoResult, job[j].result},
           status # "FAILED" => code = NoFailure,
           status = "FAILED" /\ job[j].cancel => code = "TENANT_DISABLED",
           RecoverAs(j, c, status, result, code),
           tenant' \in [Tenants -> TenantRow]
    PROVE  RowInv'
<1> DEFINE n == job[j].attempt
           row == Settled(job[j], status, result, code)
<1>1. /\ job[j] \in GoodRows /\ job[j].status = "RUNNING" /\ n \in AttemptNos
      /\ Releasable(j, n) /\ job \in [Jobs -> GoodRows]
  BY ExpiredFacts, Zenon DEF RecoverAs
<1>2. row \in GoodRows /\ row.status = status /\ row \in JobRow
  <2>1. row \in GoodRows
    BY <1>1, SettledGood, Zenon
  <2> QED
    BY <1>1, <2>1, Zenon DEF Settled, GoodRows, JobRow
<1>3. c \in Nat
  BY DayType, Zenon
<1>4. job' \in [Jobs -> GoodRows]
  <2>1. Wake(job, j, n, c) \in [Jobs -> GoodRows]
    BY <1>1, <1>3, WakeGood, Zenon
  <2> QED
    BY <1>2, <2>1, Zenon DEF RecoverAs
<1>5. ledger' \in LedgerType
  BY <1>1, ReleaseType, Zenon DEF RecoverAs, RowInv
<1>6. attempt' \in AttemptType
  BY <1>1, FinishType, Zenon DEF RecoverAs, RowInv, AttemptStatus
<1>7. outbox' \in [Jobs -> Event]
  <2>1. InsertTerminalEvent(j, row)
    BY Zenon DEF RecoverAs
  <2>2. row.status \in Terminal
    BY <1>2, Zenon DEF Terminal
  <2> HIDE DEF row
  <2> QED
    BY <1>2, <2>1, <2>2, EventType, Zenon DEF RowInv
<1>8. now' \in Times
  BY Zenon DEF RecoverAs, RowInv, TypeOK
<1> HIDE DEF n, row
<1>9. TypeOK'
  BY <1>4, <1>5, <1>6, <1>7, <1>8, Zenon DEF TypeOK, LedgerType, AttemptType, Entry, GoodRows
<1> QED
  BY <1>4, <1>9, Zenon DEF RowInv, GoodRows

(* Settling a live claim with a good row. *)
LEMMA SettleClaimRows ==
    ASSUME RowInv, NEW cl \in Claims, NEW c \in Times, NEW row \in GoodRows,
           NEW status \in AttemptStatus, NEW used \in Nat,
           SettleClaim(cl, c, row, status, used),
           outbox' \in [Jobs -> Event]
    PROVE  RowInv'
<1>1. cl.job \in Jobs /\ cl.attempt \in AttemptNos
  BY Zenon DEF Claims
<1>2. c \in Nat
  BY DayType, Zenon
<1>3. job' \in [Jobs -> GoodRows]
  <2>1. [job EXCEPT ![cl.job] = row] \in [Jobs -> GoodRows]
    BY <1>1, RowInvRows, Zenon
  <2> QED
    BY Zenon, <1>1, <1>2, <2>1, WakeGood DEF SettleClaim
<1>4. ledger' \in LedgerType
  BY <1>1, ReleaseType, Zenon DEF SettleClaim, RowInv
<1>5. attempt' \in AttemptType
  BY <1>1, FinishType, Zenon DEF SettleClaim, RowInv
<1>6. now' \in Times /\ tenant' \in [Tenants -> TenantRow]
  BY Zenon DEF SettleClaim, RowInv, TypeOK
<1>7. TypeOK'
  BY <1>3, <1>4, <1>5, <1>6, Zenon DEF TypeOK, LedgerType, AttemptType, Entry, GoodRows
<1> QED
  BY <1>3, <1>7, Zenon DEF RowInv, GoodRows

(* What the holder of a live claim knows of its job. *)
LEMMA ClaimFacts ==
    ASSUME RowInv, NEW cl \in Claims, OwnsJob(cl)
    PROVE  /\ cl.job \in Jobs /\ cl.attempt \in AttemptNos
           /\ job[cl.job] \in GoodRows /\ job[cl.job].status = "RUNNING"
           /\ job[cl.job].attempt = cl.attempt
BY RowInvRows, Zenon DEF Claims, OwnsJob

(* A step that writes one good job row, perhaps an event and the cursor. *)
LEMMA OneRow ==
    ASSUME RowInv, NEW j \in Jobs, NEW row \in GoodRows,
           job' = [job EXCEPT ![j] = row],
           tenant' \in [Tenants -> TenantRow], outbox' \in [Jobs -> Event],
           UNCHANGED <<now, attempt, ledger>>
    PROVE  RowInv'
BY Zenon DEF RowInv, TypeOK, GoodRows

(* Every transaction keeps each row typed and each job row coherent: lease,   *)
(* status, cancellation and outcome agree after it if they agreed before.     *)
LEMMA RowStep == RowInv /\ [Next]_vars => RowInv'
<1> SUFFICES ASSUME RowInv, [Next]_vars PROVE RowInv'
  BY Zenon
<1> USE DEF RowInv
<1>0. TypeOK /\ job \in [Jobs -> GoodRows]
  BY RowInvRows, Zenon
<1>t. tenant \in [Tenants -> TenantRow] /\ outbox \in [Jobs -> Event]
  BY Zenon DEF TypeOK
<1>1. CASE Tick
  BY <1>1, ClockAssumption DEF Tick, TypeOK, Times
<1>2. ASSUME NEW t \in Tenants, NEW s \in OperatorStatus, SetStatus(t, s) PROVE RowInv'
  BY Zenon, <1>2, PolicyAssumption DEF SetStatus, TypeOK, TenantRow
<1>3. ASSUME NEW t \in Tenants, NEW p \in Policies, SetPolicy(t, p) PROVE RowInv'
  BY Zenon, <1>3 DEF SetPolicy, TypeOK, TenantRow
<1>4. ASSUME NEW j \in Jobs, Submit(j) PROVE RowInv'
  <2> DEFINE row == [NoJob EXCEPT !.status = "QUEUED", !.nextAt = now]
  <2>1. row \in GoodRows
    BY Zenon, DayType DEF TypeOK, NoJob, GoodRows, JobRow, RowOK, JobStatus, FailureCodes, NoLease, Terminal
  <2>2. job' = [job EXCEPT ![j] = row] /\ UNCHANGED <<now, tenant, attempt, ledger, outbox>>
    BY <1>4, Zenon DEF Submit
  <2> QED
    BY Zenon, <1>t, <2>1, <2>2, OneRow
<1>5. ASSUME NEW j \in Jobs, CancelQueued(j) PROVE RowInv'
  <2> DEFINE row == [job[j] EXCEPT !.status = "CANCELLED", !.cancel = TRUE,
                                   !.worker = NoWorker, !.leaseUntil = NoLease]
  <2>1. row \in GoodRows /\ row \in JobRow /\ row.status \in Terminal
    BY Zenon, <1>0, <1>5 DEF CancelQueued, GoodRows, JobRow, RowOK, JobStatus, NoLease, Terminal
  <2>2. job' = [job EXCEPT ![j] = row] /\ UNCHANGED <<now, tenant, attempt, ledger>>
    BY <1>5, Zenon DEF CancelQueued
  <2>3. InsertTerminalEvent(j, row)
    BY <1>5, Zenon DEF CancelQueued
  <2> HIDE DEF row
  <2>4. outbox' \in [Jobs -> Event]
    BY <1>0, <2>1, <2>3, EventType, Zenon
  <2> QED
    BY Zenon, <1>t, <2>1, <2>2, <2>4, OneRow
<1>6. ASSUME NEW j \in Jobs, CancelRunning(j) PROVE RowInv'
  <2> DEFINE row == [job[j] EXCEPT !.cancel = TRUE]
  <2>1. row \in GoodRows
    <3>1. job[j] \in JobRow /\ RowOK(job[j]) /\ job[j].status = "RUNNING"
      BY <1>0, <1>6, Zenon DEF CancelRunning, GoodRows
    <3>2. row \in JobRow
      BY Zenon, <3>1 DEF JobRow
    <3>3. /\ row.status = "RUNNING" /\ row.leaseUntil = job[j].leaseUntil
          /\ row.worker = job[j].worker /\ row.attempt = job[j].attempt
          /\ row.result = job[j].result /\ row.failure = job[j].failure
      BY <3>1, Zenon DEF JobRow
    <3>4. RowOK(row)
      BY <3>1, <3>3, Zenon DEF RowOK
    <3> QED
      BY <3>2, <3>4, Zenon DEF GoodRows
  <2>2. job' = [job EXCEPT ![j] = row] /\ UNCHANGED <<now, tenant, attempt, ledger, outbox>>
    BY <1>6, Zenon DEF CancelRunning
  <2> QED
    BY Zenon, <1>t, <2>1, <2>2, OneRow
<1>7. ASSUME NEW j \in Jobs, NEW c \in Times, RecoverDisabled(j, c) PROVE RowInv'
  BY <1>t, <1>7, RecoverAsRows, Zenon DEF RecoverDisabled, FailureCodes
<1>8. ASSUME NEW j \in Jobs, NEW c \in Times, RecoverCancelled(j, c) PROVE RowInv'
  BY <1>t, <1>8, RecoverAsRows, Zenon DEF RecoverCancelled, FailureCodes
<1>9. ASSUME NEW j \in Jobs, NEW c \in Times, RecoverExhausted(j, c) PROVE RowInv'
  BY <1>t, <1>9, RecoverAsRows, Zenon DEF RecoverExhausted, FailureCodes
<1>10. ASSUME NEW j \in Jobs, NEW c \in Times, RecoverImpossible(j, c) PROVE RowInv'
  <2>1. tenant' \in [Tenants -> TenantRow]
    BY <1>0, <1>10, FairnessType, Zenon DEF RecoverImpossible
  <2> QED
    BY <2>1, <1>10, RecoverAsRows, Zenon DEF RecoverImpossible, Retryable, FailureCodes
<1>11. ASSUME NEW j \in Jobs, NEW c \in Times, RecoverDeferred(j, c) PROVE RowInv'
  <2> DEFINE n == job[j].attempt
             row == [job[j] EXCEPT !.status = "QUEUED", !.worker = NoWorker,
                                   !.leaseUntil = NoLease, !.nextAt = Midnight(Day(c) + 1)]
  <2>1. /\ job[j] \in GoodRows /\ job[j].status = "RUNNING" /\ n \in AttemptNos
        /\ Releasable(j, n)
    BY <1>11, ExpiredFacts, Zenon DEF RecoverDeferred
  <2>2. Midnight(Day(c) + 1) \in Nat /\ c \in Nat
    BY DayType, MidnightType
  <2>3. row \in GoodRows
    <3>1. ~job[j].cancel
      BY <1>11, Zenon DEF RecoverDeferred, Retryable
    <3> QED
      BY Zenon, <2>1, <2>2, <3>1 DEF GoodRows, JobRow, RowOK, JobStatus, NoLease
  <2>4. job' \in [Jobs -> GoodRows]
    <3>1. Wake(job, j, n, c) \in [Jobs -> GoodRows]
      BY <1>0, <2>1, <2>2, WakeGood, Zenon
    <3> QED
      BY <2>3, <3>1, <1>11, Zenon DEF RecoverDeferred
  <2>5. ledger' \in LedgerType /\ attempt' \in AttemptType
    BY <1>0, <1>11, <2>1, ReleaseType, FinishType, Zenon DEF RecoverDeferred, AttemptStatus
  <2>6. tenant' \in [Tenants -> TenantRow] /\ UNCHANGED <<now, outbox>>
    BY <1>0, <1>11, FairnessType, Zenon DEF RecoverDeferred
  <2> QED
    BY <2>4, <2>5, <2>6, Zenon DEF TypeOK, LedgerType, AttemptType, Entry, GoodRows
<1>12. ASSUME NEW j \in Jobs, NEW c \in Times, FailImpossible(j, c) PROVE RowInv'
  <2> DEFINE row == Settled(job[j], "FAILED", job[j].result, "DAILY_EXECUTION_LIMIT_TOO_LOW")
  <2>1. row \in GoodRows /\ row \in JobRow /\ row.status \in Terminal
    BY Zenon, <1>0, <1>12 DEF FailImpossible, PickQueued, Due, Settled, GoodRows, JobRow, RowOK,
                       JobStatus, NoLease, Terminal, FailureCodes
  <2>2. job' = [job EXCEPT ![j] = row] /\ UNCHANGED <<now, attempt, ledger>>
    BY <1>12, Zenon DEF FailImpossible
  <2>3. InsertTerminalEvent(j, row) /\ tenant' \in [Tenants -> TenantRow]
    BY <1>0, <1>12, FairnessType, Zenon DEF FailImpossible
  <2> HIDE DEF row
  <2>4. outbox' \in [Jobs -> Event]
    BY <1>0, <2>1, <2>3, EventType, Zenon
  <2> QED
    BY Zenon, <2>1, <2>2, <2>3, <2>4, OneRow
<1>13. ASSUME NEW j \in Jobs, NEW c \in Times, DeferQueued(j, c) PROVE RowInv'
  <2> DEFINE row == [job[j] EXCEPT !.nextAt = Midnight(Day(c) + 1)]
  <2>1. row \in GoodRows
    BY <1>0, DayType, MidnightType DEF GoodRows, JobRow, RowOK
  <2>2. job' = [job EXCEPT ![j] = row] /\ UNCHANGED <<now, attempt, ledger, outbox>>
    BY <1>13, Zenon DEF DeferQueued
  <2>3. tenant' \in [Tenants -> TenantRow]
    BY <1>0, <1>13, FairnessType, Zenon DEF DeferQueued
  <2> QED
    BY Zenon, <1>t, <2>1, <2>2, <2>3, OneRow
<1>14. ASSUME NEW j \in Jobs, NEW c \in Times, NEW w \in Workers, TakeOver(j, c, w) PROVE RowInv'
  <2> DEFINE n == job[j].attempt
             row == ClaimedRow(j, c, w)
             new == ClaimedAttempt(j, c, w)
  <2>1. /\ job[j] \in GoodRows /\ job[j].status = "RUNNING" /\ n \in AttemptNos
        /\ Releasable(j, n)
    BY <1>14, ExpiredFacts, Zenon DEF TakeOver
  <2>2. c \in Nat /\ Day(c) \in Days
    BY DayType, Zenon
  <2>3. row \in GoodRows /\ n + 1 \in AttemptNos
    BY <1>14, <2>1, ClaimedGood, Zenon DEF TakeOver
  <2>4. job' \in [Jobs -> GoodRows]
    <3>1. Wake(job, j, n, c) \in [Jobs -> GoodRows]
      BY <1>0, <2>1, <2>2, WakeGood, Zenon
    <3> QED
      BY <2>3, <3>1, <1>14, Zenon DEF TakeOver
  <2>5. ledger' \in LedgerType
    BY <1>0, <1>14, <2>1, <2>2, ReleaseType, ReserveType, Zenon DEF TakeOver
  <2>6. attempt' \in AttemptType
    <3>1. new \in AttemptRow
      BY <2>2, JobsAssumption, Zenon DEF ClaimedAttempt, AttemptRow, AttemptStatus
    <3>2. FinishAttempt(j, n, "EXPIRED", 0) \in AttemptType
      BY <1>0, <2>1, FinishType, Zenon DEF AttemptStatus
    <3>3. attempt' = [FinishAttempt(j, n, "EXPIRED", 0) EXCEPT ![j][n + 1] = new]
      BY <1>14, Zenon DEF TakeOver
    <3> HIDE DEF new, n
    <3> QED
      BY <2>3, <3>1, <3>2, <3>3, TableUpdate, Zenon DEF AttemptType
  <2>7. tenant' \in [Tenants -> TenantRow] /\ UNCHANGED <<now, outbox>>
    BY <1>0, <1>14, FairnessType, Zenon DEF TakeOver
  <2> QED
    BY <2>4, <2>5, <2>6, <2>7, Zenon DEF TypeOK, LedgerType, AttemptType, Entry, GoodRows
<1>15. ASSUME NEW j \in Jobs, NEW c \in Times, NEW w \in Workers, ClaimQueued(j, c, w) PROVE RowInv'
  <2> DEFINE n == job[j].attempt
             row == ClaimedRow(j, c, w)
             new == ClaimedAttempt(j, c, w)
  <2>1. Day(c) \in Days
    BY DayType, Zenon
  <2>2. row \in GoodRows /\ n + 1 \in AttemptNos
    BY <1>15, ClaimedGood, Zenon DEF ClaimQueued, PickQueued, Due
  <2>3. job' \in [Jobs -> GoodRows]
    BY <1>0, <1>15, <2>2, Zenon DEF ClaimQueued
  <2>4. ledger' \in LedgerType
    BY <1>15, <2>1, ReserveType, Zenon DEF ClaimQueued, TypeOK, LedgerType, Entry
  <2>5. attempt' \in AttemptType
    <3>1. new \in AttemptRow
      BY <2>1, JobsAssumption, Zenon DEF ClaimedAttempt, AttemptRow, AttemptStatus
    <3>2. attempt' = [attempt EXCEPT ![j][n + 1] = new] /\ attempt \in AttemptType
      BY <1>15, Zenon DEF ClaimQueued, TypeOK, AttemptType
    <3> HIDE DEF new, n
    <3> QED
      BY <2>2, <3>1, <3>2, TableUpdate, Zenon DEF AttemptType
  <2>6. tenant' \in [Tenants -> TenantRow] /\ UNCHANGED <<now, outbox>>
    BY <1>0, <1>15, FairnessType, Zenon DEF ClaimQueued
  <2> QED
    BY <2>3, <2>4, <2>5, <2>6, Zenon DEF TypeOK, LedgerType, AttemptType, Entry, GoodRows
<1>16. ASSUME NEW cl \in Claims, NEW c \in Times, Heartbeat(cl, c) PROVE RowInv'
  <2> DEFINE row == [job[cl.job] EXCEPT !.leaseUntil = c + LeaseDuration]
  <2>1. cl.job \in Jobs /\ job[cl.job] \in GoodRows /\ job[cl.job].status = "RUNNING"
    BY <1>16, ClaimFacts, Zenon DEF Heartbeat
  <2>2. c + LeaseDuration \in Nat
    BY DayType, ClockAssumption
  <2>3. row \in GoodRows
    BY <2>1, <2>2 DEF GoodRows, JobRow, RowOK, NoLease
  <2>4. job' = [job EXCEPT ![cl.job] = row] /\ UNCHANGED <<now, tenant, attempt, ledger, outbox>>
    BY <1>16, Zenon DEF Heartbeat
  <2> QED
    BY Zenon, <1>t, <2>1, <2>3, <2>4, OneRow
<1>17. ASSUME NEW cl \in Claims, NEW c \in Times, NEW res \in Results, CompleteResult(cl, res, c)
       PROVE  RowInv'
  <2> DEFINE row == Settled(job[cl.job], "SUCCEEDED", res, NoFailure)
             used == CompletionCharge(cl, res)
  <2>1. cl.job \in Jobs /\ job[cl.job] \in GoodRows /\ ~job[cl.job].cancel
    BY <1>17, ClaimFacts, Zenon DEF CompleteResult, SettleClaim, ActiveClaim
  <2>2. row \in GoodRows /\ row \in JobRow /\ row.status \in Terminal
    BY Zenon, <2>1 DEF Settled, GoodRows, JobRow, RowOK, JobStatus, NoLease, Terminal, FailureCodes
  <2>3. SettleClaim(cl, c, row, "SUCCEEDED", used) /\ InsertTerminalEvent(cl.job, row)
    BY <1>17, Zenon DEF CompleteResult
  <2>4. used \in Nat /\ "SUCCEEDED" \in AttemptStatus
    BY CompletionChargeType, Zenon DEF AttemptStatus
  <2> HIDE DEF row, used
  <2>5. outbox' \in [Jobs -> Event]
    BY <1>0, <2>1, <2>2, <2>3, EventType, Zenon
  <2> QED
    BY <2>2, <2>3, <2>4, <2>5, SettleClaimRows, Zenon
<1>18. ASSUME NEW cl \in Claims, NEW c \in Times, NEW res \in Results, CompleteCancelled(cl, res, c)
       PROVE  RowInv'
  <2> DEFINE row == Settled(job[cl.job], "CANCELLED", NoResult, NoFailure)
             used == CompletionCharge(cl, res)
  <2>1. cl.job \in Jobs /\ job[cl.job] \in GoodRows /\ job[cl.job].status = "RUNNING"
    BY <1>18, ClaimFacts, Zenon DEF CompleteCancelled, SettleClaim, ActiveClaim
  <2>2. row \in GoodRows /\ row \in JobRow /\ row.status \in Terminal
    BY Zenon, <2>1 DEF Settled, GoodRows, JobRow, RowOK, JobStatus, NoLease, Terminal, FailureCodes
  <2>3. SettleClaim(cl, c, row, "CANCELLED", used) /\ InsertTerminalEvent(cl.job, row)
    BY <1>18, Zenon DEF CompleteCancelled
  <2>4. used \in Nat /\ "CANCELLED" \in AttemptStatus
    BY CompletionChargeType, Zenon DEF AttemptStatus
  <2> HIDE DEF row, used
  <2>5. outbox' \in [Jobs -> Event]
    BY <1>0, <2>1, <2>2, <2>3, EventType, Zenon
  <2> QED
    BY <2>2, <2>3, <2>4, <2>5, SettleClaimRows, Zenon
<1>19. ASSUME NEW cl \in Claims, NEW c \in Times, NEW failure \in Failures,
              FailCancelled(cl, failure, c)
       PROVE  RowInv'
  <2> DEFINE row == [Settled(job[cl.job], "CANCELLED", job[cl.job].result, NoFailure)
                       EXCEPT !.nextAt = c]
             used == FailureCharge(cl, failure)
  <2>1. cl.job \in Jobs /\ job[cl.job] \in GoodRows /\ job[cl.job].status = "RUNNING"
    BY <1>19, ClaimFacts, Zenon DEF FailCancelled, SettleClaim, ActiveClaim
  <2>2. row \in GoodRows /\ row \in JobRow /\ row.status \in Terminal
    BY Zenon, <2>1, DayType DEF Settled, GoodRows, JobRow, RowOK, JobStatus, NoLease, Terminal, FailureCodes
  <2>3. SettleClaim(cl, c, row, "CANCELLED", used) /\ InsertTerminalEvent(cl.job, row)
    BY <1>19, Zenon DEF FailCancelled
  <2>4. used \in Nat /\ "CANCELLED" \in AttemptStatus
    BY FailureChargeType, Zenon DEF AttemptStatus
  <2> HIDE DEF row, used
  <2>5. outbox' \in [Jobs -> Event]
    BY <1>0, <2>1, <2>2, <2>3, EventType, Zenon
  <2> QED
    BY <2>2, <2>3, <2>4, <2>5, SettleClaimRows, Zenon
<1>20. ASSUME NEW cl \in Claims, NEW c \in Times, NEW failure \in Failures,
              FailRequeued(cl, failure, c)
       PROVE  RowInv'
  <2> DEFINE row == [Settled(job[cl.job], "QUEUED", job[cl.job].result, NoFailure)
                       EXCEPT !.nextAt = c + RetryDelay]
             used == FailureCharge(cl, failure)
  <2>1. /\ cl.job \in Jobs /\ job[cl.job] \in GoodRows /\ job[cl.job].status = "RUNNING"
        /\ ~job[cl.job].cancel
    BY <1>20, ClaimFacts, Zenon DEF FailRequeued, SettleClaim, ActiveClaim
  <2>2. c + RetryDelay \in Nat
    BY DayType, ClockAssumption
  <2>3. row \in GoodRows
    BY Zenon, <2>1, <2>2 DEF Settled, GoodRows, JobRow, RowOK, JobStatus, NoLease, FailureCodes
  <2>4. SettleClaim(cl, c, row, "FAILED", used) /\ UNCHANGED outbox
    BY <1>20, Zenon DEF FailRequeued
  <2>5. used \in Nat /\ "FAILED" \in AttemptStatus
    BY FailureChargeType, Zenon DEF AttemptStatus
  <2> HIDE DEF row, used
  <2> QED
    BY <1>t, <2>3, <2>4, <2>5, SettleClaimRows, Zenon
<1>21. ASSUME NEW cl \in Claims, NEW c \in Times, NEW failure \in Failures,
              FailTerminal(cl, failure, c)
       PROVE  RowInv'
  <2> DEFINE row == [Settled(job[cl.job], "FAILED", job[cl.job].result, "WORKER")
                       EXCEPT !.nextAt = c]
             used == FailureCharge(cl, failure)
  <2>1. /\ cl.job \in Jobs /\ job[cl.job] \in GoodRows /\ job[cl.job].status = "RUNNING"
        /\ ~job[cl.job].cancel
    BY <1>21, ClaimFacts, Zenon DEF FailTerminal, SettleClaim, ActiveClaim
  <2>2. row \in GoodRows /\ row \in JobRow /\ row.status \in Terminal
    BY Zenon, <2>1, DayType DEF Settled, GoodRows, JobRow, RowOK, JobStatus, NoLease, Terminal, FailureCodes
  <2>3. SettleClaim(cl, c, row, "FAILED", used) /\ InsertTerminalEvent(cl.job, row)
    BY <1>21, Zenon DEF FailTerminal
  <2>4. used \in Nat /\ "FAILED" \in AttemptStatus
    BY FailureChargeType, Zenon DEF AttemptStatus
  <2> HIDE DEF row, used
  <2>5. outbox' \in [Jobs -> Event]
    BY <1>0, <2>1, <2>2, <2>3, EventType, Zenon
  <2> QED
    BY <2>2, <2>3, <2>4, <2>5, SettleClaimRows, Zenon
<1>22. CASE UNCHANGED vars
  BY <1>22, Zenon DEF vars, TypeOK
<1> QED
  BY Zenon, <1>1, <1>2, <1>3, <1>4, <1>5, <1>6, <1>7, <1>8, <1>9, <1>10, <1>11, <1>12, <1>13, <1>14,
     <1>15, <1>16, <1>17, <1>18, <1>19, <1>20, <1>21, <1>22
     DEF Next, Cancel, Maintain, Claim, Complete, FailInfrastructure

-----------------------------------------------------------------------------
(* The shapes of the steps: a step changes nothing but the clock and tenant   *)
(* rows, or it moves one job, publishes the job's event if that ended the     *)
(* job, and opens, settles or leaves alone the job's attempt.                 *)

EventOf(row) == [status |-> row.status, result |-> row.result, failure |-> row.failure]

Quiet == UNCHANGED <<job, attempt, ledger, outbox>>

(* The rows a and b differ at most in next_attempt_at. *)
Same(a, b) == b = [a EXCEPT !.nextAt = b.nextAt]

(* The other jobs are at most woken. *)
Beside(j) ==
    \A k \in Jobs \ {j} :
        /\ Same(job[k], job'[k])
        /\ job[k].status # "QUEUED" => job'[k] = job[k]

Publishes(j) ==
    outbox' = IF job'[j].status \in Terminal /\ j \in HasCallback
              THEN [outbox EXCEPT ![j] = EventOf(job'[j])]
              ELSE outbox

Moves(a, b) ==
    \/ a.status = "NONE" /\ b.status = "QUEUED"
    \/ a.status = "QUEUED" /\ b.status \in {"QUEUED", "RUNNING"} /\ ~b.cancel
    \/ a.status = "QUEUED" /\ b.status = "CANCELLED" /\ b.cancel
    \/ a.status \in {"QUEUED", "RUNNING"} /\ b.status = "FAILED" /\ b.cancel = a.cancel
          /\ b.failure # NoFailure
    \/ a.status = "RUNNING" /\ b.status = "QUEUED" /\ ~a.cancel
    \/ a.status = "RUNNING" /\ b.status = "RUNNING" /\ (b.cancel = a.cancel \/ b.cancel = TRUE)
    \/ a.status = "RUNNING" /\ b.status = "SUCCEEDED" /\ ~a.cancel /\ b.result \in Results
    \/ a.status = "RUNNING" /\ b.status = "CANCELLED" /\ a.cancel /\ b.cancel

RowOnly(j) ==
    /\ UNCHANGED <<attempt, ledger>>
    /\ job'[j].attempt = job[j].attempt
    /\ job'[j].worker = job[j].worker
    /\ job[j].status = "RUNNING" <=> job'[j].status = "RUNNING"

SettlesAttempt(j) ==
    LET n == job[j].attempt
    IN  /\ job[j].status = "RUNNING"
        /\ job'[j].status # "RUNNING"
        /\ job'[j].attempt = n
        /\ Releasable(j, n)
        /\ \E status \in AttemptStatus \ {"NONE", "RUNNING"}, used \in 0 .. attempt[j][n].reserved :
              /\ attempt' = FinishAttempt(j, n, status, used)
              /\ ledger' = Release(j, n, used)
              /\ status = "EXPIRED" => job[j].leaseUntil <= now
              /\ job'[j].status = "SUCCEEDED" =>
                    status = "SUCCEEDED" /\ job[j].leaseUntil > now /\ ~job[j].cancel

Opens(j, n, w) ==
    /\ n + 1 \in AttemptNos
    /\ job'[j].status = "RUNNING"
    /\ job'[j].attempt = n + 1
    /\ job'[j].worker = w
    /\ ~ReservationImpossible(j)

ClaimsAttempt(j) ==
    LET n == job[j].attempt
    IN  /\ job[j].status = "QUEUED"
        /\ \E c \in Times, w \in Workers :
              /\ Opens(j, n, w)
              /\ ReservationFits(ledger, j, Day(c))
              /\ ledger' = Reserve(ledger, j, Day(c))
              /\ attempt' = [attempt EXCEPT ![j][n + 1] = ClaimedAttempt(j, c, w)]

TakesOver(j) ==
    LET n == job[j].attempt
    IN  /\ job[j].status = "RUNNING"
        /\ job[j].leaseUntil <= now
        /\ Releasable(j, n)
        /\ \E c \in Times, w \in Workers :
              /\ Opens(j, n, w)
              /\ ReservationFits(Release(j, n, 0), j, Day(c))
              /\ ledger' = Reserve(Release(j, n, 0), j, Day(c))
              /\ attempt' = [FinishAttempt(j, n, "EXPIRED", 0)
                                EXCEPT ![j][n + 1] = ClaimedAttempt(j, c, w)]

Touches(j) ==
    /\ Beside(j)
    /\ Publishes(j)
    /\ Moves(job[j], job'[j])
    /\ RowOnly(j) \/ SettlesAttempt(j) \/ ClaimsAttempt(j) \/ TakesOver(j)

(* Wake changes nothing but the next_attempt_at of queued jobs. *)
LEMMA WakeSame ==
    ASSUME NEW rows \in [Jobs -> JobRow], NEW j \in Jobs, NEW n \in AttemptNos, NEW c \in Nat,
           NEW k \in Jobs
    PROVE  /\ Same(rows[k], Wake(rows, j, n, c)[k])
           /\ rows[k].status # "QUEUED" => Wake(rows, j, n, c)[k] = rows[k]
BY Zenon DEF Wake, Same, JobRow

(* A row that is the same has the same columns. *)
LEMMA SameColumns ==
    ASSUME NEW a \in JobRow, NEW b, Same(a, b)
    PROVE  /\ b.status = a.status /\ b.attempt = a.attempt /\ b.worker = a.worker
           /\ b.cancel = a.cancel /\ b.result = a.result /\ b.failure = a.failure
           /\ b.leaseUntil = a.leaseUntil
BY Zenon DEF Same, JobRow

(* The event of a terminal row is published when it is inserted. *)
LEMMA InsertPublishes ==
    ASSUME NEW j \in Jobs, NEW row, job'[j] = row, row.status \in Terminal,
           InsertTerminalEvent(j, row)
    PROVE  Publishes(j)
BY Zenon DEF InsertTerminalEvent, Publishes, EventOf

(* The shape of a recovery that rewrites the expired job's own row. *)
LEMMA RecoverShape ==
    ASSUME RowInv, NEW j \in Jobs, NEW c \in Times, NEW row \in JobRow,
           ExpireAttempt(j, c),
           row.status # "RUNNING", row.status # "SUCCEEDED", row.attempt = job[j].attempt,
           ledger' = Release(j, job[j].attempt, 0),
           attempt' = FinishAttempt(j, job[j].attempt, "EXPIRED", 0),
           job' = [Wake(job, j, job[j].attempt, c) EXCEPT ![j] = row]
    PROVE  job'[j] = row /\ Beside(j) /\ SettlesAttempt(j)
<1> DEFINE n == job[j].attempt
           woken == Wake(job, j, n, c)
<1>1. /\ job[j].status = "RUNNING" /\ n \in AttemptNos /\ Releasable(j, n)
      /\ job \in [Jobs -> JobRow] /\ c \in Nat
  BY ExpiredFacts, DayType, Zenon DEF RowInv, TypeOK
<1>2. woken \in [Jobs -> JobRow]
  BY <1>1, WakeType, Zenon
<1>3. job' = [woken EXCEPT ![j] = row]
  BY Zenon
<1> HIDE DEF woken
<1>4. job'[j] = row /\ \A k \in Jobs \ {j} : job'[k] = woken[k]
  BY <1>2, <1>3, Zenon
<1>5. Beside(j)
  BY <1>1, <1>4, WakeSame DEF Beside, woken
<1>6. job[j].leaseUntil <= now
  <2>1. job[j].leaseUntil <= c /\ c <= now
    BY Zenon DEF ExpireAttempt, Expired, TransactionClock
  <2>2. job[j].leaseUntil \in Int /\ now \in Int
    BY DayType DEF RowInv, TypeOK, JobRow, NoLease
  <2> QED
    BY <1>1, <2>1, <2>2
<1>7. 0 \in 0 .. attempt[j][n].reserved
  BY <1>1, RowTypes DEF RowInv
<1>8. "EXPIRED" \in AttemptStatus \ {"NONE", "RUNNING"}
  BY Zenon DEF AttemptStatus
<1>9. SettlesAttempt(j)
  BY Zenon, <1>1, <1>4, <1>6, <1>7, <1>8 DEF SettlesAttempt
<1> QED
  BY <1>4, <1>5, <1>9, Zenon

(* The shape of a settlement by the holder of a live claim. *)
LEMMA SettleShape ==
    ASSUME RowInv, NEW cl \in Claims, NEW c \in Times, NEW row \in JobRow,
           NEW status \in AttemptStatus \ {"NONE", "RUNNING", "EXPIRED"}, NEW used \in Nat,
           used <= attempt[cl.job][cl.attempt].reserved,
           SettleClaim(cl, c, row, status, used),
           row.status # "RUNNING", row.attempt = cl.attempt,
           row.status = "SUCCEEDED" => status = "SUCCEEDED" /\ ~job[cl.job].cancel
    PROVE  /\ Same(row, job'[cl.job])
           /\ row.status # "QUEUED" => job'[cl.job] = row
           /\ Beside(cl.job) /\ SettlesAttempt(cl.job)
<1> DEFINE j == cl.job
           n == cl.attempt
           rows == [job EXCEPT ![j] = row]
<1>1. /\ j \in Jobs /\ n \in AttemptNos /\ job[j].status = "RUNNING" /\ job[j].attempt = n
      /\ job \in [Jobs -> JobRow] /\ c \in Nat
  BY Zenon, ClaimFacts, DayType DEF SettleClaim, ActiveClaim, RowInv, TypeOK
<1>2. rows \in [Jobs -> JobRow] /\ rows[j] = row /\ \A k \in Jobs \ {j} : rows[k] = job[k]
  BY <1>1, Zenon
<1>3. job' = Wake(rows, j, n, c)
  BY Zenon DEF SettleClaim
<1> HIDE DEF rows
<1>4. Same(row, job'[j]) /\ (row.status # "QUEUED" => job'[j] = row)
  BY <1>1, <1>2, <1>3, WakeSame
<1>5. Beside(j)
  BY <1>1, <1>2, <1>3, WakeSame DEF Beside
<1>6. job'[j].status = row.status /\ job'[j].attempt = n
  BY <1>4, SameColumns, Zenon
<1>7. used \in 0 .. attempt[j][n].reserved
  BY <1>1, RowTypes DEF RowInv
<1>8. /\ Releasable(j, n) /\ job[j].leaseUntil > now
      /\ attempt' = FinishAttempt(j, n, status, used) /\ ledger' = Release(j, n, used)
  BY Zenon DEF SettleClaim, ActiveClaim
<1>9. SettlesAttempt(j)
  BY Zenon, <1>1, <1>6, <1>7, <1>8 DEF SettlesAttempt
<1> QED
  BY <1>4, <1>5, <1>9, Zenon

(* A terminal row published by a settlement or a recovery. *)
LEMMA TerminalTouch ==
    ASSUME NEW j \in Jobs, NEW row, job'[j] = row, row.status \in Terminal,
           InsertTerminalEvent(j, row), Beside(j), SettlesAttempt(j), Moves(job[j], row)
    PROVE  Touches(j)
BY InsertPublishes, Zenon DEF Touches

(* A step that writes only job j's row. *)
LEMMA OneRowTouch ==
    ASSUME RowInv, NEW j \in Jobs, NEW row \in JobRow, job' = [job EXCEPT ![j] = row],
           UNCHANGED <<attempt, ledger>>,
           row.attempt = job[j].attempt, row.worker = job[j].worker,
           job[j].status = "RUNNING" <=> row.status = "RUNNING",
           Moves(job[j], row), Publishes(j)
    PROVE  Touches(j)
<1>1. job \in [Jobs -> JobRow]
  BY Zenon DEF RowInv, TypeOK
<1>2. job'[j] = row /\ \A k \in Jobs \ {j} : job'[k] = job[k]
  BY <1>1, Zenon
<1>3. Beside(j)
  BY <1>1, <1>2, Zenon DEF Beside, Same, JobRow
<1>4. RowOnly(j)
  BY <1>2, Zenon DEF RowOnly
<1> QED
  BY <1>2, <1>3, <1>4, Zenon DEF Touches

(* Every transaction either leaves jobs, attempts, ledger and outbox alone or *)
(* touches one job, in one of the shapes above, and at most wakes others.     *)
LEMMA StepShape == RowInv /\ [Next]_vars => Quiet \/ \E j \in Jobs : Touches(j)
<1> SUFFICES ASSUME RowInv, [Next]_vars PROVE Quiet \/ \E j \in Jobs : Touches(j)
  BY Zenon
<1>0. TypeOK /\ job \in [Jobs -> GoodRows] /\ job \in [Jobs -> JobRow]
  BY RowInvRows, Zenon DEF TypeOK
<1>1. CASE Tick \/ UNCHANGED vars
  BY <1>1, Zenon DEF Tick, vars, Quiet
<1>2. ASSUME NEW t \in Tenants, NEW s \in OperatorStatus, SetStatus(t, s) PROVE Quiet
  BY <1>2, Zenon DEF SetStatus, Quiet
<1>3. ASSUME NEW t \in Tenants, NEW p \in Policies, SetPolicy(t, p) PROVE Quiet
  BY <1>3, Zenon DEF SetPolicy, Quiet
<1>4. ASSUME NEW j \in Jobs, Submit(j) PROVE Touches(j)
  <2> DEFINE row == [NoJob EXCEPT !.status = "QUEUED", !.nextAt = now]
  <2>1. /\ job' = [job EXCEPT ![j] = row] /\ UNCHANGED <<attempt, ledger, outbox>>
        /\ job[j].status = "NONE"
    BY <1>4, Zenon DEF Submit
  <2>2. /\ row \in JobRow /\ row.status = "QUEUED" /\ row.attempt = 0 /\ row.worker = NoWorker
    BY Zenon, <1>0, DayType DEF TypeOK, NoJob, JobRow, JobStatus, FailureCodes, NoLease, Terminal
  <2>3. job[j].attempt = 0 /\ job[j].worker = NoWorker
    BY <2>1, Zenon DEF RowInv, RowOK
  <2>4. Moves(job[j], row) /\ job'[j] = row
    BY <1>0, <2>1, <2>2, Zenon DEF Moves
  <2> HIDE DEF row
  <2>5. Publishes(j)
    BY <2>1, <2>2, <2>4, Zenon DEF Publishes, Terminal
  <2> QED
    BY Zenon, <2>1, <2>2, <2>3, <2>4, <2>5, OneRowTouch
<1>5. ASSUME NEW j \in Jobs, CancelQueued(j) PROVE Touches(j)
  <2> DEFINE row == [job[j] EXCEPT !.status = "CANCELLED", !.cancel = TRUE,
                                   !.worker = NoWorker, !.leaseUntil = NoLease]
  <2>1. /\ job' = [job EXCEPT ![j] = row] /\ UNCHANGED <<attempt, ledger>>
        /\ job[j].status = "QUEUED" /\ InsertTerminalEvent(j, row)
    BY <1>5, Zenon DEF CancelQueued
  <2>2. /\ row \in JobRow /\ row.status = "CANCELLED" /\ row.attempt = job[j].attempt
        /\ row.worker = NoWorker /\ row.cancel = TRUE
    BY Zenon, <1>0 DEF JobRow, JobStatus, NoLease, Terminal
  <2>3. job[j].worker = NoWorker
    BY <2>1, Zenon DEF RowInv, RowOK
  <2>4. Moves(job[j], row) /\ job'[j] = row
    BY <1>0, <2>1, <2>2, Zenon DEF Moves
  <2> HIDE DEF row
  <2>5. Publishes(j)
    BY <2>1, <2>2, <2>4, InsertPublishes, Zenon DEF Terminal
  <2> QED
    BY Zenon, <2>1, <2>2, <2>3, <2>4, <2>5, OneRowTouch
<1>6. ASSUME NEW j \in Jobs, CancelRunning(j) PROVE Touches(j)
  <2> DEFINE row == [job[j] EXCEPT !.cancel = TRUE]
  <2>1. /\ job' = [job EXCEPT ![j] = row] /\ UNCHANGED <<attempt, ledger, outbox>>
        /\ job[j].status = "RUNNING"
    BY <1>6, Zenon DEF CancelRunning
  <2>2. /\ row \in JobRow /\ row.status = job[j].status /\ row.attempt = job[j].attempt
        /\ row.worker = job[j].worker /\ row.cancel = TRUE
    BY Zenon, <1>0 DEF JobRow
  <2>4. Moves(job[j], row) /\ job'[j] = row
    BY Zenon, <1>0, <2>1, <2>2 DEF Moves
  <2> HIDE DEF row
  <2>5. Publishes(j)
    BY <2>1, <2>2, <2>4, Zenon DEF Publishes, Terminal
  <2> QED
    BY Zenon, <2>1, <2>2, <2>4, <2>5, OneRowTouch
<1>7. ASSUME NEW j \in Jobs, NEW c \in Times, NEW code \in FailureCodes,
             NEW status \in {"FAILED", "CANCELLED"}, NEW result \in {NoResult, job[j].result},
             status = "FAILED" => code # NoFailure,
             status = "CANCELLED" => job[j].cancel,
             RecoverAs(j, c, status, result, code)
      PROVE  Touches(j)
  <2> DEFINE row == Settled(job[j], status, result, code)
  <2>1. /\ ExpireAttempt(j, c)
        /\ ledger' = Release(j, job[j].attempt, 0)
        /\ attempt' = FinishAttempt(j, job[j].attempt, "EXPIRED", 0)
        /\ job' = [Wake(job, j, job[j].attempt, c) EXCEPT ![j] = row]
        /\ InsertTerminalEvent(j, row)
    BY <1>7, Zenon DEF RecoverAs
  <2>2. /\ row \in JobRow /\ row.status = status /\ row.attempt = job[j].attempt
        /\ row.cancel = job[j].cancel /\ row.failure = code
    BY Zenon, <1>0 DEF Settled, JobRow, JobStatus, NoLease, Terminal
  <2>3. job[j].status = "RUNNING"
    BY <2>1, Zenon DEF ExpireAttempt, Expired
  <2>4. Moves(job[j], row)
    BY Zenon, <1>7, <2>2, <2>3 DEF Moves
  <2> HIDE DEF row
  <2>5. job'[j] = row /\ Beside(j) /\ SettlesAttempt(j)
    BY <2>1, <2>2, RecoverShape, Zenon
  <2> QED
    BY <2>1, <2>2, <2>4, <2>5, TerminalTouch, Zenon DEF Terminal
<1>8. ASSUME NEW j \in Jobs, NEW c \in Times,
             \/ RecoverDisabled(j, c) \/ RecoverCancelled(j, c)
             \/ RecoverExhausted(j, c) \/ RecoverImpossible(j, c)
      PROVE  Touches(j)
  <2>1. /\ {"TENANT_DISABLED", "LEASE_EXPIRED", "DAILY_EXECUTION_LIMIT_TOO_LOW", NoFailure}
             \subseteq FailureCodes
        /\ NoFailure \notin {"TENANT_DISABLED", "LEASE_EXPIRED", "DAILY_EXECUTION_LIMIT_TOO_LOW"}
    BY Zenon DEF FailureCodes, NoFailure
  <2>2. CASE RecoverDisabled(j, c)
    BY <1>7, <2>1, <2>2, Zenon DEF RecoverDisabled
  <2>3. CASE RecoverCancelled(j, c)
    BY <1>7, <2>1, <2>3, Zenon DEF RecoverCancelled
  <2>4. CASE RecoverExhausted(j, c)
    BY <1>7, <2>1, <2>4, Zenon DEF RecoverExhausted
  <2>5. CASE RecoverImpossible(j, c)
    BY <1>7, <2>1, <2>5, Zenon DEF RecoverImpossible
  <2> QED
    BY <1>8, <2>2, <2>3, <2>4, <2>5, Zenon
<1>9. ASSUME NEW j \in Jobs, NEW c \in Times, RecoverDeferred(j, c) PROVE Touches(j)
  <2> DEFINE row == [job[j] EXCEPT !.status = "QUEUED", !.worker = NoWorker,
                                   !.leaseUntil = NoLease, !.nextAt = Midnight(Day(c) + 1)]
  <2>1. /\ ExpireAttempt(j, c)
        /\ ledger' = Release(j, job[j].attempt, 0)
        /\ attempt' = FinishAttempt(j, job[j].attempt, "EXPIRED", 0)
        /\ job' = [Wake(job, j, job[j].attempt, c) EXCEPT ![j] = row]
        /\ UNCHANGED outbox /\ ~job[j].cancel
    BY <1>9, Zenon DEF RecoverDeferred, Retryable
  <2>2. row \in JobRow /\ row.status = "QUEUED" /\ row.attempt = job[j].attempt
    <3>1. Midnight(Day(c) + 1) \in Nat
      BY DayType, MidnightType
    <3> QED
      BY Zenon, <1>0, <3>1 DEF JobRow, JobStatus, NoLease
  <2>3. job[j].status = "RUNNING"
    BY <2>1, Zenon DEF ExpireAttempt, Expired
  <2>4. Moves(job[j], row)
    BY <2>1, <2>2, <2>3, Zenon DEF Moves
  <2> HIDE DEF row
  <2>5. job'[j] = row /\ Beside(j) /\ SettlesAttempt(j)
    BY <2>1, <2>2, RecoverShape, Zenon
  <2>6. Publishes(j)
    BY <2>1, <2>2, <2>5, Zenon DEF Publishes, Terminal
  <2> QED
    BY <2>4, <2>5, <2>6, Zenon DEF Touches
<1>10. ASSUME NEW j \in Jobs, NEW c \in Times, FailImpossible(j, c) PROVE Touches(j)
  <2> DEFINE row == Settled(job[j], "FAILED", job[j].result, "DAILY_EXECUTION_LIMIT_TOO_LOW")
  <2>1. /\ job' = [job EXCEPT ![j] = row] /\ UNCHANGED <<attempt, ledger>>
        /\ job[j].status = "QUEUED" /\ InsertTerminalEvent(j, row)
    BY <1>10, Zenon DEF FailImpossible, PickQueued, Due
  <2>2. /\ row \in JobRow /\ row.status = "FAILED" /\ row.attempt = job[j].attempt
        /\ row.worker = NoWorker /\ row.cancel = job[j].cancel /\ row.failure # NoFailure
    BY Zenon, <1>0 DEF Settled, JobRow, JobStatus, NoLease, Terminal, FailureCodes, NoFailure
  <2>3. job[j].worker = NoWorker
    BY <2>1, Zenon DEF RowInv, RowOK
  <2>4. Moves(job[j], row) /\ job'[j] = row
    BY Zenon, <1>0, <2>1, <2>2 DEF Moves
  <2> HIDE DEF row
  <2>5. Publishes(j)
    BY <2>1, <2>2, <2>4, InsertPublishes, Zenon DEF Terminal
  <2> QED
    BY Zenon, <2>1, <2>2, <2>3, <2>4, <2>5, OneRowTouch
<1>11. ASSUME NEW j \in Jobs, NEW c \in Times, DeferQueued(j, c) PROVE Touches(j)
  <2> DEFINE row == [job[j] EXCEPT !.nextAt = Midnight(Day(c) + 1)]
  <2>1. /\ job' = [job EXCEPT ![j] = row] /\ UNCHANGED <<attempt, ledger, outbox>>
        /\ job[j].status = "QUEUED"
    BY <1>11, Zenon DEF DeferQueued, PickQueued, Due
  <2>2. Midnight(Day(c) + 1) \in Nat
    BY DayType, MidnightType
  <2>3. /\ row \in JobRow /\ row.status = "QUEUED" /\ row.attempt = job[j].attempt
        /\ row.worker = job[j].worker /\ row.cancel = job[j].cancel
    BY <1>0, <2>1, <2>2, Zenon DEF JobRow
  <2>4. ~job[j].cancel
    BY <2>1, Zenon DEF RowInv, RowOK
  <2>5. Moves(job[j], row) /\ job'[j] = row
    BY <1>0, <2>1, <2>3, <2>4, Zenon DEF Moves
  <2> HIDE DEF row
  <2>6. Publishes(j)
    BY <2>1, <2>3, <2>5, Zenon DEF Publishes, Terminal
  <2> QED
    BY Zenon, <2>1, <2>3, <2>5, <2>6, OneRowTouch
<1>12. ASSUME NEW j \in Jobs, NEW c \in Times, NEW w \in Workers, TakeOver(j, c, w)
       PROVE  Touches(j)
  <2> DEFINE n == job[j].attempt
             woken == Wake(job, j, n, c)
             row == ClaimedRow(j, c, w)
  <2>1. job[j].status = "RUNNING" /\ n \in AttemptNos /\ Releasable(j, n) /\ c \in Nat
    BY <1>12, ExpiredFacts, DayType, Zenon DEF TakeOver
  <2>2. /\ row.status = "RUNNING" /\ row.attempt = n + 1 /\ row.worker = w
        /\ row.cancel = job[j].cancel /\ n + 1 \in AttemptNos
    BY Zenon, <1>0, <1>12, <2>1, ClaimedGood DEF ClaimedRow, JobRow, TakeOver
  <2>3. woken \in [Jobs -> JobRow]
    BY <1>0, <2>1, WakeType, Zenon
  <2>4. job' = [woken EXCEPT ![j] = row] /\ UNCHANGED outbox
    BY <1>12, Zenon DEF TakeOver
  <2>5. /\ ledger' = Reserve(Release(j, n, 0), j, Day(c))
        /\ attempt' = [FinishAttempt(j, n, "EXPIRED", 0)
                          EXCEPT ![j][n + 1] = ClaimedAttempt(j, c, w)]
        /\ ReservationFits(Release(j, n, 0), j, Day(c))
        /\ ~ReservationImpossible(j)
    BY <1>12, Zenon DEF TakeOver
  <2>6. job[j].leaseUntil <= now
    <3>1. job[j].leaseUntil <= c /\ c <= now
      BY <1>12, Zenon DEF TakeOver, ExpireAttempt, Expired, TransactionClock
    <3>2. job[j].leaseUntil \in Int /\ now \in Int
      BY <1>0, DayType DEF TypeOK, JobRow, NoLease
    <3> QED
      BY <2>1, <3>1, <3>2
  <2> HIDE DEF woken, row
  <2>7. job'[j] = row /\ \A k \in Jobs \ {j} : job'[k] = woken[k]
    BY <2>3, <2>4, Zenon
  <2>8. Beside(j)
    BY <1>0, <2>1, <2>7, WakeSame DEF Beside, woken
  <2>9. Moves(job[j], job'[j]) /\ Publishes(j)
    BY Zenon, <2>1, <2>2, <2>4, <2>7 DEF Moves, Publishes, Terminal
  <2>10. TakesOver(j)
    BY <2>1, <2>2, <2>5, <2>6, <2>7, Zenon DEF TakesOver, Opens
  <2> QED
    BY <2>8, <2>9, <2>10, Zenon DEF Touches
<1>13. ASSUME NEW j \in Jobs, NEW c \in Times, NEW w \in Workers, ClaimQueued(j, c, w)
       PROVE  Touches(j)
  <2> DEFINE n == job[j].attempt
             row == ClaimedRow(j, c, w)
  <2>1. job[j].status = "QUEUED" /\ ~job[j].cancel
    BY <1>13, Zenon DEF ClaimQueued, PickQueued, Due, RowInv, RowOK
  <2>2. /\ row.status = "RUNNING" /\ row.attempt = n + 1 /\ row.worker = w
        /\ row.cancel = job[j].cancel /\ n + 1 \in AttemptNos
    BY Zenon, <1>0, <1>13, <2>1, ClaimedGood DEF ClaimedRow, JobRow, ClaimQueued
  <2>3. job' = [job EXCEPT ![j] = row] /\ UNCHANGED outbox
    BY <1>13, Zenon DEF ClaimQueued
  <2>4. /\ ledger' = Reserve(ledger, j, Day(c))
        /\ attempt' = [attempt EXCEPT ![j][n + 1] = ClaimedAttempt(j, c, w)]
        /\ ReservationFits(ledger, j, Day(c))
        /\ ~ReservationImpossible(j)
    BY <1>13, Zenon DEF ClaimQueued
  <2> HIDE DEF row
  <2>5. job'[j] = row /\ \A k \in Jobs \ {j} : job'[k] = job[k]
    BY <1>0, <2>3, Zenon
  <2>6. Beside(j)
    BY <1>0, <2>5, Zenon DEF Beside, Same, JobRow
  <2>7. Moves(job[j], job'[j]) /\ Publishes(j)
    BY <2>1, <2>2, <2>3, <2>5, Zenon DEF Moves, Publishes, Terminal
  <2>8. ClaimsAttempt(j)
    BY Zenon, <2>1, <2>2, <2>4, <2>5 DEF ClaimsAttempt, Opens
  <2> QED
    BY Zenon, <2>6, <2>7, <2>8 DEF Touches
<1>14. ASSUME NEW cl \in Claims, NEW c \in Times, Heartbeat(cl, c) PROVE Touches(cl.job)
  <2> DEFINE row == [job[cl.job] EXCEPT !.leaseUntil = c + LeaseDuration]
  <2>1. cl.job \in Jobs /\ job[cl.job].status = "RUNNING" /\ job[cl.job] \in JobRow
    BY <1>0, <1>14, ClaimFacts, Zenon DEF Heartbeat
  <2>2. c + LeaseDuration \in Nat
    BY DayType, ClockAssumption
  <2>3. job' = [job EXCEPT ![cl.job] = row] /\ UNCHANGED <<attempt, ledger, outbox>>
    BY <1>14, Zenon DEF Heartbeat
  <2>4. /\ row \in JobRow /\ row.status = job[cl.job].status /\ row.attempt = job[cl.job].attempt
        /\ row.worker = job[cl.job].worker /\ row.cancel = job[cl.job].cancel
    BY <2>1, <2>2, Zenon DEF JobRow
  <2>5. Moves(job[cl.job], row) /\ job'[cl.job] = row
    BY <1>0, <2>1, <2>3, <2>4, Zenon DEF Moves
  <2> HIDE DEF row
  <2>6. Publishes(cl.job)
    BY <2>1, <2>3, <2>4, <2>5, Zenon DEF Publishes, Terminal
  <2> QED
    BY Zenon, <2>1, <2>3, <2>4, <2>5, <2>6, OneRowTouch
<1>15. ASSUME NEW cl \in Claims, NEW c \in Times, NEW res \in Results, Complete(cl, res, c)
       PROVE  Touches(cl.job)
  <2> DEFINE used == CompletionCharge(cl, res)
  <2>1. used \in Nat /\ used <= attempt[cl.job][cl.attempt].reserved
    BY <1>0, CompletionChargeType, Zenon
  <2>2. cl.job \in Jobs /\ job[cl.job].status = "RUNNING" /\ job[cl.job].attempt = cl.attempt
    BY Zenon, <1>15, ClaimFacts DEF Complete, CompleteResult, CompleteCancelled, SettleClaim, ActiveClaim
  <2>r. job[cl.job] \in JobRow
    BY <1>0, <2>2, Zenon
  <2>3. /\ "SUCCEEDED" \in AttemptStatus \ {"NONE", "RUNNING", "EXPIRED"}
        /\ "CANCELLED" \in AttemptStatus \ {"NONE", "RUNNING", "EXPIRED"}
    BY Zenon DEF AttemptStatus
  <2> HIDE DEF used
  <2>4. CASE CompleteResult(cl, res, c)
    <3> DEFINE row == Settled(job[cl.job], "SUCCEEDED", res, NoFailure)
    <3>1. /\ row \in JobRow /\ row.status = "SUCCEEDED" /\ row.attempt = cl.attempt
          /\ row.result = res
      BY Zenon, <2>2, <2>r DEF Settled, JobRow, JobStatus, NoLease, Terminal, FailureCodes
    <3>2. /\ ~job[cl.job].cancel /\ SettleClaim(cl, c, row, "SUCCEEDED", used)
          /\ InsertTerminalEvent(cl.job, row)
      BY Zenon, <2>4 DEF CompleteResult, used
    <3>3. Moves(job[cl.job], row)
      BY Zenon, <2>2, <3>1, <3>2 DEF Moves
    <3> HIDE DEF row
    <3>4. job'[cl.job] = row /\ Beside(cl.job) /\ SettlesAttempt(cl.job)
      BY Zenon, <2>1, <2>3, <3>1, <3>2, SettleShape
    <3> QED
      BY Zenon, <2>2, <3>1, <3>2, <3>3, <3>4, TerminalTouch DEF Terminal
  <2>5. CASE CompleteCancelled(cl, res, c)
    <3> DEFINE row == Settled(job[cl.job], "CANCELLED", NoResult, NoFailure)
    <3>1. /\ row \in JobRow /\ row.status = "CANCELLED" /\ row.attempt = cl.attempt
          /\ row.cancel = job[cl.job].cancel
      BY Zenon, <2>2, <2>r DEF Settled, JobRow, JobStatus, NoLease, Terminal, FailureCodes
    <3>2. /\ job[cl.job].cancel /\ SettleClaim(cl, c, row, "CANCELLED", used)
          /\ InsertTerminalEvent(cl.job, row)
      BY Zenon, <2>5 DEF CompleteCancelled, used
    <3>3. Moves(job[cl.job], row)
      BY Zenon, <2>2, <3>1, <3>2 DEF Moves
    <3> HIDE DEF row
    <3>4. job'[cl.job] = row /\ Beside(cl.job) /\ SettlesAttempt(cl.job)
      BY Zenon, <2>1, <2>3, <3>1, <3>2, SettleShape
    <3> QED
      BY <2>2, <3>1, <3>2, <3>3, <3>4, TerminalTouch, Zenon DEF Terminal
  <2> QED
    BY <1>15, <2>4, <2>5, Zenon DEF Complete
<1>16. ASSUME NEW cl \in Claims, NEW c \in Times, NEW failure \in Failures,
              FailInfrastructure(cl, failure, c)
       PROVE  Touches(cl.job)
  <2> DEFINE used == FailureCharge(cl, failure)
  <2>1. used \in Nat /\ used <= attempt[cl.job][cl.attempt].reserved
    BY <1>0, FailureChargeType, Zenon
  <2>2. cl.job \in Jobs /\ job[cl.job].status = "RUNNING" /\ job[cl.job].attempt = cl.attempt
    BY <1>16, ClaimFacts, Zenon DEF FailInfrastructure, FailCancelled, FailRequeued, FailTerminal,
                             SettleClaim, ActiveClaim
  <2>r. job[cl.job] \in JobRow
    BY <1>0, <2>2, Zenon
  <2>3. /\ "FAILED" \in AttemptStatus \ {"NONE", "RUNNING", "EXPIRED"}
        /\ "CANCELLED" \in AttemptStatus \ {"NONE", "RUNNING", "EXPIRED"}
    BY Zenon DEF AttemptStatus
  <2>t. c \in Nat /\ c + RetryDelay \in Nat
    BY DayType, ClockAssumption
  <2> HIDE DEF used
  <2>4. CASE FailCancelled(cl, failure, c)
    <3> DEFINE row == [Settled(job[cl.job], "CANCELLED", job[cl.job].result, NoFailure)
                         EXCEPT !.nextAt = c]
    <3>1. /\ row \in JobRow /\ row.status = "CANCELLED" /\ row.attempt = cl.attempt
          /\ row.cancel = job[cl.job].cancel
      BY Zenon, <2>2, <2>r, <2>t DEF Settled, JobRow, JobStatus, NoLease, Terminal, FailureCodes
    <3>2. /\ job[cl.job].cancel /\ SettleClaim(cl, c, row, "CANCELLED", used)
          /\ InsertTerminalEvent(cl.job, row)
      BY <2>4, Zenon DEF FailCancelled, used
    <3>3. Moves(job[cl.job], row)
      BY Zenon, <2>2, <3>1, <3>2 DEF Moves
    <3> HIDE DEF row
    <3>4. job'[cl.job] = row /\ Beside(cl.job) /\ SettlesAttempt(cl.job)
      BY Zenon, <2>1, <2>3, <3>1, <3>2, SettleShape
    <3> QED
      BY <2>2, <3>1, <3>2, <3>3, <3>4, TerminalTouch, Zenon DEF Terminal
  <2>5. CASE FailRequeued(cl, failure, c)
    <3> DEFINE row == [Settled(job[cl.job], "QUEUED", job[cl.job].result, NoFailure)
                         EXCEPT !.nextAt = c + RetryDelay]
    <3>1. row \in JobRow /\ row.status = "QUEUED" /\ row.attempt = cl.attempt
      BY Zenon, <2>2, <2>r, <2>t DEF Settled, JobRow, JobStatus, NoLease, Terminal, FailureCodes
    <3>2. ~job[cl.job].cancel /\ SettleClaim(cl, c, row, "FAILED", used) /\ UNCHANGED outbox
      BY <2>5, Zenon DEF FailRequeued, used
    <3> HIDE DEF row
    <3>3. Same(row, job'[cl.job]) /\ Beside(cl.job) /\ SettlesAttempt(cl.job)
      BY <2>1, <2>3, <3>1, <3>2, SettleShape, Zenon
    <3>4. job'[cl.job].status = "QUEUED"
      BY <3>1, <3>3, SameColumns, Zenon
    <3>5. Moves(job[cl.job], job'[cl.job]) /\ Publishes(cl.job)
      BY Zenon, <2>2, <3>2, <3>4 DEF Moves, Publishes, Terminal
    <3> QED
      BY Zenon, <3>3, <3>5 DEF Touches
  <2>6. CASE FailTerminal(cl, failure, c)
    <3> DEFINE row == [Settled(job[cl.job], "FAILED", job[cl.job].result, "WORKER")
                         EXCEPT !.nextAt = c]
    <3>1. /\ row \in JobRow /\ row.status = "FAILED" /\ row.attempt = cl.attempt
          /\ row.cancel = job[cl.job].cancel /\ row.failure # NoFailure
      BY Zenon, <2>2, <2>r, <2>t DEF Settled, JobRow, JobStatus, NoLease, Terminal, FailureCodes, NoFailure
    <3>2. SettleClaim(cl, c, row, "FAILED", used) /\ InsertTerminalEvent(cl.job, row)
      BY <2>6, Zenon DEF FailTerminal, used
    <3>3. Moves(job[cl.job], row)
      BY <2>2, <3>1, Zenon DEF Moves
    <3> HIDE DEF row
    <3>4. job'[cl.job] = row /\ Beside(cl.job) /\ SettlesAttempt(cl.job)
      BY Zenon, <2>1, <2>3, <3>1, <3>2, SettleShape
    <3> QED
      BY Zenon, <2>2, <3>1, <3>2, <3>3, <3>4, TerminalTouch DEF Terminal
  <2> QED
    BY <1>16, <2>4, <2>5, <2>6, Zenon DEF FailInfrastructure
<1>17. \A cl \in Claims : cl.job \in Jobs
  BY Zenon DEF Claims
<1> QED
  BY <1>1, <1>2, <1>3, <1>4, <1>5, <1>6, <1>8, <1>9, <1>10, <1>11, <1>12, <1>13, <1>14, <1>15,
     <1>16, <1>17, Zenon
     DEF Next, Cancel, Maintain, Claim

=============================================================================
