--------------------------- MODULE JobLifecycleProofs ---------------------------
(***************************************************************************)
(* JobRepository implements JobLifecycle, for every value of the           *)
(* constants: the tables, leases, attempts, clocks and budgets are         *)
(* invisible to a client except as the life cycle of each single job.      *)
(***************************************************************************)
EXTENDS JobRepositoryProofs

(* What a client sees of one row. *)
Show(row) == [status |-> row.status, cancel |-> row.cancel,
              result |-> row.result, failure |-> row.failure]

(* A cancellation flag is one of the two Booleans. *)
LEMMA CancelFlag ==
    ASSUME NEW row \in JobRow
    PROVE  (row.cancel => row.cancel = TRUE) /\ (~row.cancel => row.cancel = FALSE)
<1>1. row.cancel \in BOOLEAN
  BY Zenon DEF JobRow
<1> QED
  BY <1>1, Zenon

(* What clients see of a row, column by column. *)
LEMMA ShowColumns ==
    ASSUME NEW row, NEW status, NEW cancel, NEW result, NEW failure,
           row.status = status, row.cancel = cancel, row.result = result, row.failure = failure
    PROVE  Show(row) = [status |-> status, cancel |-> cancel, result |-> result,
                        failure |-> failure]
BY Zenon DEF Show

(* What clients see of two rows that differ in the status only. *)
LEMMA ShowStatus ==
    ASSUME NEW a, NEW b, NEW status, b.status = status,
           b.cancel = a.cancel, b.result = a.result, b.failure = a.failure
    PROVE  Show(b) = [Show(a) EXCEPT !.status = status]
BY DEF Show

(* What clients see of two rows that differ in the cancellation only. *)
LEMMA ShowCancel ==
    ASSUME NEW a, NEW b, NEW cancel, b.cancel = cancel,
           b.status = a.status, b.result = a.result, b.failure = a.failure
    PROVE  Show(b) = [Show(a) EXCEPT !.cancel = cancel]
BY DEF Show

(* A step that touches job j changes what clients see of j only. *)
LEMMA VisibleStep ==
    ASSUME RowInv, NEW j \in Jobs, Touches(j)
    PROVE  Visible' = [Visible EXCEPT ![j] = Show(job'[j])]
<1>1. ASSUME NEW k \in Jobs \ {j} PROVE Show(job'[k]) = Show(job[k])
  BY <1>1, BesideColumns, Zenon DEF Show
<1>2. Visible = [k \in Jobs |-> Show(job[k])]
  BY Zenon DEF Visible, Show
<1>3. Visible' = [k \in Jobs |-> Show(job'[k])]
  BY Zenon DEF Visible, Show
<1> HIDE DEF Show
<1> QED
  BY <1>1, <1>2, <1>3, Zenon

(* Changing the status a client sees of job j is a Move. *)
LEMMA ShownMove ==
    ASSUME NEW j \in Jobs, NEW s, Visible' = [Visible EXCEPT ![j] = [Visible[j] EXCEPT !.status = s]]
    PROVE  Lifecycle!Move(j, s)
BY Zenon DEF Lifecycle!Move

(* The initial tables show clients that no job exists. *)
LEMMA LifecycleInit == Init => Lifecycle!LifecycleInit
BY DEF Init, NoJob, NoEvent, Visible, Lifecycle!LifecycleInit, Lifecycle!Hidden, Lifecycle!NoNotice

(* A step that ends job j publishes its event if it has a callback. *)
LEMMA EndStep ==
    ASSUME RowInv, NEW j \in Jobs, Touches(j), NEW row,
           job[j].status \in {"QUEUED", "RUNNING"}, job'[j].status \in Terminal,
           Show(job'[j]) = row
    PROVE  Lifecycle!End(j, row)
<1>1. Visible[j].status = job[j].status
  BY Zenon DEF Visible
<1>2. Visible' = [Visible EXCEPT ![j] = row]
  BY VisibleStep, Zenon
<1>3. EventOf(job'[j]) = [status |-> row.status, result |-> row.result, failure |-> row.failure]
  BY Zenon DEF Show, EventOf
<1>4. outbox' = IF j \in HasCallback
                THEN [outbox EXCEPT ![j] = EventOf(job'[j])]
                ELSE outbox
  BY Zenon DEF Touches, Publishes
<1> QED
  BY <1>1, <1>2, <1>3, <1>4, Zenon DEF Lifecycle!End

(* A step that leaves job j alive publishes nothing. *)
LEMMA AliveStep ==
    ASSUME RowInv, NEW j \in Jobs, Touches(j), job'[j].status \notin Terminal
    PROVE  outbox' = outbox
BY Zenon DEF Touches, Publishes

(* Every transaction is one step of one job's life cycle, or invisible. *)
LEMMA LifecycleStep ==
    RowInv /\ RowInv' /\ [Next]_vars => [Lifecycle!LifecycleNext]_(Lifecycle!lifecycleVars)
<1> SUFFICES ASSUME RowInv, RowInv', [Next]_vars
             PROVE  Lifecycle!LifecycleNext \/ UNCHANGED Lifecycle!lifecycleVars
  BY Zenon
<1>1. CASE Quiet
  BY <1>1, Zenon DEF Quiet, Lifecycle!lifecycleVars, Visible
<1>2. ASSUME NEW j \in Jobs, Touches(j)
      PROVE  Lifecycle!LifecycleNext \/ UNCHANGED Lifecycle!lifecycleVars
  <2> DEFINE a == job[j]
             b == job'[j]
  <2>1. a \in JobRow /\ b \in JobRow /\ RowOK(a) /\ RowOK(b)
    BY Zenon DEF RowInv, TypeOK
  <2>2. Visible' = [Visible EXCEPT ![j] = Show(b)] /\ Visible[j] = Show(a)
    <3>1. Visible[j] = Show(a)
      BY Zenon DEF Visible, Show
    <3> QED
      BY <1>2, <3>1, VisibleStep, Zenon
  <2>3. /\ (a.cancel => a.cancel = TRUE) /\ (~a.cancel => a.cancel = FALSE)
        /\ (b.cancel => b.cancel = TRUE) /\ (~b.cancel => b.cancel = FALSE)
    BY <2>1, CancelFlag, Zenon
  <2>4. Moves(a, b)
    BY <1>2, Zenon DEF Touches
  <2>5. \/ Lifecycle!Accept(j) \/ Lifecycle!Start(j) \/ Lifecycle!Requeue(j)
        \/ Lifecycle!RequestCancel(j) \/ Lifecycle!Succeed(j) \/ Lifecycle!Fail(j)
        \/ Lifecycle!Abort(j) \/ (Visible' = Visible /\ outbox' = outbox)
    <3> HIDE DEF a, b
    <3>1. CASE a.status = "NONE" /\ b.status = "QUEUED"
      <4>1. Show(b) = [Show(a) EXCEPT !.status = "QUEUED"]
        <5>1. b.cancel = a.cancel /\ b.result = a.result /\ b.failure = a.failure
          BY <2>1, <2>3, <3>1, Zenon DEF RowOK
        <5> QED
          BY <3>1, <5>1, ShowStatus
      <4>2. outbox' = outbox
        BY <1>2, <3>1, AliveStep, Zenon DEF b, Terminal
      <4>3. Visible[j].status = "NONE"
        BY <2>2, <3>1 DEF Show
      <4> QED
        BY <2>2, <4>1, <4>2, <4>3, ShownMove, Zenon DEF Lifecycle!Accept
    <3>2. CASE a.status = "QUEUED" /\ b.status \in {"QUEUED", "RUNNING"} /\ ~b.cancel
      <4>1. Show(b) = [Show(a) EXCEPT !.status = b.status]
        <5>1. b.cancel = a.cancel /\ b.result = a.result /\ b.failure = a.failure
          BY <2>1, <2>3, <3>2, Zenon DEF RowOK
        <5> QED
          BY <3>2, <5>1, ShowStatus
      <4>2. outbox' = outbox
        BY <1>2, <3>2, AliveStep, Zenon DEF b, Terminal
      <4>3. CASE b.status = "QUEUED"
        <5>1. Show(b) = Show(a)
          BY <3>2, <4>1, <4>3, Zenon DEF Show
        <5>2. Visible' = Visible
          BY <2>2, <5>1, Zenon DEF Visible
        <5> QED
          BY <4>2, <5>2, Zenon
      <4>4. CASE b.status = "RUNNING"
        <5>1. Visible[j].status = "QUEUED"
          BY <2>2, <3>2 DEF Show
        <5> QED
          BY <2>2, <4>1, <4>2, <4>4, <5>1, ShownMove, Zenon DEF Lifecycle!Start
      <4> QED
        BY <3>2, <4>3, <4>4, Zenon
    <3>3. CASE a.status = "QUEUED" /\ b.status = "CANCELLED" /\ b.cancel
      <4>1. Show(b) = [status |-> "CANCELLED", cancel |-> TRUE, result |-> NoResult,
                        failure |-> NoFailure]
        <5>1. b.cancel = TRUE /\ b.result = NoResult /\ b.failure = NoFailure
          BY <2>1, <2>3, <3>3, Zenon DEF RowOK
        <5> QED
          BY <3>3, <5>1, ShowColumns
      <4>2. Lifecycle!End(j, [status |-> "CANCELLED", cancel |-> TRUE, result |-> NoResult,
                              failure |-> NoFailure])
        BY <1>2, <2>2, <3>3, <4>1, EndStep DEF a, b, Terminal
      <4> QED
        BY <2>2, <3>3, <4>2 DEF Show, Lifecycle!Abort
    <3>4. CASE /\ a.status \in {"QUEUED", "RUNNING"} /\ b.status = "FAILED"
               /\ b.cancel = a.cancel /\ b.failure # NoFailure
      <4>1. Show(b) = [status |-> "FAILED", cancel |-> a.cancel, result |-> NoResult,
                        failure |-> b.failure]
        <5>1. b.cancel = a.cancel /\ b.result = NoResult
          BY <2>1, <2>3, <3>4, Zenon DEF RowOK
        <5> QED
          BY <3>4, <5>1, ShowColumns, Zenon
      <4>2. Lifecycle!End(j, [status |-> "FAILED", cancel |-> Visible[j].cancel, result |-> NoResult,
                              failure |-> b.failure])
        BY <1>2, <2>2, <3>4, <4>1, EndStep DEF a, b, Show, Terminal
      <4>3. b.failure \in FailureCodes \ {NoFailure}
        BY <2>1, <3>4, Zenon DEF JobRow
      <4>4. Visible[j].cancel => b.failure = "TENANT_DISABLED"
        BY <2>1, <2>2, <3>4 DEF Show, RowOK
      <4> QED
        BY <4>2, <4>3, <4>4, Zenon DEF Lifecycle!Fail
    <3>5. CASE a.status = "RUNNING" /\ b.status = "QUEUED" /\ ~a.cancel
      <4>1. Show(b) = [Show(a) EXCEPT !.status = "QUEUED"]
        <5>1. b.cancel = a.cancel /\ b.result = a.result /\ b.failure = a.failure
          BY <2>1, <2>3, <3>5, Zenon DEF RowOK
        <5> QED
          BY <3>5, <5>1, ShowStatus
      <4>2. outbox' = outbox
        BY <1>2, <3>5, AliveStep, Zenon DEF b, Terminal
      <4>3. Visible[j].status = "RUNNING" /\ ~Visible[j].cancel
        BY <2>2, <3>5 DEF Show
      <4> QED
        BY <2>2, <4>1, <4>2, <4>3, ShownMove, Zenon DEF Lifecycle!Requeue
    <3>6. CASE /\ a.status = "RUNNING" /\ b.status = "RUNNING"
               /\ b.cancel = a.cancel \/ b.cancel = TRUE
      <4>1. outbox' = outbox
        BY <1>2, <3>6, AliveStep, Zenon DEF b, Terminal
      <4>2. CASE b.cancel = a.cancel
        <5>1. Show(b) = Show(a)
          BY <2>1, <3>6, <4>2, Zenon DEF Show, RowOK
        <5>2. Visible' = Visible
          BY <2>2, <5>1, Zenon DEF Visible
        <5> QED
          BY <4>1, <5>2, Zenon
      <4>3. CASE b.cancel = TRUE
        <5>1. Show(b) = [Show(a) EXCEPT !.cancel = TRUE]
          <6>1. b.result = a.result /\ b.failure = a.failure
            BY <2>1, <3>6, Zenon DEF RowOK
          <6> QED
            BY <3>6, <4>3, <6>1, ShowCancel
        <5> QED
          BY <2>2, <3>6, <4>1, <5>1, Zenon DEF Show, Lifecycle!RequestCancel
      <4> QED
        BY <3>6, <4>2, <4>3, Zenon
    <3>7. CASE /\ a.status = "RUNNING" /\ b.status = "SUCCEEDED"
               /\ ~a.cancel /\ b.result \in Results
      <4>1. Show(b) = [status |-> "SUCCEEDED", cancel |-> FALSE, result |-> b.result,
                        failure |-> NoFailure]
        <5>1. b.cancel = FALSE /\ b.failure = NoFailure
          BY <2>1, <2>3, <3>7, Zenon DEF RowOK
        <5> QED
          BY <3>7, <5>1, ShowColumns, Zenon
      <4>2. Lifecycle!End(j, [status |-> "SUCCEEDED", cancel |-> FALSE, result |-> b.result,
                              failure |-> NoFailure])
        BY <1>2, <2>2, <3>7, <4>1, EndStep DEF a, b, Terminal
      <4>3. Visible[j].status = "RUNNING" /\ ~Visible[j].cancel
        BY <2>2, <3>7 DEF Show
      <4> QED
        BY <3>7, <4>2, <4>3, Zenon DEF Lifecycle!Succeed
    <3>8. CASE a.status = "RUNNING" /\ b.status = "CANCELLED" /\ a.cancel /\ b.cancel
      <4>1. Show(b) = [status |-> "CANCELLED", cancel |-> TRUE, result |-> NoResult,
                        failure |-> NoFailure]
        <5>1. b.cancel = TRUE /\ b.result = NoResult /\ b.failure = NoFailure
          BY <2>1, <2>3, <3>8, Zenon DEF RowOK
        <5> QED
          BY <3>8, <5>1, ShowColumns
      <4>2. Lifecycle!End(j, [status |-> "CANCELLED", cancel |-> TRUE, result |-> NoResult,
                              failure |-> NoFailure])
        BY <1>2, <2>2, <3>8, <4>1, EndStep DEF a, b, Terminal
      <4>3. Visible[j].cancel
        BY <2>2, <3>8 DEF Show
      <4> QED
        BY <4>2, <4>3, Zenon DEF Lifecycle!Abort
    <3> QED
      BY <2>4, <3>1, <3>2, <3>3, <3>4, <3>5, <3>6, <3>7, <3>8, Zenon DEF Moves
  <2> QED
    BY <2>5, Zenon DEF Lifecycle!LifecycleNext, Lifecycle!lifecycleVars
<1> QED
  BY <1>1, <1>2, StepShape, Zenon

(* The repository implements the job API's life cycle: clients see every job  *)
(* go through legal states only, a cancellation is final, and a job's event   *)
(* appears together with its terminal state and never changes.                *)
THEOREM LifecycleCorrect == Spec => ImplementsLifecycle
BY LifecycleInit, LifecycleStep, RowsInvariant, PTL
   DEF Spec, ImplementsLifecycle, Lifecycle!Spec

=============================================================================
