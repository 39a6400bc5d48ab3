-------------------------- MODULE JobRepositoryProofs --------------------------
(***************************************************************************)
(* The theorems about JobRepository, for every value of its constants.     *)
(***************************************************************************)
EXTENDS JobRepositorySteps

-----------------------------------------------------------------------------
(* What follows for the job rows. *)

(* The initial rows are good. *)
LEMMA InitRowInv == Init => RowInv
BY InitTypeOK DEF Init, RowInv, RowOK, NoJob, NoLease

(* RowInv holds in every reachable state. *)
LEMMA RowsInvariant == Spec => []RowInv
BY InitRowInv, RowStep, PTL DEF Spec

(* Every row of the five tables has the type its columns declare: the         *)
(* transactions write only such rows, whatever the constants.                 *)
THEOREM TypeCorrect == Spec => []TypeOK
<1>1. RowInv => TypeOK
  BY Zenon DEF RowInv
<1> QED
  BY <1>1, RowsInvariant, PTL

(* A job is leased exactly while it is RUNNING, and no requeue or deferral    *)
(* brings a cancelled job back into the queue.                                *)
THEOREM LeaseCorrect == Spec => []LeaseMatchesStatus
<1>1. RowInv => LeaseMatchesStatus
  BY Zenon DEF RowInv, RowOK, LeaseMatchesStatus
<1> QED
  BY <1>1, RowsInvariant, PTL

(* A cancellation is never lost to a racing completion, failure or takeover:  *)
(* the job ends CANCELLED without a result, or FAILED with TENANT_DISABLED.   *)
THEOREM CancelCorrect == Spec => []CancelHonoured
<1>1. RowInv => CancelHonoured
  <2> SUFFICES ASSUME RowInv, NEW j \in Jobs, job[j].cancel, job[j].status \in Terminal
               PROVE  /\ job[j].result = NoResult
                      /\ \/ job[j].status = "CANCELLED"
                         \/ job[j].status = "FAILED" /\ job[j].failure = "TENANT_DISABLED"
    BY Zenon DEF CancelHonoured
  <2> QED
    BY Zenon DEF RowInv, RowOK, Terminal
<1> QED
  BY <1>1, RowsInvariant, PTL

(* Every step keeps the outbox in line with the terminal jobs. *)
LEMMA EventStep == RowInv /\ EventMatchesJob /\ [Next]_vars => EventMatchesJob'
<1> SUFFICES ASSUME RowInv, EventMatchesJob, [Next]_vars PROVE EventMatchesJob'
  BY Zenon
<1>1. CASE Quiet
  BY <1>1, Zenon DEF Quiet, EventMatchesJob
<1>2. ASSUME NEW j \in Jobs, Touches(j) PROVE EventMatchesJob'
  <2>1. job[j].status \notin Terminal
    BY <1>2, Zenon DEF Touches, Moves, Terminal
  <2>2. job \in [Jobs -> JobRow] /\ outbox \in [Jobs -> Event]
    BY Zenon DEF RowInv, TypeOK
  <2>3. ASSUME NEW k \in Jobs \ {j} PROVE outbox'[k] = outbox[k] /\ Same(job[k], job'[k])
    BY <1>2, <2>2, Zenon DEF Touches, Publishes, Beside
  <2>4. ASSUME NEW k \in Jobs \ {j}
        PROVE  outbox'[k] = IF job'[k].status \in Terminal /\ k \in HasCallback
                            THEN EventOf(job'[k]) ELSE NoEvent
    <3>1. /\ job'[k].status = job[k].status /\ job'[k].result = job[k].result
          /\ job'[k].failure = job[k].failure
      BY <2>2, <2>3, SameColumns, Zenon
    <3> QED
      BY <2>3, <3>1, Zenon DEF EventMatchesJob, EventOf
  <2>5. outbox'[j] = IF job'[j].status \in Terminal /\ j \in HasCallback
                     THEN EventOf(job'[j]) ELSE NoEvent
    <3>1. outbox[j] = NoEvent
      BY <2>1, Zenon DEF EventMatchesJob
    <3> QED
      BY <1>2, <2>2, <3>1, Zenon DEF Touches, Publishes
  <2> QED
    BY <2>4, <2>5, Zenon DEF EventMatchesJob, EventOf
<1> QED
  BY <1>1, <1>2, StepShape, Zenon

(* Transactional outbox: a job with a callback has an event exactly when it   *)
(* is terminal, and the event carries the job's own outcome.                  *)
THEOREM EventCorrect == Spec => []EventMatchesJob
<1>1. Init => EventMatchesJob
  BY DEF Init, EventMatchesJob, NoJob, Terminal
<1> QED
  BY <1>1, RowsInvariant, EventStep, PTL DEF Spec

-----------------------------------------------------------------------------
(* The attempts. *)

(* Finishing an attempt changes that attempt's row and no other. *)
LEMMA FinishValue ==
    ASSUME TypeOK, NEW j \in Jobs, NEW n \in AttemptNos, NEW status, NEW used
    PROVE  /\ \A k \in Jobs, m \in AttemptNos :
                 ~(k = j /\ m = n) => FinishAttempt(j, n, status, used)[k][m] = attempt[k][m]
           /\ FinishAttempt(j, n, status, used)[j][n].status = status
           /\ FinishAttempt(j, n, status, used)[j][n].reserved = 0
<1> DEFINE r == [attempt[j][n] EXCEPT !.status = status, !.reserved = 0, !.consumed = used]
<1>1. attempt \in [Jobs -> [AttemptNos -> AttemptRow]]
  BY Zenon DEF TypeOK
<1>2. FinishAttempt(j, n, status, used) = [attempt EXCEPT ![j][n] = r]
  BY Zenon DEF FinishAttempt
<1> HIDE DEF r
<1>3. \A k \in Jobs, m \in AttemptNos :
         [attempt EXCEPT ![j][n] = r][k][m] = IF k = j /\ m = n THEN r ELSE attempt[k][m]
  BY <1>1, TableValue
<1>4. r.status = status /\ r.reserved = 0
  BY RowTypes, Zenon DEF r, AttemptRow
<1> QED
  BY <1>2, <1>3, <1>4

(* The rows of the attempts after a step that moves job j. *)
LEMMA TouchedAttempts ==
    ASSUME RowInv, NEW j \in Jobs, Touches(j)
    PROVE  /\ \A k \in Jobs \ {j}, m \in AttemptNos : attempt'[k][m] = attempt[k][m]
           /\ LET n == job[j].attempt
              IN  \/ RowOnly(j)
                  \/ /\ SettlesAttempt(j)
                     /\ n \in AttemptNos
                     /\ attempt'[j][n].status \notin {"NONE", "RUNNING"}
                     /\ attempt'[j][n].reserved = 0
                     /\ \A m \in AttemptNos \ {n} : attempt'[j][m] = attempt[j][m]
                  \/ /\ ClaimsAttempt(j)
                     /\ n + 1 \in AttemptNos
                     /\ attempt'[j][n + 1].status = "RUNNING"
                     /\ attempt'[j][n + 1].worker = job'[j].worker
                     /\ attempt'[j][n + 1].reserved = Cost[j]
                     /\ \A m \in AttemptNos \ {n + 1} : attempt'[j][m] = attempt[j][m]
                  \/ /\ TakesOver(j)
                     /\ n \in AttemptNos /\ n + 1 \in AttemptNos
                     /\ attempt'[j][n].status = "EXPIRED"
                     /\ attempt'[j][n].reserved = 0
                     /\ attempt'[j][n + 1].status = "RUNNING"
                     /\ attempt'[j][n + 1].worker = job'[j].worker
                     /\ attempt'[j][n + 1].reserved = Cost[j]
                     /\ \A m \in AttemptNos \ {n, n + 1} : attempt'[j][m] = attempt[j][m]
<1> DEFINE n == job[j].attempt
<1>0. TypeOK /\ attempt \in AttemptType
  BY Zenon DEF RowInv, TypeOK, AttemptType
<1>1. CASE RowOnly(j)
  BY <1>1, Zenon DEF RowOnly
<1>2. CASE SettlesAttempt(j)
  <2>1. n \in AttemptNos
    BY <1>2, Zenon DEF SettlesAttempt, RowInv, RowOK
  <2>2. PICK status \in AttemptStatus \ {"NONE", "RUNNING"}, used \in 0 .. attempt[j][n].reserved :
           attempt' = FinishAttempt(j, n, status, used)
    BY <1>2, Zenon DEF SettlesAttempt
  <2> HIDE DEF n
  <2>4. \A k \in Jobs, m \in AttemptNos :
           ~(k = j /\ m = n) => attempt'[k][m] = attempt[k][m]
    BY <1>0, <2>1, <2>2, FinishValue
  <2>5. attempt'[j][n].status = status /\ attempt'[j][n].reserved = 0
    BY <1>0, <2>1, <2>2, FinishValue
  <2>6. attempt'[j][n].status \notin {"NONE", "RUNNING"}
    BY <2>2, <2>5, Zenon
  <2>7. /\ \A k \in Jobs \ {j}, m \in AttemptNos : attempt'[k][m] = attempt[k][m]
        /\ \A m \in AttemptNos \ {n} : attempt'[j][m] = attempt[j][m]
    BY <2>4, Zenon
  <2> QED
    BY <1>2, <2>1, <2>5, <2>6, <2>7, Zenon DEF n
<1>3. CASE ClaimsAttempt(j)
  <2>1. PICK c \in Times, w \in Workers :
           Opens(j, n, w) /\ attempt' = [attempt EXCEPT ![j][n + 1] = ClaimedAttempt(j, c, w)]
    BY <1>3, Zenon DEF ClaimsAttempt
  <2> DEFINE new == ClaimedAttempt(j, c, w)
  <2>2. new.status = "RUNNING" /\ new.worker = job'[j].worker /\ new.reserved = Cost[j]
    BY <2>1, Zenon DEF ClaimedAttempt, Opens
  <2>3. n + 1 \in AttemptNos /\ attempt' = [attempt EXCEPT ![j][n + 1] = new]
    BY <2>1, Zenon DEF Opens
  <2> HIDE DEF new, n
  <2>4. \A k \in Jobs, m \in AttemptNos :
           attempt'[k][m] = IF k = j /\ m = n + 1 THEN new ELSE attempt[k][m]
    BY <1>0, <2>3, TableValue DEF AttemptType
  <2> QED
    BY <1>3, <2>2, <2>3, <2>4 DEF n
<1>4. CASE TakesOver(j)
  <2>1. n \in AttemptNos
    BY <1>4, Zenon DEF TakesOver, RowInv, RowOK
  <2>2. PICK c \in Times, w \in Workers :
           /\ Opens(j, n, w)
           /\ attempt' = [FinishAttempt(j, n, "EXPIRED", 0)
                             EXCEPT ![j][n + 1] = ClaimedAttempt(j, c, w)]
    BY <1>4, Zenon DEF TakesOver
  <2> DEFINE new == ClaimedAttempt(j, c, w)
             old == FinishAttempt(j, n, "EXPIRED", 0)
  <2>3. new.status = "RUNNING" /\ new.worker = job'[j].worker /\ new.reserved = Cost[j]
    BY <2>2, Zenon DEF ClaimedAttempt, Opens
  <2>4. n + 1 \in AttemptNos /\ attempt' = [old EXCEPT ![j][n + 1] = new]
    BY <2>2, Zenon DEF Opens
  <2>5. old \in AttemptType
    BY <1>0, <2>1, FinishType, Zenon DEF AttemptStatus
  <2> HIDE DEF n
  <2>6. \A k \in Jobs, m \in AttemptNos :
           ~(k = j /\ m = n) => old[k][m] = attempt[k][m]
    BY <1>0, <2>1, FinishValue
  <2>8. old[j][n].status = "EXPIRED" /\ old[j][n].reserved = 0
    BY <1>0, <2>1, FinishValue
  <2>9. n \in Int
    BY <2>1, ClockAssumption DEF AttemptNos
  <2> HIDE DEF new, old
  <2>10. \A k \in Jobs, m \in AttemptNos :
            attempt'[k][m] = IF k = j /\ m = n + 1 THEN new ELSE old[k][m]
    BY <2>4, <2>5, TableValue DEF AttemptType
  <2>11. n # n + 1
    BY <2>9
  <2>12. /\ \A k \in Jobs \ {j}, m \in AttemptNos : attempt'[k][m] = attempt[k][m]
         /\ \A m \in AttemptNos \ {n, n + 1} : attempt'[j][m] = attempt[j][m]
    BY <2>6, <2>10
  <2>13. attempt'[j][n].status = "EXPIRED" /\ attempt'[j][n].reserved = 0
    BY <2>1, <2>8, <2>10, <2>11, Zenon
  <2>14. attempt'[j][n + 1] = new
    BY <2>4, <2>10, Zenon
  <2> QED
    BY <1>4, <2>1, <2>3, <2>4, <2>12, <2>13, <2>14, Zenon DEF n
<1> QED
  BY <1>1, <1>2, <1>3, <1>4, Zenon DEF Touches

(* What the untouched jobs keep. *)
LEMMA BesideColumns ==
    ASSUME RowInv, NEW j \in Jobs, Touches(j), NEW k \in Jobs \ {j}
    PROVE  /\ job'[k].status = job[k].status /\ job'[k].attempt = job[k].attempt
           /\ job'[k].worker = job[k].worker /\ job'[k].cancel = job[k].cancel
           /\ job'[k].result = job[k].result /\ job'[k].failure = job[k].failure
<1>1. job[k] \in JobRow /\ Same(job[k], job'[k])
  BY Zenon DEF RowInv, TypeOK, Touches, Beside
<1> QED
  BY <1>1, SameColumns

(* OneRunningAttempt for one attempt of one job. *)
AttemptOK(row, top, status, worker, n, cost) ==
    /\ row.status # "NONE" <=> n <= top
    /\ row.status = "RUNNING" <=> status = "RUNNING" /\ n = top
    /\ row.status = "RUNNING" => row.worker = worker /\ row.reserved = cost
    /\ row.status # "RUNNING" => row.reserved = 0

(* Every step keeps at most one attempt of a job running. *)
LEMMA AttemptStep == RowInv /\ OneRunningAttempt /\ [Next]_vars => OneRunningAttempt'
<1> SUFFICES ASSUME RowInv, OneRunningAttempt, [Next]_vars PROVE OneRunningAttempt'
  BY Zenon
<1>0. \A k \in Jobs, m \in AttemptNos :
         AttemptOK(attempt[k][m], job[k].attempt, job[k].status, job[k].worker, m, Cost[k])
  BY Zenon DEF OneRunningAttempt, AttemptOK
<1>1. CASE Quiet
  BY <1>1, Zenon DEF Quiet, OneRunningAttempt
<1>2. ASSUME NEW j \in Jobs, Touches(j) PROVE OneRunningAttempt'
  <2> SUFFICES ASSUME NEW k \in Jobs, NEW m \in AttemptNos
               PROVE  AttemptOK(attempt'[k][m], job'[k].attempt, job'[k].status,
                                job'[k].worker, m, Cost[k])
    BY Zenon DEF OneRunningAttempt, AttemptOK
  <2>1. CASE k # j
    <3>1. attempt'[k][m] = attempt[k][m]
      BY <1>2, <2>1, TouchedAttempts
    <3>2. /\ job'[k].status = job[k].status /\ job'[k].attempt = job[k].attempt
          /\ job'[k].worker = job[k].worker
      BY <1>2, <2>1, BesideColumns, Zenon
    <3> QED
      BY <1>0, <3>1, <3>2, Zenon
  <2>2. CASE k = j
    <3> DEFINE n == job[j].attempt
    <3>1. n \in Int /\ m \in Int
      <4>1. job[j] \in JobRow
        BY Zenon DEF RowInv, TypeOK
      <4> QED
        BY <4>1, ClockAssumption DEF JobRow, AttemptNos
    <3>2. AttemptOK(attempt[j][m], n, job[j].status, job[j].worker, m, Cost[j])
      BY <1>0, Zenon
    <3>3. CASE RowOnly(j)
      BY <2>2, <3>2, <3>3, Zenon DEF RowOnly, AttemptOK
    <3>4. CASE /\ SettlesAttempt(j)
               /\ n \in AttemptNos
               /\ attempt'[j][n].status \notin {"NONE", "RUNNING"}
               /\ attempt'[j][n].reserved = 0
               /\ \A i \in AttemptNos \ {n} : attempt'[j][i] = attempt[j][i]
      <4>1. /\ job[j].status = "RUNNING" /\ job'[j].status # "RUNNING"
            /\ job'[j].attempt = n
        BY <3>4, Zenon DEF SettlesAttempt
      <4>2. CASE m = n
        BY <2>2, <3>1, <3>4, <4>1, <4>2 DEF AttemptOK
      <4>3. CASE m # n
        BY <2>2, <3>1, <3>2, <3>4, <4>1, <4>3, Zenon DEF AttemptOK
      <4> QED
        BY <4>2, <4>3, Zenon
    <3>5. CASE /\ ClaimsAttempt(j)
               /\ n + 1 \in AttemptNos
               /\ attempt'[j][n + 1].status = "RUNNING"
               /\ attempt'[j][n + 1].worker = job'[j].worker
               /\ attempt'[j][n + 1].reserved = Cost[j]
               /\ \A i \in AttemptNos \ {n + 1} : attempt'[j][i] = attempt[j][i]
      <4>1. /\ job[j].status = "QUEUED" /\ job'[j].status = "RUNNING"
            /\ job'[j].attempt = n + 1
        BY <3>5, Zenon DEF ClaimsAttempt, Opens
      <4>2. CASE m = n + 1
        <5>1. m <= n + 1
          BY <3>1, <4>2
        <5>2. /\ attempt'[j][m].status = "RUNNING"
              /\ attempt'[j][m].worker = job'[j].worker
              /\ attempt'[j][m].reserved = Cost[j]
          BY <3>5, <4>2, Zenon
        <5> QED
          BY <2>2, <4>1, <4>2, <5>1, <5>2, Zenon DEF AttemptOK
      <4>3. CASE m # n + 1
        BY <2>2, <3>1, <3>2, <3>5, <4>1, <4>3 DEF AttemptOK
      <4> QED
        BY <4>2, <4>3, Zenon
    <3>6. CASE /\ TakesOver(j)
               /\ n \in AttemptNos /\ n + 1 \in AttemptNos
               /\ attempt'[j][n].status = "EXPIRED"
               /\ attempt'[j][n].reserved = 0
               /\ attempt'[j][n + 1].status = "RUNNING"
               /\ attempt'[j][n + 1].worker = job'[j].worker
               /\ attempt'[j][n + 1].reserved = Cost[j]
               /\ \A i \in AttemptNos \ {n, n + 1} : attempt'[j][i] = attempt[j][i]
      <4>1. /\ job[j].status = "RUNNING" /\ job'[j].status = "RUNNING"
            /\ job'[j].attempt = n + 1
        BY <3>6, Zenon DEF TakesOver, Opens
      <4>2. CASE m = n
        <5>1. m <= n + 1 /\ m # n + 1
          BY <3>1, <4>2
        <5>2. attempt'[j][m].status = "EXPIRED" /\ attempt'[j][m].reserved = 0
          BY <3>6, <4>2, Zenon
        <5> QED
          BY <2>2, <4>1, <5>1, <5>2, Zenon DEF AttemptOK
      <4>3. CASE m = n + 1
        <5>1. m <= n + 1
          BY <3>1, <4>3
        <5>2. /\ attempt'[j][m].status = "RUNNING"
              /\ attempt'[j][m].worker = job'[j].worker
              /\ attempt'[j][m].reserved = Cost[j]
          BY <3>6, <4>3, Zenon
        <5> QED
          BY <2>2, <4>1, <4>3, <5>1, <5>2, Zenon DEF AttemptOK
      <4>4. CASE m # n /\ m # n + 1
        BY <2>2, <3>1, <3>2, <3>6, <4>1, <4>4 DEF AttemptOK
      <4> QED
        BY <4>2, <4>3, <4>4, Zenon
    <3> QED
      BY <1>2, <3>3, <3>4, <3>5, <3>6, TouchedAttempts, Zenon
  <2> QED
    BY <2>1, <2>2, Zenon
<1> QED
  BY <1>1, <1>2, StepShape, Zenon

(* The attempts invariant holds in every reachable state.  A RUNNING job has  *)
(* exactly one RUNNING attempt, the one attempt_no names, with the same       *)
(* worker and the whole reservation; all earlier attempts are finished.       *)
THEOREM AttemptCorrect == Spec => []OneRunningAttempt
<1>1. Init => OneRunningAttempt
  BY ClockAssumption DEF Init, OneRunningAttempt, NoJob, NoAttempt, AttemptNos
<1> QED
  BY <1>1, RowsInvariant, AttemptStep, PTL DEF Spec

-----------------------------------------------------------------------------
(* What a step may never do. *)

(* No step changes a terminal job, its event or a finished attempt. *)
LEMMA FinalStep ==
    ASSUME RowInv, OneRunningAttempt, [Next]_vars, NEW k \in Jobs
    PROVE  /\ job[k].status \in Terminal => job'[k] = job[k] /\ outbox'[k] = outbox[k]
           /\ \A m \in AttemptNos :
                 attempt[k][m].status \notin {"NONE", "RUNNING"} => attempt'[k][m] = attempt[k][m]
<1>1. CASE Quiet
  BY <1>1, Zenon DEF Quiet
<1>2. ASSUME NEW j \in Jobs, Touches(j)
      PROVE  job[k].status \in Terminal => job'[k] = job[k] /\ outbox'[k] = outbox[k]
  <2>1. job[j].status \notin Terminal
    BY <1>2, Zenon DEF Touches, Moves, Terminal
  <2>2. outbox \in [Jobs -> Event]
    BY Zenon DEF RowInv, TypeOK
  <2>3. k # j => outbox'[k] = outbox[k]
    BY <1>2, <2>2, Zenon DEF Touches, Publishes
  <2>4. k # j /\ job[k].status # "QUEUED" => job'[k] = job[k]
    BY <1>2, Zenon DEF Touches, Beside
  <2> QED
    BY <2>1, <2>3, <2>4, Zenon DEF Terminal
<1>3. ASSUME NEW j \in Jobs, Touches(j), NEW m \in AttemptNos,
             attempt[k][m].status \notin {"NONE", "RUNNING"}
      PROVE  attempt'[k][m] = attempt[k][m]
  <2> DEFINE n == job[j].attempt
  <2>1. CASE k # j
    BY <1>3, <2>1, TouchedAttempts
  <2>2. CASE k = j
    <3>1. n \in Int /\ m \in Int
      <4>1. job[j] \in JobRow
        BY Zenon DEF RowInv, TypeOK
      <4> QED
        BY <4>1, ClockAssumption DEF JobRow, AttemptNos
    <3>2. m <= n /\ ~(job[j].status = "RUNNING" /\ m = n)
      BY <1>3, <2>2, Zenon DEF OneRunningAttempt
    <3>3. SettlesAttempt(j) \/ TakesOver(j) => m # n
      BY <3>2, Zenon DEF SettlesAttempt, TakesOver
    <3>4. m # n + 1
      BY <3>1, <3>2
    <3>5. RowOnly(j) => attempt' = attempt
      BY Zenon DEF RowOnly
    <3> QED
      BY <1>3, <2>2, <3>3, <3>4, <3>5, TouchedAttempts
  <2> QED
    BY <2>1, <2>2, Zenon
<1> QED
  BY <1>1, <1>2, <1>3, StepShape, Zenon

(* A terminal job, its event and its finished attempts never change again,    *)
(* whatever late claims, cancellations and takeovers still arrive.            *)
THEOREM TerminalCorrect == Spec => TerminalIsFinal
<1>1. RowInv /\ OneRunningAttempt /\ [Next]_vars =>
         [\A j \in Jobs :
             /\ job[j].status \in Terminal => job'[j] = job[j] /\ outbox'[j] = outbox[j]
             /\ \A n \in AttemptNos :
                   attempt[j][n].status \notin {"NONE", "RUNNING"} =>
                       attempt'[j][n] = attempt[j][n]]_vars
  BY FinalStep, Zenon
<1> QED
  BY <1>1, RowsInvariant, AttemptCorrect, PTL DEF Spec, TerminalIsFinal

(* An attempt is expired only when its job's lease has run out. *)
LEMMA LeaseStep ==
    ASSUME RowInv, OneRunningAttempt, [Next]_vars, NEW k \in Jobs, NEW m \in AttemptNos,
           attempt[k][m].status = "RUNNING", attempt'[k][m].status = "EXPIRED"
    PROVE  job[k].leaseUntil <= now
<1>1. ~Quiet
  BY Zenon DEF Quiet
<1>2. PICK j \in Jobs : Touches(j)
  BY <1>1, StepShape, Zenon
<1>3. k = j
  <2>1. \A i \in Jobs \ {j}, n \in AttemptNos : attempt'[i][n] = attempt[i][n]
    BY <1>2, TouchedAttempts, Zenon
  <2> QED
    BY <2>1, Zenon
<1>4. job[j].status = "RUNNING" /\ m = job[j].attempt
  BY <1>3, Zenon DEF OneRunningAttempt
<1>5. ~RowOnly(j) /\ ~ClaimsAttempt(j)
  BY <1>3, <1>4, Zenon DEF RowOnly, ClaimsAttempt
<1>6. CASE TakesOver(j)
  BY <1>3, <1>6, Zenon DEF TakesOver
<1>7. CASE SettlesAttempt(j)
  <2>1. PICK status, used :
           /\ attempt' = FinishAttempt(j, m, status, used)
           /\ status = "EXPIRED" => job[j].leaseUntil <= now
    BY <1>4, <1>7, Zenon DEF SettlesAttempt
  <2>2. attempt'[j][m].status = status
    BY <2>1, FinishValue DEF RowInv
  <2> QED
    BY <1>3, <2>1, <2>2, Zenon
<1> QED
  BY <1>2, <1>5, <1>6, <1>7, Zenon DEF Touches

(* A live lease is never taken away: an attempt is expired only when its      *)
(* lease has run out, however stale the clock of the claiming transaction is. *)
THEOREM LeaseSafety == Spec => LiveLeaseIsSafe
<1>1. RowInv /\ OneRunningAttempt /\ [Next]_vars =>
         [\A j \in Jobs, n \in AttemptNos :
             attempt[j][n].status = "RUNNING" /\ attempt'[j][n].status = "EXPIRED" =>
                 job[j].leaseUntil <= now]_vars
  BY LeaseStep, Zenon
<1> QED
  BY <1>1, RowsInvariant, AttemptCorrect, PTL DEF Spec, LiveLeaseIsSafe

(* A result is stored only by the live claim of the current attempt. *)
LEMMA PublishStep ==
    ASSUME RowInv, [Next]_vars, NEW k \in Jobs,
           job[k].status # "SUCCEEDED", job'[k].status = "SUCCEEDED"
    PROVE  /\ job[k].status = "RUNNING"
           /\ job[k].leaseUntil > now
           /\ ~job[k].cancel
           /\ attempt'[k][job[k].attempt].status = "SUCCEEDED"
<1>1. ~Quiet
  BY Zenon DEF Quiet
<1>2. PICK j \in Jobs : Touches(j)
  BY <1>1, StepShape, Zenon
<1>3. k = j
  BY <1>2, BesideColumns, Zenon
<1>4. job[j].status = "RUNNING"
  BY <1>2, <1>3, Zenon DEF Touches, Moves
<1>5. SettlesAttempt(j)
  BY <1>2, <1>3, <1>4, Zenon DEF Touches, RowOnly, ClaimsAttempt, TakesOver, Opens
<1>6. PICK status, used :
         /\ attempt' = FinishAttempt(j, job[j].attempt, status, used)
         /\ status = "SUCCEEDED" /\ job[j].leaseUntil > now /\ ~job[j].cancel
  BY <1>3, <1>5, Zenon DEF SettlesAttempt
<1>7. job[j].attempt \in AttemptNos
  BY <1>4, Zenon DEF RowInv, RowOK
<1>8. attempt'[j][job[j].attempt].status = "SUCCEEDED"
  BY <1>6, <1>7, FinishValue DEF RowInv
<1> QED
  BY <1>3, <1>4, <1>6, <1>8, Zenon

(* A result is published only by the current attempt, while its lease is      *)
(* alive and no cancellation was requested.                                   *)
THEOREM PublicationCorrect == Spec => PublishedByLiveClaim
<1>1. RowInv /\ [Next]_vars =>
         [\A j \in Jobs :
             job[j].status # "SUCCEEDED" /\ job'[j].status = "SUCCEEDED" =>
                 /\ job[j].status = "RUNNING"
                 /\ job[j].leaseUntil > now
                 /\ ~job[j].cancel
                 /\ attempt'[j][job[j].attempt].status = "SUCCEEDED"]_vars
  BY PublishStep, Zenon
<1> QED
  BY <1>1, RowsInvariant, PTL DEF Spec, PublishedByLiveClaim

=============================================================================
