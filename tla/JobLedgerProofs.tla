---------------------------- MODULE JobLedgerProofs ----------------------------
(***************************************************************************)
(* The daily execution budget of JobRepository, for every value of the     *)
(* constants.                                                              *)
(***************************************************************************)
EXTENDS JobRepositoryProofs

(* No day of the ledger book is overbooked. *)
Within(book) ==
    \A t \in Tenants, d \in Days :
        \E p \in Policies : book[t][d].reserved + book[t][d].consumed <= p.daily

(* Settling a reservation never raises what is booked on its day, because the *)
(* charge is capped by the reservation.                                       *)
LEMMA ReleaseWithin ==
    ASSUME TypeOK, Within(ledger), NEW j \in Jobs, NEW n \in AttemptNos, Releasable(j, n),
           NEW used \in 0 .. attempt[j][n].reserved
    PROVE  Within(Release(j, n, used))
<1> DEFINE t == TenantOf[j]
           d == attempt[j][n].day
           held == attempt[j][n].reserved
           booked == ledger[t][d].reserved
           spent == ledger[t][d].consumed
           e == [reserved |-> booked - held, consumed |-> spent + used]
<1>1. t \in Tenants /\ d \in Days /\ held \in Nat
  BY RowTypes, Zenon
<1>2. booked \in Nat /\ spent \in Nat
  BY <1>1, RowTypes, Zenon
<1>3. Release(j, n, used) = [ledger EXCEPT ![t][d] = e]
  BY Zenon DEF Release
<1>4. ledger \in [Tenants -> [Days -> Entry]]
  BY Zenon DEF TypeOK, Entry
<1>5. PICK p \in Policies : booked + spent <= p.daily
  BY <1>1, Zenon DEF Within
<1>6. p.daily \in Nat
  BY PolicyAssumption, Zenon DEF Policy
<1>7. used \in Nat /\ used <= held
  BY <1>1
<1>8. e.reserved + e.consumed <= p.daily
  <2> HIDE DEF t, d, held, booked, spent
  <2> QED
    BY <1>1, <1>2, <1>5, <1>6, <1>7
<1> HIDE DEF t, d, e
<1>9. \A x \in Tenants, y \in Days :
         Release(j, n, used)[x][y] = IF x = t /\ y = d THEN e ELSE ledger[x][y]
  BY <1>1, <1>3, <1>4, TableValue
<1> QED
  BY <1>8, <1>9, Zenon DEF Within

(* A reservation that reserveDailyExecution finds to fit stays within the     *)
(* limit it was checked against.                                              *)
LEMMA ReserveWithin ==
    ASSUME TypeOK, NEW book \in LedgerType, Within(book), NEW j \in Jobs, NEW d \in Days,
           ReservationFits(book, j, d)
    PROVE  Within(Reserve(book, j, d))
<1> DEFINE t == TenantOf[j]
           cost == Cost[j]
           p == PolicyOf(j)
           limit == p.daily
           booked == book[t][d].reserved
           spent == book[t][d].consumed
           e == [book[t][d] EXCEPT !.reserved = @ + cost]
<1>1. t \in Tenants /\ cost \in Nat
  BY JobsAssumption, Zenon
<1>2. p \in Policies /\ limit \in Nat
  <2>1. p \in Policies
    BY <1>1, RowTypes, Zenon DEF PolicyOf
  <2> QED
    BY <2>1, PolicyAssumption, Zenon DEF Policy
<1>3. book[t][d] \in Entry
  BY <1>1, Zenon DEF LedgerType
<1>4. booked \in Nat /\ spent \in Nat
  BY <1>3, Zenon DEF Entry
<1>5. ~(spent > limit - cost \/ booked > (limit - cost) - spent)
  BY Zenon DEF ReservationFits
<1>6. e.reserved = booked + cost /\ e.consumed = spent
  BY <1>3, Zenon DEF Entry
<1>7. Reserve(book, j, d) = [book EXCEPT ![t][d] = e]
  BY Zenon DEF Reserve
<1>8. (booked + cost) + spent <= limit
  <2> HIDE DEF t, cost, limit, booked, spent
  <2> QED
    BY <1>1, <1>2, <1>4, <1>5
<1>9. e.reserved + e.consumed <= p.daily
  BY <1>6, <1>8, Zenon
<1> HIDE DEF t, p, e
<1>10. \A x \in Tenants, y \in Days :
          Reserve(book, j, d)[x][y] = IF x = t /\ y = d THEN e ELSE book[x][y]
  BY <1>1, <1>7, TableValue DEF LedgerType
<1> QED
  BY <1>2, <1>9, <1>10 DEF Within

(* No step overbooks a day. *)
LEMMA BudgetStep == RowInv /\ DailyBudget /\ [Next]_vars => DailyBudget'
<1> SUFFICES ASSUME RowInv, Within(ledger), [Next]_vars PROVE Within(ledger')
  BY Zenon DEF DailyBudget, Within
<1>0. TypeOK /\ ledger \in LedgerType
  BY Zenon DEF RowInv, TypeOK, LedgerType, Entry
<1>1. CASE Quiet
  BY <1>1, Zenon DEF Quiet
<1>2. ASSUME NEW j \in Jobs, Touches(j) PROVE Within(ledger')
  <2> DEFINE n == job[j].attempt
  <2>1. job[j].status = "RUNNING" => n \in AttemptNos
    BY Zenon DEF RowInv, RowOK
  <2>2. CASE RowOnly(j)
    BY <2>2, Zenon DEF RowOnly
  <2>3. CASE SettlesAttempt(j)
    <3>1. PICK used \in 0 .. attempt[j][n].reserved : ledger' = Release(j, n, used)
      BY <2>3, Zenon DEF SettlesAttempt
    <3>2. n \in AttemptNos /\ Releasable(j, n)
      BY <2>1, <2>3, Zenon DEF SettlesAttempt
    <3> HIDE DEF n
    <3> QED
      BY <1>0, <3>1, <3>2, ReleaseWithin, Zenon
  <2>4. CASE ClaimsAttempt(j)
    <3>1. PICK c \in Times :
             ReservationFits(ledger, j, Day(c)) /\ ledger' = Reserve(ledger, j, Day(c))
      BY <2>4, Zenon DEF ClaimsAttempt
    <3> QED
      BY <1>0, <3>1, DayType, ReserveWithin, Zenon
  <2>5. CASE TakesOver(j)
    <3> DEFINE book == Release(j, n, 0)
    <3>1. PICK c \in Times :
             ReservationFits(book, j, Day(c)) /\ ledger' = Reserve(book, j, Day(c))
      BY <2>5, Zenon DEF TakesOver
    <3>2. n \in AttemptNos /\ Releasable(j, n)
      BY <2>1, <2>5, Zenon DEF TakesOver
    <3> HIDE DEF n
    <3>3. 0 \in 0 .. attempt[j][n].reserved
      BY <1>0, <3>2, RowTypes
    <3>4. book \in LedgerType /\ Within(book)
      BY <1>0, <3>2, <3>3, ReleaseType, ReleaseWithin, Zenon
    <3> HIDE DEF book
    <3> QED
      BY <1>0, <3>1, <3>4, DayType, ReserveWithin, Zenon
  <2> QED
    BY <1>2, <2>2, <2>3, <2>4, <2>5, Zenon DEF Touches
<1> QED
  BY <1>1, <1>2, StepShape, Zenon

(* No accounting day is ever overbooked: reservations plus consumption stay   *)
(* within a daily limit of an installed policy, through takeovers, refunds,   *)
(* late settlements and stale clocks, for any number of tenants and workers.  *)
THEOREM BudgetCorrect == Spec => []DailyBudget
<1>1. Init => DailyBudget
  <2> SUFFICES ASSUME Init, NEW t \in Tenants, NEW d \in Days
               PROVE  \E p \in Policies :
                         ledger[t][d].reserved + ledger[t][d].consumed <= p.daily
    BY Zenon DEF DailyBudget
  <2>1. tenant[t].policy \in Policies
    BY InitTypeOK, RowTypes, Zenon
  <2>2. tenant[t].policy.daily \in Nat
    BY <2>1, PolicyAssumption, Zenon DEF Policy
  <2>3. ledger[t][d].reserved = 0 /\ ledger[t][d].consumed = 0
    BY Zenon DEF Init
  <2> QED
    BY <2>1, <2>2, <2>3
<1> QED
  BY <1>1, RowsInvariant, BudgetStep, PTL DEF Spec

=============================================================================
