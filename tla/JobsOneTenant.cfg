\* One tenant whose two jobs compete for the budgets of two days; settlements and
\* takeovers with stale clocks, and job rows locked by other transactions.
SPECIFICATION Spec
CONSTANTS
    Tenants = {1}
    Jobs = {1, 2}
    Workers = {w1}
    TenantOf <- OneTenant
    Cost <- MixedCost
    Size <- UnitCost
    HasCallback = {1}
    Policies <- WidePolicy
    Results <- AllResults
    OperatorStatus = {}
    Failures <- AllFailures
    TenantLocks <- NoLocks
    JobLocks <- AnyJobLocks
    DayLength = 2
    LeaseDuration = 1
    RetryDelay = 1
    MaxTime = 3
    MaxClockLag = 1
    MaxAttemptNo = 3
CHECK_DEADLOCK FALSE
INVARIANTS
    ChargeWithinReservation
    LedgerBalanced
    DailyBudget
    OneRunningAttempt
    NoLostWakeup
PROPERTIES
    LiveLeaseIsSafe
    PublishedByLiveClaim
