\* One tenant with three jobs, of which one may wait and one may run, while other
\* transactions may hold any of the job rows.
SPECIFICATION Spec
CONSTANTS
    Tenants = {1}
    Jobs = {1, 2, 3}
    Workers = {w1}
    TenantOf <- OneTenant
    Cost <- UnitCost
    Size <- UnitCost
    HasCallback = {}
    Policies <- NarrowPolicy
    Results <- OneResult
    OperatorStatus = {}
    Failures <- AllFailures
    TenantLocks <- NoLocks
    JobLocks <- AnyJobLocks
    DayLength = 2
    LeaseDuration = 1
    RetryDelay = 1
    MaxTime = 2
    MaxClockLag = 0
    MaxAttemptNo = 3
CHECK_DEADLOCK FALSE
INVARIANTS
    RunningWithinLimit
    BacklogBounded
    TriesBounded
