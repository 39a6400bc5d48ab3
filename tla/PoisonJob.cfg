\* Two tenants, one worker; an operator lowers a tenant's execution ceilings while
\* a job waits whose bundle was published under the old ones.
SPECIFICATION FairSpec
CONSTANTS
    Tenants = {1, 2}
    Jobs = {1, 2}
    Workers = {w1}
    TenantOf <- TwoTenants
    Cost <- UnitSize
    Size <- LargeFirst
    HasCallback = {}
    Policies <- TightenedPolicy
    Results <- OneResult
    OperatorStatus = {}
    Failures <- WorkerFailures
    TenantLocks <- NoLocks
    JobLocks <- NoLocks
    DayLength = 2
    LeaseDuration = 1
    RetryDelay = 0
    MaxTime = 1
    MaxClockLag = 0
    MaxAttemptNo = 2
    MaxBeats = 0
    LastSubmit = 0
PROPERTIES
    OversizedJobEnds
CHECK_DEADLOCK FALSE
