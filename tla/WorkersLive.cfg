\* One worker that may crash; two jobs of one tenant share a daily limit.
SPECIFICATION PromptSpec
CONSTANTS
    Tenants = {1}
    Jobs = {1, 2}
    Workers = {w1}
    TenantOf <- OneTenant
    Cost <- MixedCost
    Size <- UnitSize
    HasCallback = {}
    Policies <- FixedPolicy
    Results <- OneResult
    OperatorStatus = {}
    Failures <- WorkerFailures
    TenantLocks <- NoLocks
    JobLocks <- NoLocks
    DayLength = 2
    LeaseDuration = 1
    RetryDelay = 1
    MaxTime = 7
    MaxClockLag = 0
    MaxAttemptNo = 2
    MaxBeats = 0
    LastSubmit = 0
PROPERTIES
    EveryJobEnds
    CancellationEnds
CHECK_DEADLOCK FALSE
