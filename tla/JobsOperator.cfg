\* One tenant that is disabled and re-enabled and whose policy is tightened and
\* relaxed while its two jobs, one of them large, are queued or running.
SPECIFICATION Spec
CONSTANTS
    Tenants = {1}
    Jobs = {1, 2}
    Workers = {w1}
    TenantOf <- OneTenant
    Cost <- MixedCost
    Size <- LargeFirst
    HasCallback = {1, 2}
    Policies <- ChangingPolicies
    Results <- AllResults
    OperatorStatus = {"ACTIVE", "DISABLED"}
    Failures <- AllFailures
    TenantLocks <- NoLocks
    JobLocks <- NoLocks
    DayLength = 2
    LeaseDuration = 1
    RetryDelay = 1
    MaxTime = 3
    MaxClockLag = 0
    MaxAttemptNo = 2
CHECK_DEADLOCK FALSE
INVARIANTS
    LedgerBalanced
    LeaseMatchesStatus
    CancelHonoured
    EventMatchesJob
PROPERTIES
    TerminalIsFinal
    ImplementsLifecycle
