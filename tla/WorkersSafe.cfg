\* Two workers compete for one job: crashes, lost leases, late settlements, stale
\* transaction clocks and cancellations in every order.
SPECIFICATION WorkerSpec
CONSTANTS
    Tenants = {1}
    Jobs = {1}
    Workers = {w1, w2}
    TenantOf <- OneTenant
    Cost <- UnitSize
    Size <- LargeFirst
    HasCallback = {1}
    Policies <- TightenedPolicy
    Results <- WorkerResults
    OperatorStatus = {"DISABLED"}
    Failures <- WorkerFailures
    TenantLocks <- NoLocks
    JobLocks <- NoLocks
    DayLength = 2
    LeaseDuration = 2
    RetryDelay = 1
    MaxTime = 3
    MaxClockLag = 1
    MaxAttemptNo = 2
    MaxBeats = 1
    LastSubmit = 3
SYMMETRY WorkerSymmetry
INVARIANTS
    WorkerTypeOK
    AttemptFences
PROPERTIES
    PlaceholderDiscarded
CHECK_DEADLOCK FALSE
