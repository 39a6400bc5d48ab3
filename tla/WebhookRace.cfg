\* Two workers compete for one event: crashes, lost answers, skewed and stale clocks.
SPECIFICATION Spec
CONSTANTS
    Events = {1}
    Tenants = {1}
    Workers = {w1, w2}
    Owner <- OneOwner
    RowLocks <- NoLocks
    MaximumAttempts = 2
    LeaseDuration = 3
    DeliveryWindow = 5
    Retention = 1
    SweepLimit = 1
    MaxTime = 6
    MaxClockLag = 1
    LastInsert = 0
    RequestTimeout = 2
    BaseRetryDelay = 2
    MaximumRetryDelay = 3
    MaximumRetryAfter = 3
    Responses <- FewResponses
    RetryAfters <- NoRetryAfter
    DurationLimit = 6
    MaxSkew = 1
CHECK_DEADLOCK FALSE
SYMMETRY WorkerSymmetry
INVARIANTS
    OneRequestInFlight
    DeliveredWasAccepted
    AttemptsBounded
PROPERTIES
    EndedIsFinal
