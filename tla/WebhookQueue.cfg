\* Two events of two tenants, any of their rows locked by others, and the sweep.
SPECIFICATION Spec
CONSTANTS
    Events = {1, 2}
    Tenants = {1, 2}
    Workers = {w1}
    Owner <- OwnOwner
    RowLocks <- AnyLocks
    MaximumAttempts = 2
    LeaseDuration = 2
    DeliveryWindow = 3
    Retention = 1
    SweepLimit = 1
    MaxTime = 5
    MaxClockLag = 0
    LastInsert = 0
    RequestTimeout = 1
    BaseRetryDelay = 2
    MaximumRetryDelay = 3
    MaximumRetryAfter = 3
    Responses <- TwoResponses
    RetryAfters <- NoRetryAfter
    DurationLimit = 6
    MaxSkew = 0
CHECK_DEADLOCK FALSE
INVARIANTS
    ScheduledBeforeExpiry
