\* One worker, one event, every kind of answer.
SPECIFICATION Spec
CONSTANTS
    Events = {1}
    Tenants = {1}
    Workers = {w1}
    Owner <- OneOwner
    RowLocks <- NoLocks
    MaximumAttempts = 3
    LeaseDuration = 2
    DeliveryWindow = 6
    Retention = 1
    SweepLimit = 1
    MaxTime = 7
    MaxClockLag = 0
    LastInsert = 0
    RequestTimeout = 1
    BaseRetryDelay = 2
    MaximumRetryDelay = 3
    MaximumRetryAfter = 3
    Responses <- AllResponses
    RetryAfters <- AllRetryAfters
    DurationLimit = 6
    MaxSkew = 0
CHECK_DEADLOCK FALSE
INVARIANTS
    TypeOK
    SettlementsAccepted
