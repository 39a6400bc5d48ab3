\* One worker that may crash at every attempt; two events of one tenant.
SPECIFICATION FairSpec
CONSTANTS
    Events = {1, 2}
    Tenants = {1}
    Workers = {w1}
    Owner <- OneOwner
    RowLocks <- NoLocks
    MaximumAttempts = 2
    LeaseDuration = 2
    DeliveryWindow = 3
    Retention = 1
    SweepLimit = 1
    MaxTime = 5
    MaxClockLag = 0
    LastInsert = 0
    RequestTimeout = 1
    BaseRetryDelay = 2
    MaximumRetryDelay = 3
    MaximumRetryAfter = 3
    Responses <- TwoResponses
    RetryAfters <- NoRetryAfter
    DurationLimit = 6
    MaxSkew = 0
CHECK_DEADLOCK FALSE
PROPERTIES
    EveryEventEnds
