SPECIFICATION SweptSpec
CONSTANTS
    t1 = t1
    t2 = t2
    t3 = t3
    alice = alice
    v1 = v1
    v2 = v2
    Settlement = settlement
    Suspense = suspense
    NoVA = NoVA
    NoEvent = NoEvent
    Worker = worker
    Customers = {alice}
    VAs = {v1}
    TxIds = {t1, t2}
    Sweeps = {s1}
    Owner <- MCOwner
    Events <- DropEvents
    Collections = {}
    Request <- NoRequest
    QueueSize = 1
    StatusUpdates = {}
    MaxBalance <- NoLimit
    DailyCredit <- NoLimit
    OccurredOn <- OneDay
    MaxDay = 0
    TenantlessLookup = FALSE
    MaxCrashes = 0
    MaxFaults = 0
PROPERTY
    DroppedEventsRecovered
CHECK_DEADLOCK FALSE
