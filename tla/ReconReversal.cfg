SPECIFICATION FairSpec
CONSTANTS
    t1 = t1
    t2 = t2
    t3 = t3
    alice = alice
    v1 = v1
    v2 = v2
    Settlement = settlement
    Suspense = suspense
    NoVA = NoVA
    NoEvent = NoEvent
    Worker = worker
    Customers = {alice}
    VAs = {v1}
    TxIds = {t1, t2, t3}
    Sweeps = {}
    Owner <- MCOwner
    Events <- WorkerEvents
    Collections = {}
    Request <- NoRequest
    QueueSize = 2
    StatusUpdates = {"SUSPENDED"}
    MaxBalance <- NoLimit
    DailyCredit <- NoLimit
    OccurredOn <- OneDay
    MaxDay = 0
    TenantlessLookup = FALSE
    MaxCrashes = 0
    MaxFaults = 0
PROPERTY
    ReversalFollowsOriginal
CHECK_DEADLOCK FALSE
