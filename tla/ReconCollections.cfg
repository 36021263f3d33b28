SPECIFICATION Spec
CONSTANTS
    t1 = t1
    t2 = t2
    t3 = t3
    alice = alice
    v1 = v1
    v2 = v2
    Settlement = settlement
    Suspense = suspense
    NoVA = NoVA
    NoEvent = NoEvent
    Worker = worker
    Customers = {alice}
    VAs = {v1}
    TxIds = {t1, t2}
    Sweeps = {s1}
    Owner <- MCOwner
    Events <- CollectionEvents
    Collections = {1, 2}
    Request <- Requests
    QueueSize = 2
    StatusUpdates = {"SUSPENDED"}
    MaxBalance <- TwoKobo
    DailyCredit <- NoLimit
    OccurredOn <- OneDay
    MaxDay = 0
    TenantlessLookup = TRUE
    MaxCrashes = 0
    MaxFaults = 1
INVARIANT
    FulfilledByOwnPayment
    RelayedWereCredited
PROPERTY
    CollectionTerminal
CHECK_DEADLOCK FALSE
