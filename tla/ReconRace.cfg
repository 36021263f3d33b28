SPECIFICATION Spec
CONSTANTS
    t1 = t1
    t2 = t2
    t3 = t3
    alice = alice
    v1 = v1
    v2 = v2
    Settlement = settlement
    Suspense = suspense
    NoVA = NoVA
    NoEvent = NoEvent
    Worker = worker
    Customers = {alice}
    VAs = {v1}
    TxIds = {t1, t2}
    Sweeps = {s1}
    Owner <- MCOwner
    Events <- RaceEvents
    Collections = {}
    Request <- NoRequest
    QueueSize = 1
    StatusUpdates = {"ACTIVE", "SUSPENDED", "CLOSED"}
    MaxBalance <- NoLimit
    DailyCredit <- NoLimit
    OccurredOn <- OneDay
    MaxDay = 0
    TenantlessLookup = FALSE
    MaxCrashes = 1
    MaxFaults = 1
INVARIANT
    TypeOK
    AtMostOneSuspenseItem
    SuspenseFundsListed
    VerdictTruthful
    RoutingJustified
    SettlementMirrorsProvider
PROPERTY
    LedgerAppendOnly
    VerdictFinal
CHECK_DEADLOCK FALSE
