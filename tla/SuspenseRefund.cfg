SPECIFICATION Spec
CONSTANTS
    i1 = i1
    i2 = i2
    t1 = t1
    t2 = t2
    res1 = res1
    res2 = res2
    alice = alice
    bob = bob
    Customers = {alice, bob}
    Settlement = settlement
    Suspense = suspense
    TxIds = {t1, t2, res1, res2}
    Items = {i1, i2}
    Requests = {1, 2, 3, 4, 5}
    NoCustomer = NoCustomer
    Original <- MCOriginal
    Resolution <- MCResolution
    Amount <- MCAmount
    Asked <- MCAsked
    MaxFaults = 0
INVARIANT
    RefundFlaggedStays
CHECK_DEADLOCK FALSE
