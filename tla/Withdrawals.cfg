SPECIFICATION FairSpec
CONSTANTS
    w1 = w1
    w2 = w2
    w3 = w3
    wd1 = wd1
    wd2 = wd2
    wd3 = wd3
    t1 = t1
    t2 = t2
    alice = alice
    Customers = {alice}
    Settlement = settlement
    Suspense = suspense
    TxIds = {wd1, wd2, wd3, t1, t2}
    Withdrawals = {w1, w2, w3}
    WithdrawalTx <- MCWithdrawalTx
    Asked <- MCAsked
    NoCustomer = NoCustomer
    Incoming = {t1, t2}
    Posting <- MCPosting
    MaxFaults = 2
INVARIANT
    TypeOK
    StatusMatchesLedger
    PaidIsDebited
PROPERTY
    OverdraftNeedsRace
    WithdrawalsSettle
CHECK_DEADLOCK FALSE
