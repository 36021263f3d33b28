SPECIFICATION FairSpec
CONSTANTS
    acme = acme
    bolt = bolt
    ka = ka
    ka2 = ka2
    kb = kb
    idem1 = idem1
    alice = alice
    bob = bob
    carol = carol
    dave = dave
    r1 = r1
    r2 = r2
    n1 = n1
    n2 = n2
    ea = ea
    eb = eb
    xa = xa
    f1 = f1
    f2 = f2
    f3 = f3
    f4 = f4
    k1 = k1
    k2 = k2
    k3 = k3
    k4 = k4
    low = low
    high = high
    bad = bad
    ada = ada
    bisi = bisi
    eve = eve
    zoe = zoe
    operator = operator
    ref1 = ref1
    ref2 = ref2
    None = none
    Tenants = {acme, bolt}
    ApiKeys = {ka, ka2, kb, k1, k2, k3, k4}
    Issued = {ka, kb}
    KeyOwner <- MCKeyOwner
    IdemKeys = {idem1}
    Handlers = {h1, h2}
    Workloads <- APIWorkloads
    MaxFaults = 1
    Customers = {alice, bob, carol, dave}
    ExternalRefs = {r1, r2}
    Registered <- MCRegistered
    Accounts = {v1, v2}
    Names = {n1, n2}
    Endpoints = {ea, eb}
    EndpointOwner <- MCEndpointOwner
    Events = {xa}
    EventTenant <- MCEventTenant
    Firms = {f1, f2, f3, f4}
    Migrations = 2
    Limits = {low, high}
    Malformed = {bad}
    DefaultLimits = low
    Emails = {ada, bisi, eve, zoe, operator}
    Admin = operator
    DemoUsers <- MCDemoUsers
    DemoCustomers <- MCDemoCustomers
    MaxDeliveries = 4
INVARIANT
    TypeOK
    LimitsInForce
    TenantsComplete
    DeadLetterEarned
    BankAgrees
    ChangesAudited
    LogEndsWithStatus
PROPERTY
    ExecutedOnce
    TenantIsolation
    ReopenedOnlyByStaleRead
    EveryAttemptRecorded
CHECK_DEADLOCK FALSE
