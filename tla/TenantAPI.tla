------------------------------ MODULE TenantAPI ------------------------------
(***************************************************************************)
(* The API server as one system: start-up, the gateway, and the routes on  *)
(* customers, virtual accounts, API keys, relay deliveries and the         *)
(* operator's settings and tenants behind it.                              *)
(***************************************************************************)
EXTENDS VirtualAccounts, Relay, Platform

vars == <<gatewayVars, accountVars, relayVars, platformVars>>

RequestOps == VAOps \cup OperatorOps \cup {"create_key", "revoke_key", "create_customer",
                          "kyc_tier_change", "create_endpoint", "replay"}

\* The routes there are, and a path with the id of a key.
ASSUME RequestAssumption ==
    \A load \in Workloads : \A r \in load :
        /\ r.op \in RequestOps
        /\ r.op = "revoke_key" => r.on \in ApiKeys

HandlerSteps == {"idle", "auth", "get", "setnx", "serve", "insert", "tier", "find", "bank",
                 "write", "audit", "owner", "replay", "reload", "add_key", "add_user", "store"}

BootSteps == {"down", "refused", "migrate", "record", "limits", "admin", "demo", "demo_key",
              "demo_users", "demo_customers", "up"}

HttpAnswers == {"none", "200", "201", "202", "204", "400", "404", "422", "500"}

\* Type invariant: rows have the columns of their tables, a handler has a tenant
\* from authentication on unless it works for the operator, and none works while
\* the server is not up.
TypeOK ==
    /\ issued \in [ApiKeys -> {"no", "active", "revoked"}]
    /\ DOMAIN redis = Slots
    /\ \A s \in Slots : redis[s] \in {Unset, InFlight} \cup {Stored(a) : a \in HttpAnswers \ {"none"}}
    /\ DOMAIN task = Handlers
    /\ \A h \in Handlers :
           /\ task[h].pc \in HandlerSteps
           /\ task[h].answer \in HttpAnswers
           /\ Busy(h) => task[h].req.op \in RequestOps
           /\ task[h].pc \notin {"idle", "auth"} =>
                  (task[h].tenant \in Tenants <=> task[h].req.op \notin OperatorOps)
           /\ Busy(h) => Running
    /\ workload \in Workloads
    /\ executed \subseteq Slots
    /\ lapsed \subseteq Slots
    /\ faults \in 0..MaxFaults
    /\ customers \in [Customers -> Row \cup {None}]
    /\ va \in [Accounts -> VARow \cup {None}]
    /\ bank \in [Accounts -> BankRow \cup {None}]
    /\ raced \subseteq Customers
    /\ endpoints \subseteq Endpoints
    /\ dispatched \subseteq Events
    /\ deliveries \in Seq(Delivery)
    /\ boot.at \in BootSteps /\ boot.firm \in Firms \cup {None}
    /\ schema.recorded \in 0..schema.applied /\ schema.applied \in 0..Migrations
    /\ setting \in Limits \cup Malformed \cup {None}
    /\ cache \in Limits \cup {None}
    /\ \A row \in creds : row.email \in Emails /\ row.tenant \in Tenants \cup Firms \cup {None}
    /\ \A row, other \in creds : row.email = other.email => row = other

Init == GatewayInit /\ CustomersInit /\ VAInit /\ RelayInit /\ PlatformInit

-----------------------------------------------------------------------------
\* A request that would create a row is made only while an id is left for it.
Asking(op) == Cardinality({h \in Handlers : Busy(h) /\ task[h].req.op = op})

HasRoom(r) ==
    CASE r.op = "create_key" ->
             Asking(r.op) < Cardinality(UnusedKeys(KeyOwner[r.key]))
      [] r.op = "create_customer" ->
             Asking(r.op) < Cardinality(UnusedCustomers)
      [] r.op = "provision_va" ->
             Asking(r.op) < Cardinality(UnusedAccounts)
      [] r.op = "create_endpoint" ->
             Asking(r.op) < Cardinality(UnusedEndpoints(KeyOwner[r.key]))
      [] r.op = "replay" -> Room(1)
      [] r.op = "onboard" ->  \* seeding needs a tenant more for each fault
             Asking(r.op) + MaxFaults < Cardinality(UnusedFirms)
      [] OTHER -> TRUE

Arrive(h) ==
    /\ Running
    /\ Accept(h)
    /\ HasRoom(task'[h].req)
    /\ UNCHANGED <<accountVars, relayVars, platformVars>>

\* The process dies: requests, delivery goroutines and the cache are gone, Redis
\* and the database are not.
Crash ==
    /\ Fault
    /\ boot.at \notin {"down", "refused"}
    /\ boot' = At("down")
    /\ cache' = None
    /\ task' = [h \in Handlers |-> Idle]
    /\ Abandon("lost")
    /\ UNCHANGED <<issued, redis, workload, executed, lapsed, accountVars, endpoints, dispatched,
                   schema, setting, disturbed, firms, creds, demo>>

\* A regular stop waits for the handlers, not for the delivery goroutines.
Shutdown == Stop /\ Abandon("killed") /\ UNCHANGED <<accountVars, endpoints, dispatched>>

\* A step of a handler on the request it has.
Handle(h) ==
    \/ GatewayStep(h) /\ UNCHANGED <<accountVars, relayVars, platformVars>>
    \/ CustomerStep(h) /\ UNCHANGED <<va, bank, raced, relayVars, platformVars>>
    \/ VAStep(h) /\ UNCHANGED <<relayVars, platformVars>>
    \/ RelayStep(h) /\ UNCHANGED <<accountVars, platformVars>>
    \/ PlatformStep(h) /\ UNCHANGED <<accountVars, relayVars>>

Failure ==
    \/ GatewayFault /\ UNCHANGED <<accountVars, relayVars, platformVars>>
    \/ /\ \E h \in Handlers : RouteCallFails(h, {"serve"})
       /\ UNCHANGED <<accountVars, relayVars, platformVars>>
    \/ CustomerFault /\ UNCHANGED <<va, bank, raced, relayVars, platformVars>>
    \/ VAFault /\ UNCHANGED <<relayVars, platformVars>>
    \/ Running /\ RelayFault /\ UNCHANGED <<accountVars, platformVars>>
    \/ PlatformFault /\ UNCHANGED <<accountVars, relayVars>>
    \/ Crash

\* The goroutine of delivery i, which dies with the process.
Delivering(i) == Running /\ Deliver(i) /\ UNCHANGED <<accountVars, platformVars>>

Next ==
    \/ \E h \in Handlers : Arrive(h)
    \/ \E h \in Handlers : Handle(h)
    \/ \E x \in Events : Running /\ Dispatch(x) /\ UNCHANGED <<accountVars, platformVars>>
    \/ \E i \in DOMAIN deliveries : Delivering(i)
    \/ RedisStep /\ UNCHANGED <<accountVars, relayVars, platformVars>>
    \/ Boot /\ UNCHANGED <<accountVars, relayVars>>
    \/ Shutdown
    \/ Failure

Spec == Init /\ [][Next]_vars

\* Some delivery goroutine runs: client and pool have time limits.  Nothing is assumed of
\* handlers, and nothing makes a client send a request.
FairSpec == Spec /\ WF_vars(\E i \in 1..MaxDeliveries : Delivering(i))

-----------------------------------------------------------------------------
\* FR-1.3 and "Verify the delivery's endpoint belongs to this tenant": whatever id a
\* request names, accounts and tiers change only in steps of handlers that were
\* authenticated for the tenant of the customer, an event is sent only to endpoints
\* of the tenant it happened to, and sent again only on the request of that tenant.
TenantIsolation ==
    [][LET ActedFor(t) == \E h \in Handlers : task'[h] # task[h] /\ task[h].tenant = t
       IN  /\ \A v \in Accounts :
                  (bank'[v] # bank[v] \/ va'[v] # va[v]) =>
                      ActedFor(customers[bank'[v].customer].tenant)
           /\ \A c \in Customers :
                  (customers[c] # None /\ customers'[c] # customers[c]) =>
                      ActedFor(customers[c].tenant)
           /\ \A i \in DOMAIN deliveries' \ DOMAIN deliveries :
                  LET new == deliveries'[i]
                  IN  /\ EndpointOwner[new.endpoint] = EventTenant[new.event]
                      /\ new.attempt > 1 => ActedFor(EndpointOwner[new.endpoint])
      ]_vars
=============================================================================
