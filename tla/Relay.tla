------------------------------- MODULE Relay -------------------------------
(***************************************************************************)
(* The tenant webhook relay: Dispatcher (relay/relay.go), its routes       *)
(* (handlers/relay.go) and the relay repository.                           *)
(*                                                                         *)
(* Every delivery is a goroutine that makes one HTTP attempt and then      *)
(* inserts one row of relay_deliveries; a replay is a delivery of its own. *)
(*                                                                         *)
(*   sending -> acked  -> delivered                                        *)
(*           -> failing -> failed | dead_letter                            *)
(*                                                                         *)
(* RetryPending has no caller and DeactivateEndpoint no route, so they are *)
(* not actions, and every endpoint there is is active.                     *)
(***************************************************************************)
EXTENDS Gateway, Sequences, SequencesExt

CONSTANTS
    Endpoints,     \* rows of relay_endpoints, created or still to be created
    EndpointOwner, \* EndpointOwner[e]: relay_endpoints.tenant_id
    Events,        \* credits that are relayed
    EventTenant,   \* EventTenant[x]: the tenant the worker dispatches x for
    MaxDeliveries  \* bound on delivery attempts

ASSUME RelayAssumption ==
    /\ EndpointOwner \in [Endpoints -> Tenants]
    /\ EventTenant \in [Events -> Tenants]
    /\ IsFiniteSet(Endpoints)
    /\ MaxDeliveries \in Nat

VARIABLES
    endpoints,   \* the endpoints that exist
    dispatched,  \* the events handed to the dispatcher
    deliveries   \* delivery goroutines and the rows they have inserted

relayVars == <<endpoints, dispatched, deliveries>>

MaxAttempts == 3

\* The states of a row, and those of a goroutine that has inserted none: lost is
\* one that never will because of a fault, killed one that a regular stop ended.
Recorded == {"delivered", "failed", "dead_letter"}
UnderWay == {"sending", "acked", "failing", "lost", "killed"}

Delivery == [endpoint: Endpoints, event: Events, attempt: Nat \ {0},
             status: Recorded \cup UnderWay]

Attempt(e, x, n) == [endpoint |-> e, event |-> x, attempt |-> n, status |-> "sending"]

RelayInit ==
    /\ endpoints = {}
    /\ dispatched = {}
    /\ deliveries = <<>>

Becomes(i, status) == deliveries' = [deliveries EXCEPT ![i].status = status]

\* The rows of relay_deliveries.
Rows == {i \in DOMAIN deliveries : deliveries[i].status \in Recorded}

Killed == {i \in DOMAIN deliveries : deliveries[i].status = "killed"}

\* The process ends, and its goroutines with it.
Abandon(status) ==
    deliveries' = [i \in DOMAIN deliveries |->
                      IF i \in Rows \/ deliveries[i].status \in {"lost", "killed"}
                      THEN deliveries[i]
                      ELSE [deliveries[i] EXCEPT !.status = status]]

-----------------------------------------------------------------------------
(* The routes.                                                             *)

UnusedEndpoints(owner) == {e \in Endpoints \ endpoints : EndpointOwner[e] = owner}

CreateEndpoint(h) ==
    /\ Serving(h, "create_endpoint")
    /\ UnusedEndpoints(task[h].tenant) # {}
    /\ endpoints' = endpoints \cup {Fresh(UnusedEndpoints(task[h].tenant))}
    /\ Respond(h, "201")
    /\ UNCHANGED <<issued, redis, workload, executed, lapsed, faults, dispatched, deliveries>>

\* GetDelivery: any row there is; which one is the id in the request.
FindDelivery(h) ==
    /\ Serving(h, "replay")
    /\ IF Rows = {}
       THEN Respond(h, "404")
       ELSE \E i \in Rows : task' = [task EXCEPT ![h].pc = "owner", ![h].read.id = i]
    /\ UNCHANGED <<issued, redis, workload, executed, lapsed, faults, relayVars>>

Owned(h, e) == EndpointOwner[e] = task[h].tenant

CheckOwner(h) ==
    /\ task[h].pc = "owner"
    /\ IF Owned(h, deliveries[task[h].read.id].endpoint)
       THEN Goto(h, "replay")
       ELSE Respond(h, "404")
    /\ UNCHANGED <<issued, redis, workload, executed, lapsed, faults, relayVars>>

NextAttempt(delivery) == delivery.attempt + 1

\* Dispatcher.Replay: whatever the status of the delivery, a new attempt starts.
Replay(h) ==
    LET delivery == deliveries[task[h].read.id]
    IN  /\ task[h].pc = "replay"
        /\ deliveries' = Append(deliveries,
                             Attempt(delivery.endpoint, delivery.event, NextAttempt(delivery)))
        /\ Respond(h, "202")
        /\ UNCHANGED <<issued, redis, workload, executed, lapsed, faults, endpoints, dispatched>>

-----------------------------------------------------------------------------
(* The dispatcher.                                                         *)

Targets(x) == {e \in endpoints : EndpointOwner[e] = EventTenant[x]}

\* The bound: attempts that exist, and replays that are being served.
Room(n) ==
    Len(deliveries) + n
        + Cardinality({h \in Handlers : Busy(h) /\ task[h].req.op = "replay"}) <= MaxDeliveries

\* Credits are relayed in the workloads that register endpoints.
Relaying == \E r \in workload : r.op = "create_endpoint"

\* The worker has posted a credit: one goroutine for each endpoint of the tenant.
Dispatch(x) ==
    /\ Relaying
    /\ x \notin dispatched
    /\ Room(Cardinality(endpoints))
    /\ dispatched' = dispatched \cup {x}
    /\ LET order == SetToSeq(Targets(x))
       IN  deliveries' = deliveries \o [i \in DOMAIN order |-> Attempt(order[i], x, 1)]
    /\ UNCHANGED <<gatewayVars, endpoints>>

\* The endpoint answers 2xx, or anything else; a lost answer is a failure too.
Send(i) ==
    /\ deliveries[i].status = "sending"
    /\ \E outcome \in {"acked", "failing"} : Becomes(i, outcome)
    /\ UNCHANGED <<gatewayVars, endpoints, dispatched>>

RecordSuccess(i) ==
    /\ deliveries[i].status = "acked"
    /\ Becomes(i, "delivered")
    /\ UNCHANGED <<gatewayVars, endpoints, dispatched>>

\* Mutant of FailureStatus: attempts are counted from zero.
FailureStatusEarly(n) == IF n + 1 >= MaxAttempts THEN "dead_letter" ELSE "failed"

FailureStatus(n) == IF n >= MaxAttempts THEN "dead_letter" ELSE "failed"

\* Mutant of RecordFailure: an exhausted delivery is logged and not stored.
RecordFailureOrLog(i) ==
    /\ deliveries[i].status = "failing"
    /\ deliveries[i].attempt < MaxAttempts
    /\ Becomes(i, FailureStatus(deliveries[i].attempt))
    /\ UNCHANGED <<gatewayVars, endpoints, dispatched>>

RecordFailure(i) ==
    /\ deliveries[i].status = "failing"
    /\ Becomes(i, FailureStatus(deliveries[i].attempt))
    /\ UNCHANGED <<gatewayVars, endpoints, dispatched>>

\* An error of CreateDelivery is only logged.
CreateDeliveryFails(i) ==
    /\ Fault
    /\ deliveries[i].status \in {"acked", "failing"}
    /\ Becomes(i, "lost")
    /\ UNCHANGED <<issued, redis, task, workload, executed, lapsed, endpoints, dispatched>>

\* The endpoints cannot be listed: nobody is told of the event.
ListEndpointsFails(x) ==
    /\ Relaying
    /\ Fault
    /\ x \notin dispatched
    /\ dispatched' = dispatched \cup {x}
    /\ UNCHANGED <<issued, redis, task, workload, executed, lapsed, endpoints, deliveries>>

-----------------------------------------------------------------------------
RelayStep(h) ==
    \/ CreateEndpoint(h)
    \/ FindDelivery(h)
    \/ CheckOwner(h)
    \/ Replay(h)

Deliver(i) ==
    /\ i \in DOMAIN deliveries
    /\ Send(i) \/ RecordSuccess(i) \/ RecordFailure(i)

RelayFault ==
    \/ \E i \in DOMAIN deliveries : CreateDeliveryFails(i)
    \/ \E x \in Events : ListEndpointsFails(x)
    \/ \E h \in Handlers : RouteCallFails(h, {"owner", "replay"}) /\ UNCHANGED relayVars

-----------------------------------------------------------------------------
SameCourse(i, j) ==
    /\ deliveries[i].endpoint = deliveries[j].endpoint
    /\ deliveries[i].event = deliveries[j].event

\* "attempt 3 -> dead_letter": an event is given up for an endpoint only when the
\* attempts 1 to 3, and every later one, are on record.
DeadLetterEarned ==
    \A i \in Rows : deliveries[i].status = "dead_letter" =>
        \A n \in 1..MaxAttempts \cup 1..deliveries[i].attempt :
            \E j \in Rows : SameCourse(i, j) /\ deliveries[j].attempt = n

\* The attempts that are under way: neither on record nor lost with the process.
Outstanding == DOMAIN deliveries \ (Rows \cup Killed)

\* As long as the server runs and nothing fails, every attempt that is started, also
\* a replay of one that was given up, ends in a row (relay.go:85 and 121 start a
\* goroutine that nobody waits for).
EveryAttemptRecorded ==
    (Outstanding # {}) ~> (Outstanding = {} \/ faults > 0)
=============================================================================
