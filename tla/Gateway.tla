------------------------------- MODULE Gateway -------------------------------
(***************************************************************************)
(* The way of a request through the tenant API: authentication             *)
(* (middleware/auth.go), the idempotency middleware on Redis               *)
(* (middleware/idempotency.go), a route, and back.                         *)
(*                                                                         *)
(*   idle -> auth -> get -> setnx -> serve -> ... -> store -> idle         *)
(*                                                                         *)
(* A handler is a goroutine of the HTTP server; it takes a new request     *)
(* when it has answered the last one.  The routes are actions of the       *)
(* modules that extend this one: they start at "serve" and end in Respond. *)
(* The two routes on API keys are here.                                    *)
(***************************************************************************)
EXTENDS Naturals, FiniteSets

CONSTANTS
    Tenants,    \* the tenants that make requests
    ApiKeys,    \* rows of api_keys, issued or still to be issued
    KeyOwner,   \* KeyOwner[k]: api_keys.tenant_id
    Issued,     \* the keys that exist at the start
    IdemKeys,   \* values of the header Idempotency-Key
    Handlers,
    Workloads,  \* sets of requests; the clients of a behaviour draw from one
    None,       \* nil, a header that is missing, an id that is not there
    MaxFaults   \* bound on failed calls and crashes

ASSUME GatewayAssumption ==
    /\ DOMAIN KeyOwner = ApiKeys
    /\ Issued \subseteq ApiKeys
    /\ Tenants # {}
    /\ None \notin IdemKeys \cup Tenants \cup ApiKeys
    /\ MaxFaults \in Nat
    /\ \A load \in Workloads : \A r \in load :
           /\ \/ r.key \in ApiKeys /\ KeyOwner[r.key] \in Tenants
              \/ r.key = None  \* a request of the operator
           /\ r.idem \in IdemKeys \cup {None}

VARIABLES
    issued,    \* api_keys.active, "no" for a row that does not exist
    redis,     \* redis[t, k]: the value of idem:{t}:{k}
    task,      \* what each handler is at
    workload,  \* the requests the clients make
    executed,  \* history: keys under which a route was run
    lapsed,    \* history: keys whose in-flight mark expired
    faults

gatewayVars == <<issued, redis, task, workload, executed, lapsed, faults>>

Slots == Tenants \X IdemKeys

InFlight == [kind |-> "inflight", answer |-> "none"]

Unset == [kind |-> "unset", answer |-> "none"]

Stored(answer) == [kind |-> "stored", answer |-> answer]

\* read is what the route has read so far: a row and one of its columns.
NothingRead == [id |-> None, was |-> None]

Idle == [pc |-> "idle", req |-> None, tenant |-> None, read |-> NothingRead,
         answer |-> "none"]

GatewayInit ==
    /\ issued = [k \in ApiKeys |-> IF k \in Issued THEN "active" ELSE "no"]
    /\ redis = [s \in Slots |-> Unset]
    /\ task = [h \in Handlers |-> Idle]
    /\ workload \in Workloads
    /\ executed = {}
    /\ lapsed = {}
    /\ faults = 0

-----------------------------------------------------------------------------
\* A new id.  Ids are random, so which of the unused ones it is does not matter; that
\* one is left is a bound of the model.
Fresh(unused) == CHOOSE id \in unused : TRUE

Busy(h) == task[h].pc # "idle"

Serving(h, op) == task[h].pc = "serve" /\ task[h].req.op = op

Slot(h) == <<task[h].tenant, task[h].req.idem>>

Goto(h, step) == task' = [task EXCEPT ![h].pc = step]

\* A problem of the middleware, or a replay: nothing is recorded.
Dismiss(h) == task' = [task EXCEPT ![h] = Idle]

\* The route writes its answer; with an Idempotency-Key it is recorded.
Respond(h, status) ==
    task' = [task EXCEPT ![h] = IF task[h].req.idem = None
                                THEN Idle
                                ELSE [@ EXCEPT !.pc = "store", !.answer = status,
                                               !.read = NothingRead]]

Accept(h) ==
    /\ ~Busy(h)
    /\ \E r \in workload : task' = [task EXCEPT ![h] = [Idle EXCEPT !.pc = "auth", !.req = r]]
    /\ UNCHANGED <<issued, redis, workload, executed, lapsed, faults>>

\* GetTenantByAPIKey finds active keys only.
Authenticate(h) ==
    /\ task[h].pc = "auth"
    /\ task[h].req.key # None
    /\ LET r == task[h].req
       IN  task' = [task EXCEPT ![h] =
                       IF issued[r.key] # "active"
                       THEN Idle
                       ELSE [@ EXCEPT !.tenant = KeyOwner[r.key],
                                      !.pc = IF r.idem = None THEN "serve" ELSE "get"]]
    /\ UNCHANGED <<issued, redis, workload, executed, lapsed, faults>>

\* GET: 409 for a mark, the recorded answer for a finished request.
LookUp(h) ==
    /\ task[h].pc = "get"
    /\ IF redis[Slot(h)] = Unset THEN Goto(h, "setnx") ELSE Dismiss(h)
    /\ UNCHANGED <<issued, redis, workload, executed, lapsed, faults>>

\* Mutant of SetNX: SET instead of SET NX.
Set(slot) == TRUE

SetNX(slot) == redis[slot] = Unset

MarkInFlight(h) ==
    /\ task[h].pc = "setnx"
    /\ IF SetNX(Slot(h))
       THEN /\ redis' = [redis EXCEPT ![Slot(h)] = InFlight]
            /\ executed' = executed \cup {Slot(h)}
            /\ Goto(h, "serve")
       ELSE /\ Dismiss(h)
            /\ UNCHANGED <<redis, executed>>
    /\ UNCHANGED <<issued, workload, lapsed, faults>>

\* SET with the context of the process: a client that is gone does not matter.
StoreResponse(h) ==
    /\ task[h].pc = "store"
    /\ redis' = [redis EXCEPT ![Slot(h)] = Stored(task[h].answer)]
    /\ Dismiss(h)
    /\ UNCHANGED <<issued, workload, executed, lapsed, faults>>

-----------------------------------------------------------------------------
(* The routes on API keys.                                                 *)

UnusedKeys(owner) == {k \in ApiKeys : issued[k] = "no" /\ KeyOwner[k] = owner}

\* generateAPIKey and TenantRepo.CreateAPIKey.
AddKey(owner) ==
    /\ UnusedKeys(owner) # {}
    /\ issued' = [issued EXCEPT ![Fresh(UnusedKeys(owner))] = "active"]

\* An INSERT of a key nobody knows yet.
CreateAPIKey(h) ==
    /\ Serving(h, "create_key")
    /\ AddKey(task[h].tenant)
    /\ Respond(h, "201")
    /\ UNCHANGED <<redis, workload, executed, lapsed, faults>>

\* UPDATE ... WHERE id AND tenant_id: no row is an error, and so is a row of
\* another tenant; a key revoked before is revoked again.
RevokeAPIKey(h) ==
    LET k == task[h].req.on
        found == issued[k] # "no" /\ KeyOwner[k] = task[h].tenant
    IN  /\ Serving(h, "revoke_key")
        /\ issued' = IF found THEN [issued EXCEPT ![k] = "revoked"] ELSE issued
        /\ Respond(h, IF found THEN "204" ELSE "500")
        /\ UNCHANGED <<redis, workload, executed, lapsed, faults>>

-----------------------------------------------------------------------------
(* Redis.                                                                  *)

\* The 30 seconds of a mark are over, whether its handler has finished or not.
LapseMark(slot) ==
    /\ redis[slot].kind = "inflight"
    /\ redis' = [redis EXCEPT ![slot] = Unset]
    /\ lapsed' = lapsed \cup {slot}
    /\ UNCHANGED <<issued, task, workload, executed, faults>>

\* The 24 hours of an answer are over; no handler lives that long.
ExpireAnswer(slot) ==
    /\ redis[slot].kind = "stored"
    /\ \A h \in Handlers : Busy(h) => Slot(h) # slot
    /\ redis' = [redis EXCEPT ![slot] = Unset]
    /\ executed' = executed \ {slot}
    /\ lapsed' = lapsed \ {slot}
    /\ UNCHANGED <<issued, task, workload, faults>>

Fault == faults < MaxFaults /\ faults' = faults + 1

\* An error of the key lookup is a 401, one of GET falls through to SETNX, one
\* of SETNX is a 409 and one of SET is ignored.
MiddlewareCallFails(h) ==
    /\ Fault
    /\ task[h].pc \in {"auth", "get", "setnx", "store"}
    /\ task[h].req.key # None
    /\ IF task[h].pc = "get" THEN Goto(h, "setnx") ELSE Dismiss(h)
    /\ UNCHANGED <<issued, redis, workload, executed, lapsed>>

\* The mark is set although the caller sees an error, and answers 409.
MarkUnconfirmed(h) ==
    /\ Fault
    /\ task[h].pc = "setnx"
    /\ SetNX(Slot(h))
    /\ redis' = [redis EXCEPT ![Slot(h)] = InFlight]
    /\ Dismiss(h)
    /\ UNCHANGED <<issued, workload, executed, lapsed>>

\* A database call of a route fails with nothing done, or the client is gone.
RouteCallFails(h, steps) ==
    /\ Fault
    /\ task[h].pc \in steps
    /\ Respond(h, "500")
    /\ UNCHANGED <<issued, redis, workload, executed, lapsed>>

-----------------------------------------------------------------------------
GatewayStep(h) ==
    \/ Authenticate(h)
    \/ LookUp(h)
    \/ MarkInFlight(h)
    \/ StoreResponse(h)
    \/ CreateAPIKey(h)
    \/ RevokeAPIKey(h)

RedisStep == \E slot \in Slots : LapseMark(slot) \/ ExpireAnswer(slot)

GatewayFault ==
    \E h \in Handlers : MiddlewareCallFails(h) \/ MarkUnconfirmed(h)

-----------------------------------------------------------------------------
\* README: "Replaying the same key within 24 hours returns the original response
\* without re-executing the operation."  A route is entered a second time under a
\* key, and a recorded answer is overwritten, only after the in-flight mark of the
\* key expired, which takes a handler of more than 30 seconds, a crash or a failed
\* SET; neither a concurrent request nor an error of GET is enough.
ExecutedOnce ==
    [][/\ \A h \in Handlers :
              (task[h].pc = "setnx" /\ task'[h].pc = "serve") =>
                  (Slot(h) \notin executed \/ Slot(h) \in lapsed)
       /\ \A slot \in Slots :
              redis[slot].kind = "stored" =>
                  redis'[slot] \in {redis[slot], Unset} \/ slot \in lapsed]_gatewayVars
=============================================================================
