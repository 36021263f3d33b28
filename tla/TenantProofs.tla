---------------------------- MODULE TenantProofs ----------------------------
(***************************************************************************)
(* Theorems about the tenant API: its handlers, the tables they work on,   *)
(* the idempotency keys, the relay and the operator's side, for any number *)
(* of tenants, handlers, requests, restarts and failed calls.              *)
(***************************************************************************)
EXTENDS TenantAPI, FiniteSetTheorems, TLAPS

USE DEF customerVars

Requests == UNION Workloads

Reading == [id: Customers \cup Accounts \cup Firms \cup Nat \cup {None},
            was: Tiers \cup VAStatus \cup Seq(Emails) \cup {None}]

\* What a handler is at.
Task == [pc: HandlerSteps, req: Requests \cup {None}, tenant: Tenants \cup {None},
         read: Reading, answer: HttpAnswers]

\* The steps of a route between "serve" and its answer.
RouteSteps(op) ==
    CASE op = "create_customer" -> {"insert", "audit"}
      [] op = "kyc_tier_change" -> {"tier", "audit"}
      [] op \in VAOps -> IF op = "get_va" THEN {"find"} ELSE {"find", "bank", "write", "audit"}
      [] op = "replay" -> {"owner", "replay"}
      [] op = "put_limits" -> {"reload"}
      [] op = "onboard" -> {"add_key", "add_user"}
      [] OTHER -> {}

Midway == {"insert", "tier", "find", "bank", "write", "audit", "owner", "replay",
           "reload", "add_key", "add_user"}

\* The tenant a request is authenticated for; none for the operator.
TenantOf(r) == IF r.op \in OperatorOps THEN None ELSE KeyOwner[r.key]

\* Where a handler is says which request it has and what it has read.
TaskOK(t) ==
    /\ t.pc # "idle" => t.req \in Requests
    /\ t.pc = "auth" => t.tenant = None
    /\ t.pc \notin {"idle", "auth"} => t.tenant = TenantOf(t.req)
    /\ t.pc \in {"get", "setnx", "store"} => t.req.idem # None
    /\ t.pc \in Midway => t.pc \in RouteSteps(t.req.op)
    /\ (t.pc = "bank" /\ t.req.op # "provision_va") => t.read.id \in Accounts
    /\ (t.pc = "bank" /\ t.req.op = "unsuspend_va") => FALSE
    /\ t.pc = "write" => t.read.id \in Accounts
    /\ t.pc \in {"bank", "write"} => t.read.was # "CLOSED"
    /\ t.pc = "insert" => t.req.arg.tier \in Tiers
    /\ t.pc = "tier" => t.req.arg.tier \in Tiers /\ t.read.id = t.req.on
    /\ t.pc \in {"owner", "replay"} => t.read.id \in Nat
    /\ t.pc = "reload" => t.req.arg # None
    /\ t.pc = "add_key" => t.req.arg # <<>>
    /\ t.pc \in {"add_key", "add_user"} => t.read.id \in Firms
    /\ t.pc = "add_user" => t.read.was \in Seq(Emails) /\ t.read.was # <<>>
    /\ t.pc = "store" => t.answer # "none"

TaskType == task \in [Handlers -> Task] /\ \A h \in Handlers : TaskOK(task[h])

-----------------------------------------------------------------------------
(* What the assumptions say of a request.                                  *)

\* The operator's requests have neither an API key nor an idempotency key, the others
\* are made with the key of a tenant.
LEMMA RequestFacts ==
    ASSUME NEW r \in Requests
    PROVE  /\ r.op \in RequestOps
           /\ r.op \in OperatorOps <=> r.key = None
           /\ r.op \in OperatorOps => r.idem = None
           /\ r.op \notin OperatorOps => r.key \in ApiKeys /\ KeyOwner[r.key] \in Tenants
           /\ r.idem \in IdemKeys \cup {None}
           /\ TenantOf(r) \in Tenants \cup {None}
           /\ r.op \notin OperatorOps => TenantOf(r) \in Tenants
<1>1. PICK load \in Workloads : r \in load
  BY DEF Requests
<1>2. /\ r.op \in RequestOps
      /\ r.op \in OperatorOps <=> r.key = None
      /\ r.op \in OperatorOps => r.idem = None
  BY <1>1, RequestAssumption, PlatformAssumption
<1>3. /\ (r.key \in ApiKeys /\ KeyOwner[r.key] \in Tenants) \/ r.key = None
      /\ r.idem \in IdemKeys \cup {None}
  BY <1>1, GatewayAssumption
<1> QED
  BY <1>2, <1>3 DEF TenantOf

\* What the routes find in a request.
LEMMA BodyFacts ==
    ASSUME NEW r \in Requests
    PROVE  /\ r.op \in VAOps \cup {"kyc_tier_change"} => r.on \in Customers
           /\ r.op = "rename_va" => r.arg \in Names
           /\ r.op = "create_customer" => r.on \in ExternalRefs
           /\ r.op = "put_limits" => r.arg \in Limits \cup Malformed \cup {None}
           /\ r.op = "onboard" => r.arg \in Seq(Emails)
           /\ r.op = "onboard_admin" => r.on \in Emails
           /\ r.op = "revoke_key" => r.on \in ApiKeys
<1>1. PICK load \in Workloads : r \in load
  BY DEF Requests
<1>2. /\ r.op \in VAOps => r.on \in Customers
      /\ r.op = "rename_va" => r.arg \in Names
  BY <1>1, VAAssumption
<1>3. /\ r.op = "kyc_tier_change" => r.on \in Customers
      /\ r.op = "create_customer" => r.on \in ExternalRefs
  BY <1>1, CustomersAssumption
<1>4. /\ r.op = "put_limits" => r.arg \in Limits \cup Malformed \cup {None}
      /\ r.op = "onboard" => r.arg \in Seq(Emails)
      /\ r.op = "onboard_admin" => r.on \in Emails
  BY <1>1, PlatformAssumption
<1>5. r.op = "revoke_key" => r.on \in ApiKeys
  BY <1>1, RequestAssumption
<1> QED
  BY <1>2, <1>3, <1>4, <1>5

\* A handler that has answered.
LEMMA IdleFacts == Idle \in Task /\ TaskOK(Idle) /\ Idle.pc = "idle"
BY DEF Idle, NothingRead, Task, TaskOK, Reading, HandlerSteps, HttpAnswers, Midway

-----------------------------------------------------------------------------
(* The ways a handler moves.                                               *)

\* Only handler h moves.
Only(h) == \A g \in Handlers \ {h} : task'[g] = task[g]

\* An answer ends a request without an idempotency key; the others store it.
LEMMA RespondFacts ==
    ASSUME TaskType, NEW h \in Handlers, NEW status \in HttpAnswers \ {"none"},
           task[h].pc \notin {"idle", "auth"}, Respond(h, status)
    PROVE  /\ TaskType'
           /\ Only(h)
           /\ \/ task'[h] = Idle
              \/ /\ task'[h].pc = "store" /\ task'[h].req = task[h].req
                 /\ task'[h].tenant = task[h].tenant
<1> DEFINE t == [task[h] EXCEPT !.pc = "store", !.answer = status, !.read = NothingRead]
<1>1. t \in Task /\ t.pc = "store" /\ t.req = task[h].req /\ t.tenant = task[h].tenant
      /\ t.answer = status
  BY DEF TaskType, Task, NothingRead, Reading, HandlerSteps
<1>2. task[h].req.idem # None => TaskOK(t)
  <2> HIDE DEF t
  <2> QED
    BY <1>1 DEF TaskType, TaskOK, Midway
<1>3. task' = [task EXCEPT ![h] = IF task[h].req.idem = None THEN Idle ELSE t]
  BY DEF Respond
<1> HIDE DEF t
<1>4. task' \in [Handlers -> Task]
  BY <1>1, <1>3, IdleFacts DEF TaskType
<1>5. task'[h] = IF task[h].req.idem = None THEN Idle ELSE t
  BY <1>3 DEF TaskType
<1>6. \A g \in Handlers \ {h} : task'[g] = task[g]
  BY <1>3 DEF TaskType
<1> QED
  BY <1>1, <1>2, <1>4, <1>5, <1>6, IdleFacts DEF TaskType, Only

\* A request that is dismissed.
LEMMA DismissFacts ==
    ASSUME TaskType, NEW h \in Handlers, Dismiss(h)
    PROVE  TaskType' /\ Only(h) /\ task'[h] = Idle
<1>1. task' = [task EXCEPT ![h] = Idle]
  BY DEF Dismiss
<1> QED
  BY <1>1, IdleFacts DEF TaskType, Only

\* A handler that goes on to the next step.
LEMMA GotoFacts ==
    ASSUME TaskType, NEW h \in Handlers, NEW step \in HandlerSteps, Goto(h, step)
    PROVE  /\ task' \in [Handlers -> Task]
           /\ Only(h)
           /\ task'[h] = [task[h] EXCEPT !.pc = step]
           /\ TaskOK(task'[h]) => TaskType'
           /\ task'[h].pc = step /\ task'[h].req = task[h].req
           /\ task'[h].tenant = task[h].tenant /\ task'[h].read = task[h].read
<1>1. task' = [task EXCEPT ![h] = [task[h] EXCEPT !.pc = step]]
  BY DEF Goto, TaskType
<1>2. [task[h] EXCEPT !.pc = step] \in Task
  BY DEF TaskType, Task
<1> QED
  BY <1>1, <1>2 DEF TaskType, Only, Task

\* A handler that goes on with what it has read.
LEMMA ReadFacts ==
    ASSUME TaskType, NEW h \in Handlers, NEW step \in HandlerSteps, NEW id, NEW was,
           [id |-> id, was |-> was] \in Reading, Read(h, step, id, was)
    PROVE  /\ task' \in [Handlers -> Task]
           /\ Only(h)
           /\ TaskOK(task'[h]) => TaskType'
           /\ task'[h].pc = step /\ task'[h].req = task[h].req
           /\ task'[h].tenant = task[h].tenant
           /\ task'[h].read.id = id /\ task'[h].read.was = was
<1> DEFINE t == [task[h] EXCEPT !.pc = step, !.read = [id |-> id, was |-> was]]
<1>1. task' = [task EXCEPT ![h] = t]
  BY DEF Read, TaskType
<1>2. t \in Task /\ t.pc = step /\ t.req = task[h].req /\ t.tenant = task[h].tenant
      /\ t.read = [id |-> id, was |-> was]
  BY DEF TaskType, Task
<1> HIDE DEF t
<1> QED
  BY <1>1, <1>2 DEF TaskType, Only

-----------------------------------------------------------------------------
(***************************************************************************)
(* The routes.  A step of a route moves one handler, which keeps its       *)
(* request until it answers.                                               *)
(***************************************************************************)
RouteMove(h, steps) ==
    /\ Only(h)
    /\ \/ task[h].pc \in {"serve"} \cup Midway
       \/ task[h].pc = "auth" /\ task[h].req.op \in OperatorOps
    /\ \/ task'[h] = Idle
       \/ /\ task'[h].pc \in steps \cup {"store"}
          /\ task'[h].req = task[h].req
          /\ task'[h].tenant = task[h].tenant

\* An answer of a route.
LEMMA RouteResponds ==
    ASSUME TaskType, NEW h \in Handlers, NEW status \in HttpAnswers \ {"none"}, NEW steps,
           task[h].pc \in {"serve"} \cup Midway, Respond(h, status)
    PROVE  TaskType' /\ RouteMove(h, steps)
BY RespondFacts DEF RouteMove, Midway

\* A call of a route that fails.
LEMMA RouteFails ==
    ASSUME TaskType, NEW h \in Handlers, NEW at, NEW steps,
           at \subseteq {"serve"} \cup Midway, RouteCallFails(h, at)
    PROVE  TaskType' /\ RouteMove(h, steps)
BY RouteResponds DEF RouteCallFails, HttpAnswers

\* The routes on API keys.
LEMMA KeyTasks ==
    ASSUME TaskType, NEW h \in Handlers, CreateAPIKey(h) \/ RevokeAPIKey(h)
    PROVE  TaskType' /\ RouteMove(h, {})
<1>1. task[h].pc = "serve" /\ \E s \in HttpAnswers \ {"none"} : Respond(h, s)
  BY DEF CreateAPIKey, RevokeAPIKey, Serving, HttpAnswers
<1> QED
  BY <1>1, RouteResponds

CustomerAction(h) ==
    \/ CustomerStep(h) \/ AppendAuditFails(h) \/ InsertUnconfirmed(h)
    \/ RouteCallFails(h, {"insert", "tier"}) /\ UNCHANGED customerVars

\* The routes on customers.
LEMMA CustomerTasks ==
    ASSUME TaskType, customers \in [Customers -> Row \cup {None}],
           NEW h \in Handlers, CustomerAction(h)
    PROVE  TaskType' /\ RouteMove(h, {"insert", "tier", "audit"})
<1> DEFINE steps == {"insert", "tier", "audit"}
<1>0. task[h] \in Task /\ TaskOK(task[h])
  BY DEF TaskType
<1>1. CASE CreateCustomer(h)
  <2>1. task[h].pc = "serve" /\ task[h].req.op = "create_customer" /\ task[h].req \in Requests
    BY <1>1, <1>0 DEF CreateCustomer, Serving, TaskOK
  <2>2. CASE Respond(h, "422") \/ Respond(h, "201")
    BY <2>1, <2>2, RouteResponds DEF HttpAnswers
  <2>3. CASE Goto(h, "insert") /\ Validate(task[h].req.arg)
    <3>1. task'[h].pc = "insert" /\ task'[h].req = task[h].req /\ task'[h].tenant = task[h].tenant
          /\ Only(h) /\ (TaskOK(task'[h]) => TaskType')
      BY <2>3, GotoFacts DEF HandlerSteps
    <3>2. TaskOK(task'[h])
      BY <3>1, <2>1, <2>3, <1>0 DEF TaskOK, Midway, RouteSteps, Validate, VAOps
    <3> QED
      BY <3>1, <3>2, <2>1 DEF RouteMove
  <2> QED
    BY <1>1, <2>2, <2>3 DEF CreateCustomer
<1>2. CASE InsertCustomer(h)
  <2>1. task[h].pc = "insert" /\ task[h].req \in Requests /\ task[h].req.op = "create_customer"
        /\ task[h].req.arg.tier \in Tiers
    BY <1>2, <1>0 DEF InsertCustomer, TaskOK, Midway, RouteSteps, VAOps
  <2>2. CASE Respond(h, "500")
    BY <2>1, <2>2, RouteResponds DEF HttpAnswers, Midway
  <2>3. CASE UnusedCustomers # {} /\ Read(h, "audit", NewCustomer, task[h].req.arg.tier)
    <3>1. NewCustomer \in Customers
      BY <2>3 DEF NewCustomer, Fresh, UnusedCustomers
    <3>2. [id |-> NewCustomer, was |-> task[h].req.arg.tier] \in Reading
      BY <3>1, <2>1 DEF Reading
    <3>3. task'[h].pc = "audit" /\ task'[h].req = task[h].req /\ task'[h].tenant = task[h].tenant
          /\ Only(h) /\ (TaskOK(task'[h]) => TaskType')
      BY <2>3, <3>2, ReadFacts DEF HandlerSteps
    <3>4. TaskOK(task'[h])
      BY <3>3, <2>1, <1>0 DEF TaskOK, Midway, RouteSteps
    <3> QED
      BY <3>3, <3>4, <2>1 DEF RouteMove, Midway
  <2> QED
    BY <1>2, <2>2, <2>3 DEF InsertCustomer, Insert
<1>3. CASE UpdateKYCTier(h)
  <2> DEFINE row == GetCustomer(task[h].tenant, task[h].req.on)
  <2>1. task[h].pc = "serve" /\ task[h].req.op = "kyc_tier_change" /\ task[h].req \in Requests
    BY <1>3, <1>0 DEF UpdateKYCTier, Serving, TaskOK
  <2>2. CASE Respond(h, "422") \/ Respond(h, "404")
    BY <2>1, <2>2, RouteResponds DEF HttpAnswers
  <2>3. CASE /\ task[h].req.arg.tier \in Tiers /\ row # None
             /\ Read(h, "tier", task[h].req.on, row.tier)
    <3>1. task[h].req.on \in Customers
      BY <2>1, BodyFacts
    <3>2. row \in Row
      BY <2>3, <3>1 DEF GetCustomer
    <3>3. [id |-> task[h].req.on, was |-> row.tier] \in Reading
      BY <3>1, <3>2 DEF Reading, Row
    <3>4. task'[h].pc = "tier" /\ task'[h].req = task[h].req /\ task'[h].tenant = task[h].tenant
          /\ task'[h].read.id = task[h].req.on
          /\ Only(h) /\ (TaskOK(task'[h]) => TaskType')
      <4> HIDE DEF row
      <4> QED
        BY <2>3, <3>3, ReadFacts DEF HandlerSteps
    <3>5. TaskOK(task'[h])
      BY <3>4, <2>1, <2>3, <1>0 DEF TaskOK, Midway, RouteSteps, VAOps
    <3> QED
      BY <3>4, <3>5, <2>1 DEF RouteMove, Midway
  <2> QED
    BY <1>3, <2>2, <2>3 DEF UpdateKYCTier
<1>4. CASE WriteTier(h)
  <2>1. task[h].pc = "tier" /\ task[h].req \in Requests /\ task[h].req.op = "kyc_tier_change"
    BY <1>4, <1>0 DEF WriteTier, TaskOK, Midway, RouteSteps, VAOps
  <2>2. task'[h].pc = "audit" /\ task'[h].req = task[h].req /\ task'[h].tenant = task[h].tenant
        /\ Only(h) /\ (TaskOK(task'[h]) => TaskType')
    BY <1>4, GotoFacts DEF WriteTier, HandlerSteps
  <2>3. TaskOK(task'[h])
    BY <2>1, <2>2, <1>0 DEF TaskOK, Midway, RouteSteps
  <2> QED
    BY <2>1, <2>2, <2>3 DEF RouteMove, Midway
<1>5. CASE AppendAudit(h) \/ AppendAuditFails(h)
  <2>1. task[h].pc = "audit" /\ \E s \in HttpAnswers \ {"none"} : Respond(h, s)
    BY <1>5 DEF AppendAudit, AppendAuditFails, Answer, HttpAnswers
  <2> QED
    BY <2>1, RouteResponds DEF Midway
<1>6. CASE InsertUnconfirmed(h)
  BY <1>6, RouteResponds DEF InsertUnconfirmed, Midway, HttpAnswers
<1>7. CASE RouteCallFails(h, {"insert", "tier"})
  BY <1>7, RouteFails DEF Midway
<1> QED
  BY <1>1, <1>2, <1>3, <1>4, <1>5, <1>6, <1>7 DEF CustomerAction, CustomerStep

-----------------------------------------------------------------------------
VAAction(h) ==
    \/ VAStep(h) \/ (Busy(h) /\ BankFails(h)) \/ BankUnconfirmed(h) \/ BestEffortFails(h)
    \/ WriteUnconfirmed(h)
    \/ RouteCallFails(h, {"find", "write"}) /\ UNCHANGED accountVars

\* What FindVA may do: answer, or go on with an account of the customer.  A status
\* that cannot be reached from the one that was read does not occur.
LEMMA FindVACases ==
    ASSUME TaskType, NEW h \in Handlers, FindVA(h)
    PROVE  /\ task[h].pc = "find" /\ task[h].req \in Requests /\ task[h].req.op \in VAOps
           /\ \/ (\E s \in HttpAnswers \ {"none"} : Respond(h, s)) /\ UNCHANGED raced
              \/ /\ task[h].req.op = "provision_va"
                 /\ GetVAs(task[h].req.on, "ACTIVE") = {}
                 /\ Begin(h, "bank", None, None)
              \/ \E v \in Accounts, was \in {"ACTIVE", "SUSPENDED"} :
                     /\ v \in GetVAs(task[h].req.on, was)
                     /\ \/ /\ task[h].req.op \in {"rename_va", "close_va", "suspend_va"}
                           /\ was = "ACTIVE" /\ Begin(h, "bank", v, was)
                        \/ /\ task[h].req.op = "unsuspend_va"
                           /\ was = "SUSPENDED" /\ Begin(h, "write", v, was)
<1> DEFINE op == task[h].req.op
           was == IF op = "unsuspend_va" THEN "SUSPENDED" ELSE "ACTIVE"
           found == GetVAs(task[h].req.on, was)
<1>1. task[h].pc = "find" /\ task[h].req \in Requests
  BY DEF TaskType, TaskOK, FindVA
<1>2. op \in VAOps
  BY <1>1 DEF TaskType, TaskOK, Midway, RouteSteps
<1>3. CASE op = "provision_va"
  <2>1. FindForProvision(h)
    BY <1>3 DEF FindVA
  <2> QED
    BY <1>1, <1>2, <1>3, <2>1 DEF FindForProvision, HttpAnswers
<1>4. CASE op # "provision_va"
  <2>1. FindToChange(h)
    BY <1>4 DEF FindVA
  <2>2. found \subseteq Accounts /\ \A v \in found : va[v].status = was
    BY DEF GetVAs
  <2>3. op \in {"close_va", "suspend_va", "unsuspend_va"} =>
            ValidTransition(was, Outcome(task[h].req))
    BY DEF ValidTransition, Outcome
  <2>4. AnswerNone(op) \in HttpAnswers \ {"none"} /\ "200" \in HttpAnswers \ {"none"}
    BY DEF AnswerNone, HttpAnswers
  <2>5. CASE found = {}
    BY <2>1, <2>4, <2>5, <1>1, <1>2 DEF FindToChange
  <2>6. CASE found # {} /\ op = "get_va"
    BY <2>1, <2>4, <2>6, <1>1, <1>2 DEF FindToChange
  <2>7. CASE found # {} /\ op = "rename_va"
    <3>1. \E v \in found : Begin(h, "bank", v, was)
      BY <2>1, <2>2, <2>7 DEF FindToChange
    <3> QED
      BY <3>1, <2>2, <2>7, <1>1, <1>2
  <2>8. CASE found # {} /\ op \in {"close_va", "suspend_va", "unsuspend_va"}
    <3>1. \E v \in found : Begin(h, IF op = "unsuspend_va" THEN "write" ELSE "bank", v, was)
      BY <2>1, <2>2, <2>3, <2>8 DEF FindToChange
    <3> QED
      BY <3>1, <2>2, <2>8, <1>1, <1>2
  <2> QED
    BY <1>2, <1>4, <2>5, <2>6, <2>7, <2>8 DEF VAOps
<1> QED
  BY <1>3, <1>4

\* The routes on virtual accounts.
LEMMA VATasks ==
    ASSUME TaskType, NEW h \in Handlers, VAAction(h)
    PROVE  TaskType' /\ RouteMove(h, {"find", "bank", "write", "audit"})
<1> DEFINE steps == {"find", "bank", "write", "audit"}
<1>0. task[h] \in Task /\ TaskOK(task[h])
  BY DEF TaskType
<1>1. CASE FindCustomer(h)
  <2>1. task[h].pc = "serve" /\ task[h].req.op \in VAOps /\ task[h].req \in Requests
    BY <1>1, <1>0 DEF FindCustomer, TaskOK
  <2>2. CASE Respond(h, AnswerNone(task[h].req.op))
    BY <2>1, <2>2, RouteResponds DEF AnswerNone, HttpAnswers
  <2>3. CASE Goto(h, "find")
    <3>1. task'[h].pc = "find" /\ task'[h].req = task[h].req /\ task'[h].tenant = task[h].tenant
          /\ Only(h) /\ (TaskOK(task'[h]) => TaskType')
      BY <2>3, GotoFacts DEF HandlerSteps
    <3>2. TaskOK(task'[h])
      BY <3>1, <2>1, <1>0 DEF TaskOK, Midway, RouteSteps, VAOps
    <3> QED
      BY <3>1, <3>2, <2>1 DEF RouteMove
  <2> QED
    BY <1>1, <2>2, <2>3 DEF FindCustomer
<1>2. CASE FindVA(h)
  <2>1. task[h].pc = "find" /\ task[h].req \in Requests /\ task[h].req.op \in VAOps
    BY <1>2, FindVACases
  <2>2. CASE \E s \in HttpAnswers \ {"none"} : Respond(h, s)
    BY <2>1, <2>2, RouteResponds DEF Midway
  <2>3. ASSUME NEW step \in {"bank", "write"}, NEW v \in Accounts \cup {None},
               NEW was \in {"ACTIVE", "SUSPENDED", None},
               Begin(h, step, v, was), step \in RouteSteps(task[h].req.op),
               step = "bank" => task[h].req.op # "unsuspend_va",
               task[h].req.op # "provision_va" => v \in Accounts /\ was # None,
               task[h].req.op = "provision_va" => step = "bank" /\ was = None
        PROVE  TaskType' /\ RouteMove(h, steps)
    <3>1. [id |-> v, was |-> was] \in Reading
      BY DEF Reading, VAStatus
    <3>2. task'[h].pc = step /\ task'[h].req = task[h].req /\ task'[h].tenant = task[h].tenant
          /\ task'[h].read.id = v /\ task'[h].read.was = was
          /\ Only(h) /\ (TaskOK(task'[h]) => TaskType')
      BY <2>3, <3>1, ReadFacts DEF HandlerSteps, Begin
    <3>3. was # "CLOSED"
      BY VAAssumption DEF VAStatus
    <3>4. TaskOK(task'[h])
      BY <3>2, <3>3, <2>1, <2>3, <1>0 DEF TaskOK, Midway
    <3> QED
      BY <3>2, <3>4, <2>1 DEF RouteMove, Midway
  <2>4. CASE task[h].req.op = "provision_va" /\ Begin(h, "bank", None, None)
    <3>1. "bank" \in RouteSteps(task[h].req.op)
      BY <2>4 DEF RouteSteps, VAOps
    <3> QED
      BY <2>3, <2>4, <3>1
  <2>5. ASSUME NEW v \in Accounts, NEW was \in {"ACTIVE", "SUSPENDED"},
               \/ /\ task[h].req.op \in {"rename_va", "close_va", "suspend_va"}
                  /\ Begin(h, "bank", v, was)
               \/ /\ task[h].req.op = "unsuspend_va"
                  /\ Begin(h, "write", v, was)
        PROVE  TaskType' /\ RouteMove(h, steps)
    <3>1. "bank" \in RouteSteps(task[h].req.op) /\ "write" \in RouteSteps(task[h].req.op)
      BY <2>5 DEF RouteSteps, VAOps
    <3>2. was # None
      BY VAAssumption DEF VAStatus
    <3> QED
      BY <2>3, <2>5, <3>1, <3>2
  <2> QED
    BY <1>2, <2>2, <2>4, <2>5, FindVACases
<1>3. CASE CreateVA(h)
  <2>1. task[h].pc = "bank" /\ task[h].req.op = "provision_va" /\ task[h].req \in Requests
    BY <1>3, <1>0 DEF CreateVA, TaskOK
  <2>2. NewAccount \in Accounts
    BY <1>3 DEF CreateVA, Opened, NewAccount, Fresh, UnusedAccounts
  <2>3. [id |-> NewAccount, was |-> None] \in Reading
    BY <2>2 DEF Reading
  <2>4. task'[h].pc = "write" /\ task'[h].req = task[h].req /\ task'[h].tenant = task[h].tenant
        /\ task'[h].read.id = NewAccount /\ task'[h].read.was = None
        /\ Only(h) /\ (TaskOK(task'[h]) => TaskType')
    BY <1>3, <2>3, ReadFacts DEF CreateVA, HandlerSteps
  <2>5. TaskOK(task'[h])
    BY <2>1, <2>2, <2>4, <1>0, VAAssumption DEF TaskOK, Midway, RouteSteps, VAOps, VAStatus
  <2> QED
    BY <2>1, <2>4, <2>5 DEF RouteMove, Midway
<1>4. CASE UpdateVA(h) \/ BestEffort(h) \/ BestEffortFails(h)
  <2>1. task[h].pc = "bank" /\ task[h].req.op \in {"rename_va", "close_va", "suspend_va"}
        /\ task[h].req \in Requests
    BY <1>4, <1>0 DEF UpdateVA, BestEffort, BestEffortFails, TaskOK
  <2>2. task'[h].pc = "write" /\ task'[h].req = task[h].req /\ task'[h].tenant = task[h].tenant
        /\ task'[h].read = task[h].read
        /\ Only(h) /\ (TaskOK(task'[h]) => TaskType')
    BY <1>4, GotoFacts DEF UpdateVA, BestEffort, BestEffortFails, HandlerSteps
  <2>3. TaskOK(task'[h])
    BY <2>1, <2>2, <1>0 DEF TaskOK, Midway, RouteSteps, VAOps
  <2> QED
    BY <2>1, <2>2, <2>3 DEF RouteMove, Midway
<1>5. CASE WriteVA(h)
  <2>1. task[h].pc = "write" /\ task[h].req \in Requests
    BY <1>5, <1>0 DEF WriteVA, TaskOK
  <2>2. task[h].req.op \in VAOps \ {"get_va"}
    BY <2>1, <1>0 DEF TaskOK, Midway, RouteSteps
  <2>3. CASE Respond(h, "500")
    BY <2>1, <2>3, RouteResponds DEF Midway, HttpAnswers
  <2>4. CASE Goto(h, "audit")
    <3>1. task'[h].pc = "audit" /\ task'[h].req = task[h].req /\ task'[h].tenant = task[h].tenant
          /\ Only(h) /\ (TaskOK(task'[h]) => TaskType')
      BY <2>4, GotoFacts DEF HandlerSteps
    <3>2. TaskOK(task'[h])
      BY <3>1, <2>1, <2>2, <1>0 DEF TaskOK, Midway, RouteSteps, VAOps
    <3> QED
      BY <3>1, <3>2, <2>1 DEF RouteMove, Midway
  <2> QED
    BY <1>5, <2>3, <2>4 DEF WriteVA
<1>6. CASE BankFails(h) \/ RouteCallFails(h, {"find", "write"})
  BY <1>6, RouteFails DEF BankFails, Midway
<1>7. CASE BankUnconfirmed(h) \/ WriteUnconfirmed(h)
  <2>1. task[h].pc \in {"bank", "write"} /\ Respond(h, "500")
    BY <1>7 DEF BankUnconfirmed, WriteUnconfirmed
  <2> QED
    BY <2>1, RouteResponds DEF Midway, HttpAnswers
<1> QED
  BY <1>1, <1>2, <1>3, <1>4, <1>5, <1>6, <1>7 DEF VAAction, VAStep

-----------------------------------------------------------------------------
\* A handler that goes on with another id.
LEMMA ReadIdFacts ==
    ASSUME TaskType, NEW h \in Handlers, NEW step \in HandlerSteps,
           NEW id \in Customers \cup Accounts \cup Firms \cup Nat,
           task' = [task EXCEPT ![h].pc = step, ![h].read.id = id]
    PROVE  /\ task' \in [Handlers -> Task]
           /\ Only(h)
           /\ TaskOK(task'[h]) => TaskType'
           /\ task'[h].pc = step /\ task'[h].req = task[h].req
           /\ task'[h].tenant = task[h].tenant
           /\ task'[h].read.id = id
<1> DEFINE t == [task[h] EXCEPT !.pc = step, !.read.id = id]
<1>0. task[h] \in Task /\ task[h].read \in Reading
  BY DEF TaskType, Task
<1>1. [task[h].read EXCEPT !.id = id] \in Reading
  BY <1>0 DEF Reading
<1>2. t \in Task /\ t.pc = step /\ t.req = task[h].req /\ t.tenant = task[h].tenant
      /\ t.read = [task[h].read EXCEPT !.id = id]
  BY <1>0, <1>1 DEF Task
<1>3. t.read.id = id
  BY <1>0, <1>2 DEF Reading
<1>4. task' = [task EXCEPT ![h] = t]
  BY DEF TaskType
<1> HIDE DEF t
<1> QED
  BY <1>2, <1>3, <1>4 DEF TaskType, Only

\* A handler that stays where it is, with another value.
LEMMA RestFacts ==
    ASSUME TaskType, NEW h \in Handlers, NEW was \in Seq(Emails),
           task' = [task EXCEPT ![h].read.was = was]
    PROVE  /\ task' \in [Handlers -> Task]
           /\ Only(h)
           /\ TaskOK(task'[h]) => TaskType'
           /\ task'[h].pc = task[h].pc /\ task'[h].req = task[h].req
           /\ task'[h].tenant = task[h].tenant
           /\ task'[h].read.id = task[h].read.id /\ task'[h].read.was = was
<1> DEFINE t == [task[h] EXCEPT !.read.was = was]
<1>0. task[h] \in Task /\ task[h].read \in Reading
  BY DEF TaskType, Task
<1>1. [task[h].read EXCEPT !.was = was] \in Reading
  BY <1>0 DEF Reading
<1>2. t \in Task /\ t.pc = task[h].pc /\ t.req = task[h].req /\ t.tenant = task[h].tenant
      /\ t.read = [task[h].read EXCEPT !.was = was]
  BY <1>0, <1>1 DEF Task
<1>3. t.read.was = was /\ t.read.id = task[h].read.id
  BY <1>0, <1>2 DEF Reading
<1>4. task' = [task EXCEPT ![h] = t]
  BY DEF TaskType
<1> HIDE DEF t
<1> QED
  BY <1>2, <1>3, <1>4 DEF TaskType, Only

RelayAction(h) ==
    RelayStep(h) \/ (RouteCallFails(h, {"owner", "replay"}) /\ UNCHANGED relayVars)

\* The routes of the relay.
LEMMA RelayTasks ==
    ASSUME TaskType, deliveries \in Seq(Delivery), NEW h \in Handlers, RelayAction(h)
    PROVE  TaskType' /\ RouteMove(h, {"owner", "replay"})
<1>0. task[h] \in Task /\ TaskOK(task[h]) /\ task[h].read \in Reading
  BY DEF TaskType, Task
<1>1. CASE CreateEndpoint(h)
  BY <1>1, RouteResponds DEF CreateEndpoint, Serving, HttpAnswers
<1>2. CASE FindDelivery(h)
  <2>1. task[h].pc = "serve" /\ task[h].req.op = "replay" /\ task[h].req \in Requests
    BY <1>2, <1>0 DEF FindDelivery, Serving, TaskOK
  <2>2. CASE Respond(h, "404")
    BY <2>1, <2>2, RouteResponds DEF HttpAnswers
  <2>3. ASSUME NEW i \in Rows, task' = [task EXCEPT ![h].pc = "owner", ![h].read.id = i]
        PROVE  TaskType' /\ RouteMove(h, {"owner", "replay"})
    <3>1. i \in Nat
      BY DEF Rows
    <3>3. task'[h].pc = "owner" /\ task'[h].req = task[h].req /\ task'[h].tenant = task[h].tenant
          /\ task'[h].read.id = i
          /\ Only(h) /\ (TaskOK(task'[h]) => TaskType')
      BY <2>3, <3>1, ReadIdFacts DEF HandlerSteps
    <3>4. TaskOK(task'[h])
      BY <3>1, <3>3, <2>1, <1>0 DEF TaskOK, Midway, RouteSteps, VAOps
    <3> QED
      BY <3>3, <3>4, <2>1 DEF RouteMove
  <2> QED
    BY <1>2, <2>2, <2>3 DEF FindDelivery
<1>3. CASE CheckOwner(h)
  <2>1. task[h].pc = "owner" /\ task[h].req \in Requests /\ task[h].req.op = "replay"
        /\ task[h].read.id \in Nat
    BY <1>3, <1>0 DEF CheckOwner, TaskOK, Midway, RouteSteps, VAOps
  <2>2. CASE Respond(h, "404")
    BY <2>1, <2>2, RouteResponds DEF HttpAnswers, Midway
  <2>3. CASE Goto(h, "replay")
    <3>1. task'[h].pc = "replay" /\ task'[h].req = task[h].req /\ task'[h].tenant = task[h].tenant
          /\ task'[h].read = task[h].read
          /\ Only(h) /\ (TaskOK(task'[h]) => TaskType')
      BY <2>3, GotoFacts DEF HandlerSteps
    <3>2. TaskOK(task'[h])
      BY <3>1, <2>1, <1>0 DEF TaskOK, Midway, RouteSteps, VAOps
    <3> QED
      BY <3>1, <3>2, <2>1 DEF RouteMove, Midway
  <2> QED
    BY <1>3, <2>2, <2>3 DEF CheckOwner
<1>4. CASE Replay(h)
  BY <1>4, RouteResponds DEF Replay, HttpAnswers, Midway
<1>5. CASE RouteCallFails(h, {"owner", "replay"})
  BY <1>5, RouteFails DEF Midway
<1> QED
  BY <1>1, <1>2, <1>3, <1>4, <1>5 DEF RelayAction, RelayStep

\* What is left of a list after its head.
LEMMA TailFacts ==
    ASSUME NEW S, NEW s \in Seq(S), s # <<>>
    PROVE  /\ Head(s) \in S /\ Len(s) > 0
           /\ Tail(s) \in Seq(S) /\ Len(Tail(s)) = Len(s) - 1
           /\ Len(s) # 1 => Tail(s) # <<>>
           /\ Len(s) > 1 => Len(s) # 1
           /\ ~(Len(s) > 1) => Len(s) = 1
           /\ \A i \in 1..Len(Tail(s)) : Tail(s)[i] = s[i + 1]
<1>1. Len(s) \in Nat /\ Len(s) # 0
  OBVIOUS
<1>2. Tail(s) \in Seq(S) /\ Len(Tail(s)) = Len(s) - 1
  BY <1>1
<1>3. Head(s) \in S
  BY <1>1
<1>4. Len(s) # 1 => Len(Tail(s)) # 0
  BY <1>1, <1>2
<1>5. Len(<<>>) = 0
  OBVIOUS
<1>6. \A i \in 1..Len(Tail(s)) : Tail(s)[i] = s[i + 1]
  BY <1>1, <1>2
<1>7. \A n \in Nat : /\ n > 1 => n # 1
                     /\ (n # 0 /\ ~(n > 1)) => n = 1
  OBVIOUS
<1>8. Len(s) > 1 => Len(s) # 1
  BY <1>1, <1>7, Zenon
<1>9. ~(Len(s) > 1) => Len(s) = 1
  BY <1>1, <1>7, Zenon
<1> QED
  BY <1>1, <1>2, <1>3, <1>4, <1>5, <1>6, <1>8, <1>9

PlatformAction(h) ==
    \/ PlatformStep(h) \/ PutUnconfirmed(h)
    \/ RouteCallFails(h, {"add_key", "add_user"}) /\ UNCHANGED platformVars

\* The routes of the operator.
LEMMA PlatformTasks ==
    ASSUME TaskType, NEW h \in Handlers, PlatformAction(h)
    PROVE  TaskType' /\ RouteMove(h, {"serve", "reload", "add_key", "add_user"})
<1> DEFINE steps == {"serve", "reload", "add_key", "add_user"}
<1>0. task[h] \in Task /\ TaskOK(task[h]) /\ task[h].read \in Reading
  BY DEF TaskType, Task
<1>1. CASE AuthorizeOperator(h)
  <2>1. task[h].pc = "auth" /\ task[h].req.op \in OperatorOps /\ task[h].req \in Requests
    BY <1>1, <1>0 DEF AuthorizeOperator, TaskOK
  <2>2. task'[h].pc = "serve" /\ task'[h].req = task[h].req /\ task'[h].tenant = task[h].tenant
        /\ Only(h) /\ (TaskOK(task'[h]) => TaskType')
    BY <1>1, GotoFacts DEF AuthorizeOperator, HandlerSteps
  <2>3. TaskOK(task'[h])
    BY <2>1, <2>2, <1>0 DEF TaskOK, Midway, TenantOf
  <2> QED
    BY <2>1, <2>2, <2>3 DEF RouteMove
<1>2. CASE PutTierLimits(h)
  <2>1. task[h].pc = "serve" /\ task[h].req.op = "put_limits" /\ task[h].req \in Requests
    BY <1>2, <1>0 DEF PutTierLimits, Serving, TaskOK
  <2>2. CASE Respond(h, "422")
    BY <2>1, <2>2, RouteResponds DEF HttpAnswers
  <2>3. CASE Goto(h, "reload") /\ task[h].req.arg # None
    <3>1. task'[h].pc = "reload" /\ task'[h].req = task[h].req /\ task'[h].tenant = task[h].tenant
          /\ Only(h) /\ (TaskOK(task'[h]) => TaskType')
      BY <2>3, GotoFacts DEF HandlerSteps
    <3>2. TaskOK(task'[h])
      BY <3>1, <2>1, <2>3, <1>0 DEF TaskOK, Midway, RouteSteps, VAOps
    <3> QED
      BY <3>1, <3>2, <2>1 DEF RouteMove
  <2> QED
    BY <1>2, <2>2, <2>3 DEF PutTierLimits
<1>3. CASE ReloadTierLimits(h)
  <2>1. task[h].pc = "reload" /\ \E s \in HttpAnswers \ {"none"} : Respond(h, s)
    BY <1>3 DEF ReloadTierLimits, HttpAnswers
  <2> QED
    BY <2>1, RouteResponds DEF Midway
<1>4. CASE CreateTenant(h)
  <2>1. task[h].pc = "serve" /\ task[h].req.op = "onboard" /\ task[h].req \in Requests
    BY <1>4, <1>0 DEF CreateTenant, Serving, TaskOK
  <2>2. CASE Respond(h, "400")
    BY <2>1, <2>2, RouteResponds DEF HttpAnswers
  <2>3. CASE /\ task[h].req.arg # <<>> /\ UnusedFirms # {}
             /\ task' = [task EXCEPT ![h].pc = "add_key", ![h].read.id = NewFirm]
    <3>1. NewFirm \in Firms
      BY <2>3 DEF NewFirm, Fresh, UnusedFirms
    <3>3. task'[h].pc = "add_key" /\ task'[h].req = task[h].req
          /\ task'[h].tenant = task[h].tenant /\ task'[h].read.id = NewFirm
          /\ Only(h) /\ (TaskOK(task'[h]) => TaskType')
      BY <2>3, <3>1, ReadIdFacts DEF HandlerSteps
    <3>4. TaskOK(task'[h])
      BY <3>1, <3>3, <2>1, <2>3, <1>0 DEF TaskOK, Midway, RouteSteps, VAOps
    <3> QED
      BY <3>3, <3>4, <2>1 DEF RouteMove
  <2> QED
    BY <1>4, <2>2, <2>3 DEF CreateTenant, AddFirm
<1>5. CASE CreateFirstKey(h)
  <2>1. task[h].pc = "add_key" /\ task[h].req \in Requests /\ task[h].req.op = "onboard"
        /\ task[h].req.arg # <<>> /\ task[h].read.id \in Firms
    BY <1>5, <1>0 DEF CreateFirstKey, TaskOK, Midway, RouteSteps, VAOps
  <2>2. task[h].req.arg \in Seq(Emails)
    BY <2>1, BodyFacts
  <2>4. task'[h].pc = "add_user" /\ task'[h].req = task[h].req
        /\ task'[h].tenant = task[h].tenant /\ task'[h].read.id = task[h].read.id
        /\ task'[h].read.was = task[h].req.arg
        /\ Only(h) /\ (TaskOK(task'[h]) => TaskType')
    <3> DEFINE read == [task[h].read EXCEPT !.was = task[h].req.arg]
               t == [task[h] EXCEPT !.pc = "add_user", !.read = read]
    <3>1. read \in Reading /\ read.was = task[h].req.arg /\ read.id = task[h].read.id
      BY <1>0, <2>2 DEF Reading
    <3>2. task' = [task EXCEPT ![h] = t]
      BY <1>0, <1>5 DEF CreateFirstKey, TaskType, Task
    <3> HIDE DEF read
    <3>3. t \in Task /\ t.pc = "add_user" /\ t.req = task[h].req /\ t.tenant = task[h].tenant
          /\ t.read = read
      BY <1>0, <3>1 DEF Task, HandlerSteps
    <3> HIDE DEF t
    <3> QED
      BY <3>1, <3>2, <3>3 DEF TaskType, Only
  <2>5. TaskOK(task'[h])
    BY <2>1, <2>2, <2>4, <1>0 DEF TaskOK, Midway, RouteSteps, VAOps
  <2> QED
    BY <2>1, <2>4, <2>5 DEF RouteMove, Midway
<1>6. CASE CreateCredential(h)
  <2>1. task[h].pc = "add_user" /\ task[h].req \in Requests /\ task[h].req.op = "onboard"
        /\ task[h].read.was \in Seq(Emails) /\ task[h].read.was # <<>>
        /\ task[h].read.id \in Firms
    BY <1>6, <1>0 DEF CreateCredential, TaskOK, Midway, RouteSteps, VAOps
  <2>2. CASE Respond(h, "500") \/ Respond(h, "201")
    BY <2>1, <2>2, RouteResponds DEF HttpAnswers, Midway
  <2>3. CASE /\ Len(task[h].read.was) # 1
             /\ task' = [task EXCEPT ![h].read.was = Tail(task[h].read.was)]
    <3> DEFINE rest == Tail(task[h].read.was)
    <3>1. rest \in Seq(Emails) /\ rest # <<>>
      BY <2>1, <2>3, TailFacts
    <3> HIDE DEF rest
    <3>3. task'[h].pc = "add_user" /\ task'[h].req = task[h].req
          /\ task'[h].tenant = task[h].tenant /\ task'[h].read.id = task[h].read.id
          /\ task'[h].read.was = rest
          /\ Only(h) /\ (TaskOK(task'[h]) => TaskType')
      BY <2>1, <2>3, <3>1, RestFacts DEF rest
    <3>4. TaskOK(task'[h])
      BY <3>1, <3>3, <2>1, <1>0 DEF TaskOK, Midway, RouteSteps, VAOps
    <3> QED
      BY <3>3, <3>4, <2>1 DEF RouteMove, Midway
  <2> QED
    BY <1>6, <2>2, <2>3 DEF CreateCredential
<1>7. CASE OnboardAdmin(h)
  BY <1>7, RouteResponds DEF OnboardAdmin, Serving, HttpAnswers
<1>8. CASE PutUnconfirmed(h)
  BY <1>8, RouteResponds DEF PutUnconfirmed, Serving, HttpAnswers
<1>9. CASE RouteCallFails(h, {"add_key", "add_user"})
  BY <1>9, RouteFails DEF Midway
<1> QED
  BY <1>1, <1>2, <1>3, <1>4, <1>5, <1>6, <1>7, <1>8, <1>9 DEF PlatformAction, PlatformStep

-----------------------------------------------------------------------------
(***************************************************************************)
(* The gateway.                                                            *)
(***************************************************************************)
Entry == {Unset, InFlight} \cup {Stored(a) : a \in HttpAnswers \ {"none"}}

GatewayType ==
    /\ issued \in [ApiKeys -> {"no", "active", "revoked"}]
    /\ redis \in [Slots -> Entry]
    /\ workload \in Workloads
    /\ executed \subseteq Slots
    /\ lapsed \subseteq Slots
    /\ faults \in 0..MaxFaults

GatewayAction(h) ==
    Accept(h) \/ GatewayStep(h) \/ MiddlewareCallFails(h) \/ MarkUnconfirmed(h)
    \/ RouteCallFails(h, {"serve"})

\* A handler past authentication with an idempotency key has a slot in Redis.
LEMMA SlotFacts ==
    ASSUME TaskType, NEW h \in Handlers, task[h].pc \notin {"idle", "auth"},
           task[h].req.idem # None
    PROVE  Slot(h) \in Slots
<1>1. task[h].req \in Requests /\ task[h].tenant = TenantOf(task[h].req)
  BY DEF TaskType, TaskOK
<1>2. task[h].tenant \in Tenants /\ task[h].req.idem \in IdemKeys
  BY <1>1, RequestFacts
<1> QED
  BY <1>2 DEF Slot, Slots

\* The kinds of an entry tell them apart.
LEMMA EntryFacts ==
    /\ Unset \in Entry /\ InFlight \in Entry
    /\ \A a \in HttpAnswers \ {"none"} : Stored(a) \in Entry
    /\ Unset.kind = "unset" /\ InFlight.kind = "inflight"
    /\ \A a : Stored(a).kind = "stored"
    /\ Unset # InFlight /\ \A a : Stored(a) # Unset /\ Stored(a) # InFlight
    /\ \A x \in Entry : \/ x = Unset
                        \/ x = InFlight
                        \/ x.kind = "stored" /\ x # Unset /\ x # InFlight
<1>1. Unset.kind = "unset" /\ InFlight.kind = "inflight"
      /\ \A a : Stored(a).kind = "stored"
  BY DEF Unset, InFlight, Stored
<1>2. Unset # InFlight /\ \A a : Stored(a) # Unset /\ Stored(a) # InFlight
  BY <1>1
<1> QED
  BY <1>1, <1>2 DEF Entry

\* Steps between the socket and the route.
LEMMA GatewayTasks ==
    ASSUME TaskType, GatewayType, NEW h \in Handlers, GatewayAction(h)
    PROVE  /\ TaskType' /\ Only(h)
           /\ task'[h].pc \in {"idle", "auth", "get", "setnx", "serve", "store"}
           /\ task'[h].pc \notin {"idle", "auth"} =>
                  task[h].pc # "idle" /\ task'[h].req = task[h].req
<1>0. task[h] \in Task /\ TaskOK(task[h])
  BY DEF TaskType
<1>1. CASE Accept(h)
  <2>1. PICK r \in workload : task' = [task EXCEPT ![h] = [Idle EXCEPT !.pc = "auth", !.req = r]]
    BY <1>1 DEF Accept
  <2> DEFINE t == [Idle EXCEPT !.pc = "auth", !.req = r]
  <2>2. r \in Requests
    BY DEF Requests, GatewayType
  <2>3. t \in Task /\ t.pc = "auth" /\ t.req = r /\ t.tenant = None
    BY <2>2 DEF Idle, Task, NothingRead, Reading, HandlerSteps, HttpAnswers
  <2>4. TaskOK(t)
    <3> HIDE DEF t
    <3> QED
      BY <2>2, <2>3 DEF TaskOK, Midway
  <2> HIDE DEF t
  <2> QED
    BY <2>1, <2>3, <2>4 DEF TaskType, Only, t
<1>2. CASE Authenticate(h)
  <2> DEFINE r == task[h].req
             t == [task[h] EXCEPT !.tenant = KeyOwner[r.key],
                                  !.pc = IF r.idem = None THEN "serve" ELSE "get"]
  <2>1. task[h].pc = "auth" /\ r.key # None /\ r \in Requests
    BY <1>2, <1>0 DEF Authenticate, TaskOK
  <2>2. r.op \notin OperatorOps /\ KeyOwner[r.key] \in Tenants
    BY <2>1, RequestFacts
  <2>3. t \in Task /\ t.pc = (IF r.idem = None THEN "serve" ELSE "get") /\ t.req = r
        /\ t.tenant = KeyOwner[r.key]
    BY <2>2, <1>0 DEF Task, HandlerSteps
  <2>4. TaskOK(t)
    <3> HIDE DEF t
    <3> QED
      BY <2>1, <2>2, <2>3 DEF TaskOK, Midway, TenantOf
  <2>5. task' = [task EXCEPT ![h] = IF issued[r.key] # "active" THEN Idle ELSE t]
    BY <1>2 DEF Authenticate
  <2> HIDE DEF t
  <2> QED
    BY <2>1, <2>3, <2>4, <2>5, IdleFacts DEF TaskType, Only
<1>3. CASE Dismiss(h)
  BY <1>3, DismissFacts, IdleFacts
<1>4. CASE task[h].pc = "get" /\ Goto(h, "setnx")
  <2>1. task'[h].pc = "setnx" /\ task'[h].req = task[h].req /\ task'[h].tenant = task[h].tenant
        /\ Only(h) /\ (TaskOK(task'[h]) => TaskType')
    BY <1>4, GotoFacts DEF HandlerSteps
  <2>2. TaskOK(task'[h])
    BY <1>0, <1>4, <2>1 DEF TaskOK, Midway
  <2> QED
    BY <1>4, <2>1, <2>2
<1>5. CASE task[h].pc = "setnx" /\ Goto(h, "serve")
  <2>1. task'[h].pc = "serve" /\ task'[h].req = task[h].req /\ task'[h].tenant = task[h].tenant
        /\ Only(h) /\ (TaskOK(task'[h]) => TaskType')
    BY <1>5, GotoFacts DEF HandlerSteps
  <2>2. TaskOK(task'[h])
    BY <1>0, <1>5, <2>1 DEF TaskOK, Midway
  <2> QED
    BY <1>5, <2>1, <2>2
<1>6. CASE CreateAPIKey(h) \/ RevokeAPIKey(h) \/ RouteCallFails(h, {"serve"})
  <2>1. TaskType' /\ RouteMove(h, {})
    BY <1>6, KeyTasks, RouteFails
  <2>2. task[h].pc = "serve"
    BY <1>6 DEF CreateAPIKey, RevokeAPIKey, RouteCallFails, Serving
  <2> QED
    BY <2>1, <2>2, IdleFacts DEF RouteMove
<1>7. CASE LookUp(h) \/ MarkInFlight(h) \/ StoreResponse(h) \/ MiddlewareCallFails(h)
           \/ MarkUnconfirmed(h)
  BY <1>3, <1>4, <1>5, <1>7
  DEF LookUp, MarkInFlight, StoreResponse, MiddlewareCallFails, MarkUnconfirmed
<1> QED
  BY <1>1, <1>2, <1>6, <1>7 DEF GatewayAction, GatewayStep

\* A fault is counted.
LEMMA FaultFacts ==
    ASSUME GatewayType, Fault
    PROVE  faults' \in 0..MaxFaults /\ faults' > 0
BY GatewayAssumption DEF GatewayType, Fault

\* The gateway keeps its tables in order.
LEMMA GatewayTables ==
    ASSUME TaskType, GatewayType, NEW h \in Handlers, GatewayAction(h)
    PROVE  GatewayType'
<1>0. task[h] \in Task /\ TaskOK(task[h])
  BY DEF TaskType
<1>1. CASE Accept(h) \/ Authenticate(h) \/ LookUp(h)
  BY <1>1 DEF Accept, Authenticate, LookUp, GatewayType
<1>2. CASE MarkInFlight(h)
  <2>1. Slot(h) \in Slots
    BY <1>0, <1>2, SlotFacts DEF MarkInFlight, TaskOK
  <2> QED
    BY <1>2, <2>1, EntryFacts DEF MarkInFlight, GatewayType
<1>3. CASE StoreResponse(h)
  <2>1. task[h].answer \in HttpAnswers \ {"none"}
    BY <1>0, <1>3 DEF StoreResponse, TaskOK, Task
  <2>2. Stored(task[h].answer) \in Entry
    BY <2>1, EntryFacts
  <2> QED
    BY <1>3, <2>2 DEF StoreResponse, GatewayType
<1>4. CASE CreateAPIKey(h)
  BY <1>4 DEF CreateAPIKey, AddKey, GatewayType
<1>5. CASE RevokeAPIKey(h)
  BY <1>5 DEF RevokeAPIKey, GatewayType
<1>6. CASE MiddlewareCallFails(h) \/ RouteCallFails(h, {"serve"})
  BY <1>6, FaultFacts DEF MiddlewareCallFails, RouteCallFails, GatewayType
<1>7. CASE MarkUnconfirmed(h)
  <2>1. redis' \in [Slots -> Entry]
    BY <1>7, EntryFacts DEF MarkUnconfirmed, GatewayType
  <2> QED
    BY <1>7, <2>1, FaultFacts DEF MarkUnconfirmed, GatewayType
<1> QED
  BY <1>1, <1>2, <1>3, <1>4, <1>5, <1>6, <1>7 DEF GatewayAction, GatewayStep

-----------------------------------------------------------------------------
(***************************************************************************)
(* Customers and accounts.  A handler that works on an account has been    *)
(* authenticated for the tenant of its customer, and the account it has    *)
(* read is one of that customer.                                           *)
(***************************************************************************)
AccountTables ==
    /\ customers \in [Customers -> Row \cup {None}]
    /\ va \in [Accounts -> VARow \cup {None}]
    /\ bank \in [Accounts -> BankRow \cup {None}]
    /\ raced \subseteq Customers

\* Every row of virtual_accounts has its account at the provider.
Linked ==
    \A v \in Accounts : va[v] # None => bank[v] # None /\ bank[v].customer = va[v].customer

\* The steps of a handler that has looked its customer up.
OnCustomer(t) ==
    \/ t.pc = "tier"
    \/ t.pc \in {"find", "bank", "write", "audit"} /\ t.req.op \in VAOps

AtAccount(t) ==
    /\ OnCustomer(t) => customers[t.req.on] # None /\ customers[t.req.on].tenant = t.tenant
    /\ (t.pc \in {"bank", "write"} /\ t.req.op # "provision_va") =>
           va[t.read.id] # None /\ va[t.read.id].customer = t.req.on
    /\ (t.pc = "write" /\ t.req.op = "provision_va") =>
           bank[t.read.id] # None /\ bank[t.read.id].customer = t.req.on

AccountInv == AccountTables /\ Linked /\ \A h \in Handlers : AtAccount(task[h])

\* Nobody changes the tenant of a customer or the customer of an account.
AccountsKeep ==
    /\ \A c \in Customers : customers[c] # None =>
           customers'[c] # None /\ customers'[c].tenant = customers[c].tenant
    /\ \A v \in Accounts : bank[v] # None =>
           bank'[v] # None /\ bank'[v].customer = bank[v].customer
    /\ \A v \in Accounts : va[v] # None => va'[v] # None /\ va'[v].customer = va[v].customer

\* What a handler on a customer has in its request.
LEMMA OnCustomerFacts ==
    ASSUME TaskType, NEW h \in Handlers, OnCustomer(task[h])
    PROVE  /\ task[h].req \in Requests /\ task[h].req.on \in Customers
           /\ task[h].tenant \in Tenants
<1>1. task[h].req \in Requests /\ task[h].tenant = TenantOf(task[h].req)
  BY DEF TaskType, TaskOK, OnCustomer
<1>2. task[h].req.op \in VAOps \cup {"kyc_tier_change"}
  BY DEF TaskType, TaskOK, OnCustomer, Midway, RouteSteps
<1>3. task[h].req.op \notin OperatorOps
  BY <1>2 DEF VAOps, OperatorOps
<1> QED
  BY <1>1, <1>2, <1>3, BodyFacts, RequestFacts

\* At "bank" and "write" a route of the accounts is at work.
LEMMA WritingFacts ==
    ASSUME TaskType, NEW h \in Handlers, task[h].pc \in {"find", "bank", "write"}
    PROVE  OnCustomer(task[h]) /\ task[h].req.op \in VAOps
BY DEF TaskType, TaskOK, OnCustomer, Midway, RouteSteps, VAOps

\* What a handler that does not move relies on stays.
LEMMA AtAccountStays ==
    ASSUME TaskType, AccountsKeep, NEW g \in Handlers, AtAccount(task[g]), task'[g] = task[g]
    PROVE  AtAccount(task[g])'
<1>1. OnCustomer(task[g]) => task[g].req.on \in Customers
  BY OnCustomerFacts
<1>2. (task[g].pc = "write" \/ (task[g].pc = "bank" /\ task[g].req.op # "provision_va")) =>
          task[g].read.id \in Accounts
  BY DEF TaskType, TaskOK
<1> QED
  BY <1>1, <1>2 DEF AtAccount, AccountsKeep, OnCustomer

\* An insert takes a row that is not there.
LEMMA InsertFacts ==
    ASSUME TaskType, AccountTables, NEW h \in Handlers, task[h].pc = "insert", Insert(h)
    PROVE  /\ customers' \in [Customers -> Row \cup {None}]
           /\ NewCustomer \in Customers /\ customers[NewCustomer] = None
           /\ customers'[NewCustomer] # None
           /\ customers'[NewCustomer].tier = task[h].req.arg.tier
           /\ \A c \in Customers \ {NewCustomer} : customers'[c] = customers[c]
<1>1. task[h].req \in Requests /\ task[h].tenant = TenantOf(task[h].req)
      /\ task[h].req.arg.tier \in Tiers /\ task[h].req.op = "create_customer"
  BY DEF TaskType, TaskOK, Midway, RouteSteps, VAOps
<1>2. task[h].tenant \in Tenants /\ task[h].req.on \in ExternalRefs
  BY <1>1, BodyFacts, RequestFacts DEF OperatorOps
<1> DEFINE row == [tenant |-> task[h].tenant, ref |-> task[h].req.on,
                   tier |-> task[h].req.arg.tier]
<1>3. row \in Row /\ row # None /\ row.tier = task[h].req.arg.tier
  BY <1>1, <1>2, CustomersAssumption DEF Row
<1>4. NewCustomer \in Customers /\ customers[NewCustomer] = None
  BY DEF Insert, NewCustomer, Fresh, UnusedCustomers
<1>5. customers' = [customers EXCEPT ![NewCustomer] = row]
  BY DEF Insert
<1> HIDE DEF row
<1> QED
  BY <1>3, <1>4, <1>5 DEF AccountTables

\* The tier of a customer is written into a row that is there.
LEMMA TierFacts ==
    ASSUME TaskType, AccountInv, NEW h \in Handlers, WriteTier(h)
    PROVE  /\ customers' \in [Customers -> Row \cup {None}]
           /\ task[h].req.on \in Customers /\ task[h].read.id = task[h].req.on
           /\ customers[task[h].req.on] # None /\ customers'[task[h].req.on] # None
           /\ customers'[task[h].req.on].tenant = customers[task[h].req.on].tenant
           /\ customers[task[h].req.on].tenant = task[h].tenant
           /\ customers'[task[h].req.on].tier = task[h].req.arg.tier
           /\ \A c \in Customers \ {task[h].req.on} : customers'[c] = customers[c]
<1>1. task[h].pc = "tier" /\ OnCustomer(task[h])
  BY DEF WriteTier, OnCustomer
<1>2. task[h].req.on \in Customers
  BY <1>1, OnCustomerFacts
<1>3. task[h].req.arg.tier \in Tiers /\ task[h].read.id = task[h].req.on
  BY <1>1 DEF TaskType, TaskOK
<1>4. customers[task[h].req.on] \in Row /\ customers[task[h].req.on] # None
      /\ customers[task[h].req.on].tenant = task[h].tenant
  BY <1>1, <1>2 DEF AccountInv, AccountTables, AtAccount
<1> DEFINE row == [customers[task[h].req.on] EXCEPT !.tier = task[h].req.arg.tier]
<1>5. row \in Row /\ row.tier = task[h].req.arg.tier
      /\ row.tenant = customers[task[h].req.on].tenant
  BY <1>3, <1>4 DEF Row
<1>6. row # None
  BY <1>5, CustomersAssumption
<1>7. customers' = [customers EXCEPT ![task[h].req.on] = row]
  BY DEF WriteTier
<1> HIDE DEF row
<1> QED
  BY <1>2, <1>3, <1>4, <1>5, <1>6, <1>7 DEF AccountInv, AccountTables

\* An account is opened under an id the provider has not used.
LEMMA OpenedFacts ==
    ASSUME TaskType, AccountInv, NEW h \in Handlers, task[h].pc = "bank", Opened(h)
    PROVE  /\ bank' \in [Accounts -> BankRow \cup {None}]
           /\ NewAccount \in Accounts /\ bank[NewAccount] = None /\ va[NewAccount] = None
           /\ bank'[NewAccount] # None
           /\ bank'[NewAccount].customer = task[h].req.on /\ bank'[NewAccount].name = None
           /\ bank'[NewAccount].status = "ACTIVE"
           /\ \A v \in Accounts \ {NewAccount} : bank'[v] = bank[v]
<1>1. task[h].req.on \in Customers
  BY OnCustomerFacts, WritingFacts
<1>2. NewAccount \in Accounts /\ bank[NewAccount] = None
  BY DEF Opened, NewAccount, Fresh, UnusedAccounts
<1> DEFINE row == [customer |-> task[h].req.on, status |-> "ACTIVE", name |-> None]
<1>3. row \in BankRow /\ row # None
  BY <1>1, VAAssumption DEF BankRow, VAStatus
<1>4. bank' = [bank EXCEPT ![NewAccount] = row]
  BY DEF Opened
<1>5. row.customer = task[h].req.on /\ row.name = None /\ row.status = "ACTIVE"
  OBVIOUS
<1> HIDE DEF row
<1> QED
  BY <1>2, <1>3, <1>4, <1>5 DEF AccountInv, AccountTables, Linked

\* A name is changed at an account of the customer.
LEMMA RenamedFacts ==
    ASSUME TaskType, AccountInv, NEW h \in Handlers,
           task[h].pc = "bank", task[h].req.op = "rename_va",
           bank' = [bank EXCEPT ![task[h].read.id].name = task[h].req.arg]
    PROVE  LET v == task[h].read.id
           IN  /\ bank' \in [Accounts -> BankRow \cup {None}]
               /\ v \in Accounts /\ bank[v] # None /\ bank'[v] # None
               /\ bank'[v].customer = bank[v].customer /\ bank[v].customer = task[h].req.on
               /\ bank'[v].name = task[h].req.arg /\ bank'[v].status = bank[v].status
               /\ \A w \in Accounts \ {v} : bank'[w] = bank[w]
<1> DEFINE v == task[h].read.id
<1>1. task[h].req \in Requests
  BY OnCustomerFacts, WritingFacts
<1>2. task[h].req.arg \in Names
  BY <1>1, BodyFacts
<1>3. v \in Accounts
  BY DEF TaskType, TaskOK
<1>4. va[v] # None /\ va[v].customer = task[h].req.on
  BY DEF AccountInv, AtAccount
<1>5. bank[v] # None /\ bank[v].customer = task[h].req.on /\ bank[v] \in BankRow
  BY <1>3, <1>4 DEF AccountInv, AccountTables, Linked
<1> DEFINE row == [bank[v] EXCEPT !.name = task[h].req.arg]
<1>6. row \in BankRow /\ row.customer = bank[v].customer /\ row.name = task[h].req.arg
      /\ row.status = bank[v].status
  BY <1>2, <1>5 DEF BankRow
<1>7. row # None
  BY <1>6, VAAssumption
<1>8. bank' = [bank EXCEPT ![v] = row]
  OBVIOUS
<1> HIDE DEF row
<1> QED
  BY <1>3, <1>5, <1>6, <1>7, <1>8 DEF AccountInv, AccountTables

\* The provider is told that an account of the customer is closed or suspended.
LEMMA ToldFacts ==
    ASSUME TaskType, AccountInv, NEW h \in Handlers, BestEffort(h)
    PROVE  LET v == task[h].read.id
           IN  /\ bank' \in [Accounts -> BankRow \cup {None}]
               /\ v \in Accounts /\ bank[v] # None /\ bank'[v] # None
               /\ bank'[v].customer = bank[v].customer /\ bank[v].customer = task[h].req.on
               /\ bank'[v].name = bank[v].name
               /\ bank'[v].status = Outcome(task[h].req)
               /\ \A w \in Accounts \ {v} : bank'[w] = bank[w]
<1> DEFINE v == task[h].read.id
           told == Outcome(task[h].req)
<1>1. task[h].pc = "bank" /\ task[h].req.op \in {"close_va", "suspend_va"}
      /\ bank' = [bank EXCEPT ![v].status = told]
  BY DEF BestEffort
<1>2. told \in VAStatus
  BY <1>1 DEF Outcome, VAStatus
<1> HIDE DEF told
<1>3. v \in Accounts
  BY <1>1 DEF TaskType, TaskOK
<1>4. va[v] # None /\ va[v].customer = task[h].req.on
  BY <1>1 DEF AccountInv, AtAccount
<1>5. bank[v] # None /\ bank[v].customer = task[h].req.on /\ bank[v] \in BankRow
  BY <1>3, <1>4 DEF AccountInv, AccountTables, Linked
<1> DEFINE row == [bank[v] EXCEPT !.status = told]
<1>6. row \in BankRow /\ row.customer = bank[v].customer /\ row.name = bank[v].name
      /\ row.status = told
  BY <1>2, <1>5 DEF BankRow
<1>7. row # None
  BY <1>6, VAAssumption
<1>8. bank' = [bank EXCEPT ![v] = row]
  BY <1>1
<1> HIDE DEF row
<1> QED
  BY <1>3, <1>5, <1>6, <1>7, <1>8 DEF AccountInv, AccountTables, told

\* The statement that changes virtual_accounts writes one row of the customer.
LEMMA WrittenFacts ==
    ASSUME TaskType, AccountInv, NEW h \in Handlers, task[h].pc = "write"
    PROVE  LET v == task[h].read.id
               op == task[h].req.op
           IN  /\ Written(h) \in [Accounts -> VARow \cup {None}]
               /\ v \in Accounts /\ Written(h)[v] # None
               /\ Written(h)[v].customer = task[h].req.on
               /\ bank[v] # None /\ bank[v].customer = task[h].req.on
               /\ \A w \in Accounts \ {v} : Written(h)[w] = va[w]
               /\ op = "provision_va" => /\ Written(h)[v].status = "ACTIVE"
                                         /\ Written(h)[v].name = bank[v].name
               /\ op # "provision_va" => va[v] # None /\ va[v].customer = task[h].req.on
               /\ op = "rename_va" => /\ Written(h)[v].status = va[v].status
                                      /\ Written(h)[v].name = task[h].req.arg
               /\ op \notin {"provision_va", "rename_va"} =>
                      /\ Written(h)[v].status = Outcome(task[h].req)
                      /\ Written(h)[v].name = va[v].name
<1> DEFINE v == task[h].read.id
           op == task[h].req.op
<1>1. task[h].req \in Requests /\ task[h].req.on \in Customers /\ op \in VAOps \ {"get_va"}
      /\ v \in Accounts
  BY OnCustomerFacts, WritingFacts DEF TaskType, TaskOK, Midway, RouteSteps
<1>2. op # "provision_va" => va[v] \in VARow /\ va[v] # None /\ va[v].customer = task[h].req.on
  BY <1>1 DEF AccountInv, AccountTables, AtAccount
<1>3. bank[v] # None /\ bank[v].customer = task[h].req.on /\ bank[v] \in BankRow
  BY <1>1, <1>2 DEF AccountInv, AccountTables, AtAccount, Linked
<1>4. CASE op = "provision_va"
  <2> DEFINE row == [customer |-> task[h].req.on, status |-> "ACTIVE", name |-> bank[v].name]
  <2>1. row \in VARow /\ row.customer = task[h].req.on /\ row.status = "ACTIVE"
        /\ row.name = bank[v].name
    BY <1>1, <1>3 DEF VARow, BankRow, VAStatus
  <2>2. row # None
    BY <2>1, VAAssumption
  <2>3. Written(h) = [va EXCEPT ![v] = row]
    BY <1>4 DEF Written
  <2> HIDE DEF row
  <2> QED
    BY <1>1, <1>3, <1>4, <2>1, <2>2, <2>3 DEF AccountInv, AccountTables
<1>5. CASE op = "rename_va"
  <2> DEFINE row == [va[v] EXCEPT !.name = task[h].req.arg]
  <2>0. task[h].req.arg \in Names
    BY <1>1, <1>5, BodyFacts
  <2>1. row \in VARow /\ row.customer = task[h].req.on /\ row.status = va[v].status
        /\ row.name = task[h].req.arg
    BY <1>1, <1>2, <1>5, <2>0 DEF VARow
  <2>2. row # None
    BY <2>1, VAAssumption
  <2>3. Written(h) = [va EXCEPT ![v] = row]
    BY <1>5 DEF Written
  <2> HIDE DEF row
  <2> QED
    BY <1>1, <1>2, <1>3, <1>5, <2>1, <2>2, <2>3 DEF AccountInv, AccountTables
<1>6. CASE op \in {"close_va", "suspend_va", "unsuspend_va"}
  <2> DEFINE new == Outcome(task[h].req)
             row == [va[v] EXCEPT !.status = new]
  <2>0. new \in VAStatus
    BY <1>6 DEF Outcome, VAStatus
  <2>3. Written(h) = [va EXCEPT ![v] = row]
    BY <1>6 DEF Written, UpdateVAStatus
  <2> HIDE DEF new
  <2>1. row \in VARow /\ row.customer = task[h].req.on /\ row.status = new
        /\ row.name = va[v].name
    BY <1>1, <1>2, <1>6, <2>0 DEF VARow
  <2>2. row # None
    BY <2>1, VAAssumption
  <2> HIDE DEF row
  <2> QED
    BY <1>1, <1>2, <1>3, <1>6, <2>1, <2>2, <2>3 DEF AccountInv, AccountTables, new
<1> QED
  BY <1>1, <1>4, <1>5, <1>6 DEF VAOps

\* Steps of handlers that are not on a customer leave the accounts in order.
LEMMA AccountsElsewhere ==
    ASSUME TaskType, AccountInv, UNCHANGED <<customers, va, bank, raced>>,
           \A g \in Handlers : \/ task'[g] = task[g]
                               \/ task'[g].pc \notin {"tier", "find", "bank", "write", "audit"}
    PROVE  AccountInv' /\ AccountsKeep
<1>1. AccountsKeep
  BY DEF AccountsKeep
<1>2. \A g \in Handlers : AtAccount(task[g])'
  <2> TAKE g \in Handlers
  <2>1. CASE task'[g] = task[g]
    BY <1>1, <2>1, AtAccountStays DEF AccountInv
  <2>2. CASE task'[g].pc \notin {"tier", "find", "bank", "write", "audit"}
    BY <2>2 DEF AtAccount, OnCustomer
  <2> QED
    BY <2>1, <2>2
<1> QED
  BY <1>1, <1>2 DEF AccountInv, AccountTables, Linked

\* Routes on customers.
LEMMA CustomerAccounts ==
    ASSUME TaskType, AccountInv, NEW h \in Handlers, CustomerAction(h),
           UNCHANGED <<va, bank, raced>>
    PROVE  AccountInv' /\ AccountsKeep
<1>0. TaskType' /\ RouteMove(h, {"insert", "tier", "audit"})
  BY CustomerTasks DEF AccountInv, AccountTables
<1>1. customers' \in [Customers -> Row \cup {None}] /\ AccountsKeep
  <2>1. CASE UNCHANGED customers
    BY <2>1 DEF AccountInv, AccountTables, AccountsKeep
  <2>2. CASE Insert(h) /\ task[h].pc = "insert"
    BY <2>2, InsertFacts DEF AccountInv, AccountTables, AccountsKeep
  <2>3. CASE WriteTier(h)
    BY <2>3, TierFacts DEF AccountInv, AccountTables, AccountsKeep
  <2> QED
    BY <2>1, <2>2, <2>3
    DEF CustomerAction, CustomerStep, CreateCustomer, InsertCustomer, UpdateKYCTier, AppendAudit,
        AppendAuditFails, InsertUnconfirmed
<1>2. AtAccount(task[h])'
  <2>1. CASE UpdateKYCTier(h) /\ task'[h].pc = "tier"
    <3> DEFINE row == GetCustomer(task[h].tenant, task[h].req.on)
    <3>1. row # None /\ UNCHANGED customers
      <4>1. task[h].pc = "serve" /\ task[h] \in Task
        BY <2>1 DEF UpdateKYCTier, Serving, TaskType
      <4>2. row = None => \E s \in HttpAnswers \ {"none"} : Respond(h, s)
        BY <2>1 DEF UpdateKYCTier, HttpAnswers
      <4>3. (\E s \in HttpAnswers \ {"none"} : Respond(h, s)) => task'[h].pc \in {"idle", "store"}
        BY <4>1, RespondFacts, IdleFacts
      <4> QED
        BY <2>1, <4>2, <4>3 DEF UpdateKYCTier
    <3>2. customers'[task[h].req.on] # None /\ customers'[task[h].req.on].tenant = task[h].tenant
      BY <3>1 DEF GetCustomer
    <3>3. task'[h].req = task[h].req /\ task'[h].tenant = task[h].tenant
      BY <1>0, <2>1, IdleFacts DEF RouteMove
    <3> QED
      BY <2>1, <3>2, <3>3 DEF AtAccount
  <2>2. CASE (InsertCustomer(h) \/ WriteTier(h)) /\ task'[h].pc = "audit"
    <3>1. task'[h].req = task[h].req
      BY <1>0, <2>2, IdleFacts DEF RouteMove
    <3>2. task[h].req.op \notin VAOps
      BY <2>2 DEF InsertCustomer, WriteTier, TaskType, TaskOK, Midway, RouteSteps, VAOps
    <3> QED
      BY <2>2, <3>1, <3>2 DEF AtAccount, OnCustomer
  <2>3. CASE task'[h].pc \notin {"tier", "audit"}
    <3>1. task'[h].pc \notin {"find", "bank", "write"}
      BY <1>0, IdleFacts DEF RouteMove
    <3> QED
      BY <2>3, <3>1 DEF AtAccount, OnCustomer
  <2>4. task'[h].pc \in {"tier", "audit"} =>
            \/ UpdateKYCTier(h) /\ task'[h].pc = "tier"
            \/ (InsertCustomer(h) \/ WriteTier(h)) /\ task'[h].pc = "audit"
    <3>1. ASSUME NEW s \in HttpAnswers \ {"none"}, Respond(h, s), task[h].pc \notin {"idle", "auth"}
          PROVE  task'[h].pc \notin {"tier", "audit"}
      BY <3>1, RespondFacts, IdleFacts
    <3>2. CASE CreateCustomer(h)
      <4>1. task[h].pc = "serve" /\ (Respond(h, "422") \/ Respond(h, "201") \/ Goto(h, "insert"))
        BY <3>2 DEF CreateCustomer, Serving
      <4>2. Goto(h, "insert") => task'[h].pc = "insert"
        BY GotoFacts DEF HandlerSteps
      <4> QED
        BY <3>1, <4>1, <4>2 DEF HttpAnswers
    <3>3. CASE AppendAudit(h) \/ AppendAuditFails(h)
      <4>1. task[h].pc = "audit" /\ \E s \in HttpAnswers \ {"none"} : Respond(h, s)
        BY <3>3 DEF AppendAudit, AppendAuditFails, Answer, HttpAnswers
      <4> QED
        BY <3>1, <4>1
    <3>4. CASE InsertUnconfirmed(h) \/ RouteCallFails(h, {"insert", "tier"})
      BY <3>1, <3>4 DEF InsertUnconfirmed, RouteCallFails, HttpAnswers
    <3>5. CASE UpdateKYCTier(h)
      <4>1. task[h].pc = "serve" /\ (\/ Respond(h, "422") \/ Respond(h, "404")
                                      \/ \E id, was : Read(h, "tier", id, was))
        BY <3>5 DEF UpdateKYCTier, Serving
      <4>2. (\E id, was : Read(h, "tier", id, was)) => task'[h].pc = "tier"
        BY DEF Read, TaskType, Task
      <4> QED
        BY <3>1, <3>5, <4>1, <4>2 DEF HttpAnswers
    <3>6. CASE InsertCustomer(h) \/ WriteTier(h)
      <4>1. \/ Respond(h, "500") /\ task[h].pc = "insert"
            \/ (\E id, was : Read(h, "audit", id, was)) \/ Goto(h, "audit")
        BY <3>6 DEF InsertCustomer, WriteTier
      <4>2. (\E id, was : Read(h, "audit", id, was)) => task'[h].pc = "audit"
        BY DEF Read, TaskType, Task
      <4>3. Goto(h, "audit") => task'[h].pc = "audit"
        BY GotoFacts DEF HandlerSteps
      <4> QED
        BY <3>1, <3>6, <4>1, <4>2, <4>3 DEF HttpAnswers
    <3> QED
      BY <3>2, <3>3, <3>4, <3>5, <3>6 DEF CustomerAction, CustomerStep
  <2> QED
    BY <2>1, <2>2, <2>3, <2>4
<1>3. \A g \in Handlers \ {h} : AtAccount(task[g])'
  BY <1>0, <1>1, AtAccountStays DEF AccountInv, RouteMove, Only
<1> QED
  BY <1>1, <1>2, <1>3 DEF AccountInv, AccountTables, Linked

\* Routes on accounts.
LEMMA VAAccounts ==
    ASSUME TaskType, AccountInv, NEW h \in Handlers, VAAction(h)
    PROVE  AccountInv' /\ AccountsKeep
<1>0. TaskType' /\ RouteMove(h, {"find", "bank", "write", "audit"})
  BY VATasks
<1>1. UNCHANGED customers /\ raced' \subseteq Customers
  <2>1. task[h].pc = "find" => task[h].req.on \in Customers
    BY OnCustomerFacts, WritingFacts
  <2>2. UNCHANGED customers /\ raced' \in {raced, raced \cup {task[h].req.on}}
        /\ (raced' # raced => task[h].pc = "find")
    <3>1. CASE FindVA(h)
      <4>1. UNCHANGED raced \/ \E step, id, was : Begin(h, step, id, was)
        BY <3>1, FindVACases
      <4> QED
        BY <3>1, <4>1 DEF FindVA, Begin, Racing
    <3>2. CASE ~FindVA(h)
      BY <3>2 DEF VAAction, VAStep, FindCustomer, CreateVA, UpdateVA, BestEffort, WriteVA,
                  BankFails, BankUnconfirmed, BestEffortFails, WriteUnconfirmed, accountVars
    <3> QED
      BY <3>1, <3>2
  <2> QED
    BY <2>1, <2>2 DEF AccountInv, AccountTables
<1>2. /\ bank' \in [Accounts -> BankRow \cup {None}]
      /\ va' \in [Accounts -> VARow \cup {None}]
      /\ Linked' /\ AccountsKeep
  <2>1. CASE UNCHANGED <<va, bank>>
    BY <1>1, <2>1 DEF AccountInv, AccountTables, Linked, AccountsKeep
  <2>2. CASE task[h].pc = "bank" /\ Opened(h) /\ UNCHANGED va
    BY <1>1, <2>2, OpenedFacts DEF AccountInv, AccountTables, Linked, AccountsKeep
  <2>3. CASE /\ task[h].pc = "bank" /\ task[h].req.op = "rename_va" /\ UNCHANGED va
             /\ bank' = [bank EXCEPT ![task[h].read.id].name = task[h].req.arg]
    <3> DEFINE v == task[h].read.id
    <3>1. /\ bank' \in [Accounts -> BankRow \cup {None}]
          /\ bank'[v] # None /\ bank'[v].customer = bank[v].customer
          /\ \A w \in Accounts \ {v} : bank'[w] = bank[w]
      BY <2>3, RenamedFacts
    <3> HIDE DEF v
    <3> QED
      BY <1>1, <2>3, <3>1 DEF AccountInv, AccountTables, Linked, AccountsKeep
  <2>4. CASE task[h].pc = "write" /\ va' = Written(h) /\ UNCHANGED bank
    <3>1. /\ va' \in [Accounts -> VARow \cup {None}]
          /\ task[h].read.id \in Accounts /\ va'[task[h].read.id] # None
          /\ va'[task[h].read.id].customer = task[h].req.on
          /\ bank[task[h].read.id] # None /\ bank[task[h].read.id].customer = task[h].req.on
          /\ \A w \in Accounts \ {task[h].read.id} : va'[w] = va[w]
      BY <2>4, WrittenFacts
    <3> QED
      BY <1>1, <2>4, <3>1 DEF AccountInv, AccountTables, Linked, AccountsKeep
  <2>5. CASE FindCustomer(h) \/ FindVA(h) \/ BestEffortFails(h) \/ BankFails(h)
             \/ (RouteCallFails(h, {"find", "write"}) /\ UNCHANGED accountVars)
    BY <2>1, <2>5 DEF FindCustomer, FindVA, BestEffortFails, BankFails, accountVars
  <2>6. CASE CreateVA(h) \/ UpdateVA(h)
    BY <2>2, <2>3, <2>6 DEF CreateVA, UpdateVA
  <2>7. CASE BankUnconfirmed(h)
    BY <2>2, <2>3, <2>7 DEF BankUnconfirmed
  <2>8. CASE WriteVA(h) \/ WriteUnconfirmed(h)
    BY <2>1, <2>4, <2>8 DEF WriteVA, WriteUnconfirmed
  <2>9. CASE BestEffort(h)
    <3> DEFINE v == task[h].read.id
    <3>1. /\ bank' \in [Accounts -> BankRow \cup {None}]
          /\ bank'[v] # None /\ bank'[v].customer = bank[v].customer
          /\ \A w \in Accounts \ {v} : bank'[w] = bank[w]
      BY <2>9, ToldFacts
    <3>2. UNCHANGED va
      BY <2>9 DEF BestEffort
    <3> HIDE DEF v
    <3> QED
      BY <1>1, <3>1, <3>2 DEF AccountInv, AccountTables, Linked, AccountsKeep
  <2> QED
    BY <2>5, <2>6, <2>7, <2>8, <2>9 DEF VAAction, VAStep
<1>3. AtAccount(task[h])'
  <2>1. CASE task'[h].pc \notin {"find", "bank", "write", "audit"}
    <3>1. task'[h].pc # "tier"
      BY <1>0, IdleFacts DEF RouteMove
    <3> QED
      BY <2>1, <3>1 DEF AtAccount, OnCustomer
  <2> SUFFICES ASSUME task'[h].pc \in {"find", "bank", "write", "audit"}
               PROVE  AtAccount(task[h])'
    BY <2>1
  <2>2. task'[h].req = task[h].req /\ task'[h].tenant = task[h].tenant
    BY <1>0, IdleFacts DEF RouteMove
  <2>3. ASSUME NEW s \in HttpAnswers \ {"none"}, Respond(h, s), task[h].pc \notin {"idle", "auth"}
        PROVE  FALSE
    BY <2>3, RespondFacts, IdleFacts
  <2>4. CASE FindCustomer(h)
    <3>1. task[h].pc = "serve" /\ task[h].req.op \in VAOps
      BY <2>4 DEF FindCustomer
    <3>2. AnswerNone(task[h].req.op) \in HttpAnswers \ {"none"}
      BY DEF AnswerNone, HttpAnswers
    <3>3. GetCustomer(task[h].tenant, task[h].req.on) # None /\ Goto(h, "find")
      BY <2>3, <2>4, <3>1, <3>2 DEF FindCustomer
    <3>4. task'[h].pc = "find"
      BY <3>3, GotoFacts DEF HandlerSteps
    <3> QED
      BY <1>1, <2>2, <3>3, <3>4 DEF AtAccount, GetCustomer
  <2>5. CASE task[h].pc \in {"find", "bank", "write"}
    <3>1. OnCustomer(task[h]) /\ task[h].req.on \in Customers
      BY <2>5, WritingFacts, OnCustomerFacts
    <3>2. customers'[task[h].req.on] # None /\ customers'[task[h].req.on].tenant = task[h].tenant
      BY <1>1, <3>1 DEF AccountInv, AtAccount
    <3>3. /\ (task'[h].pc \in {"bank", "write"} /\ task[h].req.op # "provision_va") =>
                 va'[task'[h].read.id] # None /\ va'[task'[h].read.id].customer = task[h].req.on
          /\ (task'[h].pc = "write" /\ task[h].req.op = "provision_va") =>
                 bank'[task'[h].read.id] # None /\ bank'[task'[h].read.id].customer = task[h].req.on
      <4>1. CASE FindVA(h)
        <5>1. UNCHANGED <<va, bank>>
          BY <4>1 DEF FindVA
        <5>2. \/ task[h].req.op = "provision_va" /\ Begin(h, "bank", None, None)
              \/ \E v \in Accounts, was \in {"ACTIVE", "SUSPENDED"} :
                     /\ v \in GetVAs(task[h].req.on, was)
                     /\ task[h].req.op # "provision_va"
                     /\ \E step \in {"bank", "write"} : Begin(h, step, v, was)
          BY <2>3, <4>1, FindVACases
        <5>3. ASSUME NEW step \in {"bank", "write"}, NEW v, NEW was, Begin(h, step, v, was)
              PROVE  task'[h].pc = step /\ task'[h].read.id = v
          BY <5>3 DEF Begin, Read, TaskType, Task
        <5> QED
          BY <5>1, <5>2, <5>3 DEF GetVAs
      <4>2. CASE CreateVA(h)
        <5>1. task'[h].read.id = NewAccount
          BY <4>2 DEF CreateVA, Read, TaskType, Task
        <5> QED
          BY <4>2, <5>1, OpenedFacts DEF CreateVA
      <4>3. CASE UpdateVA(h) \/ BestEffort(h) \/ BestEffortFails(h)
        <5>1. task'[h].read = task[h].read
          BY <4>3, GotoFacts DEF UpdateVA, BestEffort, BestEffortFails, HandlerSteps
        <5> QED
          BY <4>3, <5>1
          DEF UpdateVA, BestEffort, BestEffortFails, AccountInv, AtAccount, accountVars
      <4>4. CASE WriteVA(h)
        <5>1. Goto(h, "audit")
          BY <2>3, <4>4 DEF WriteVA, HttpAnswers
        <5>2. task'[h].pc = "audit"
          BY <5>1, GotoFacts DEF HandlerSteps
        <5> QED
          BY <5>2
      <4>5. CASE BankFails(h) \/ BankUnconfirmed(h) \/ WriteUnconfirmed(h)
                 \/ RouteCallFails(h, {"find", "write"})
        BY <2>3, <2>5, <4>5
        DEF BankFails, BankUnconfirmed, WriteUnconfirmed, RouteCallFails, HttpAnswers
      <4> QED
        BY <2>5, <4>1, <4>2, <4>3, <4>4, <4>5 DEF VAAction, VAStep, FindCustomer
    <3> QED
      BY <2>2, <3>2, <3>3 DEF AtAccount
  <2> QED
    BY <2>4, <2>5 DEF VAAction, VAStep, FindVA, CreateVA, UpdateVA, BestEffort, WriteVA,
        BankFails, BankUnconfirmed, BestEffortFails, WriteUnconfirmed, RouteCallFails
<1>4. \A g \in Handlers \ {h} : AtAccount(task[g])'
  BY <1>0, <1>2, AtAccountStays DEF AccountInv, RouteMove, Only
<1> QED
  BY <1>1, <1>2, <1>3, <1>4 DEF AccountInv, AccountTables

-----------------------------------------------------------------------------
(***************************************************************************)
(* The steps of the whole system.                                          *)
(***************************************************************************)
CourierStep ==
    \/ \E x \in Events : Dispatch(x) \/ ListEndpointsFails(x)
    \/ \E i \in DOMAIN deliveries : Deliver(i) \/ CreateDeliveryFails(i)

BootAction == Boot \/ Stop \/ BootCallFails

\* Every step belongs to the gateway, to Redis, to one of the routes, to the delivery
\* goroutines or to the process, and leaves the tables of the others alone.
LEMMA StepKinds ==
    ASSUME [Next]_vars
    PROVE  \/ UNCHANGED vars
           \/ \E h \in Handlers : /\ GatewayAction(h)
                                  /\ Accept(h) => Running
                                  /\ UNCHANGED <<accountVars, relayVars, platformVars>>
           \/ RedisStep /\ UNCHANGED <<accountVars, relayVars, platformVars>>
           \/ \E h \in Handlers : /\ CustomerAction(h)
                                  /\ UNCHANGED <<va, bank, raced, relayVars, platformVars>>
           \/ \E h \in Handlers : VAAction(h) /\ UNCHANGED <<relayVars, platformVars>>
           \/ \E h \in Handlers : RelayAction(h) /\ UNCHANGED <<accountVars, platformVars>>
           \/ CourierStep /\ UNCHANGED <<accountVars, platformVars>>
           \/ \E h \in Handlers : PlatformAction(h) /\ UNCHANGED <<accountVars, relayVars>>
           \/ BootAction /\ UNCHANGED accountVars /\ (UNCHANGED relayVars \/ Shutdown)
           \/ Crash
<1>1. ASSUME NEW h \in Handlers, Arrive(h)
      PROVE  GatewayAction(h) /\ Running /\ UNCHANGED <<accountVars, relayVars, platformVars>>
  BY <1>1 DEF Arrive, GatewayAction
<1>2. ASSUME NEW h \in Handlers, Handle(h)
      PROVE  \/ /\ GatewayAction(h) /\ GatewayStep(h)
                /\ UNCHANGED <<accountVars, relayVars, platformVars>>
             \/ CustomerAction(h) /\ UNCHANGED <<va, bank, raced, relayVars, platformVars>>
             \/ VAAction(h) /\ UNCHANGED <<relayVars, platformVars>>
             \/ RelayAction(h) /\ UNCHANGED <<accountVars, platformVars>>
             \/ PlatformAction(h) /\ UNCHANGED <<accountVars, relayVars>>
  BY <1>2 DEF Handle, GatewayAction, CustomerAction, VAAction, RelayAction, PlatformAction
<1>3. ASSUME NEW h \in Handlers,
             GatewayStep(h) \/ MiddlewareCallFails(h) \/ MarkUnconfirmed(h)
             \/ RouteCallFails(h, {"serve"})
      PROVE  ~Accept(h)
  <2>1. task[h].pc # "idle"
    BY <1>3 DEF GatewayStep, Authenticate, LookUp, MarkInFlight, StoreResponse, CreateAPIKey,
                RevokeAPIKey, Serving, MiddlewareCallFails, MarkUnconfirmed, RouteCallFails
  <2> QED
    BY <2>1 DEF Accept, Busy
<1>4. CASE Failure
  <2>1. CASE GatewayFault /\ UNCHANGED <<accountVars, relayVars, platformVars>>
    BY <1>3, <2>1 DEF GatewayFault, GatewayAction
  <2>2. CASE /\ \E h \in Handlers : RouteCallFails(h, {"serve"})
             /\ UNCHANGED <<accountVars, relayVars, platformVars>>
    BY <1>3, <2>2 DEF GatewayAction
  <2>3. CASE CustomerFault /\ UNCHANGED <<va, bank, raced, relayVars, platformVars>>
    BY <2>3 DEF CustomerFault, CustomerAction
  <2>4. CASE VAFault /\ UNCHANGED <<relayVars, platformVars>>
    BY <2>4 DEF VAFault, VAAction
  <2>5. CASE RelayFault /\ UNCHANGED <<accountVars, platformVars>>
    BY <2>5 DEF RelayFault, RelayAction, CourierStep
  <2>6. CASE PlatformFault /\ UNCHANGED <<accountVars, relayVars>>
    BY <2>6 DEF PlatformFault, PlatformAction, BootAction
  <2> QED
    BY <1>4, <2>1, <2>2, <2>3, <2>4, <2>5, <2>6 DEF Failure
<1>5. CASE \E x \in Events : Running /\ Dispatch(x) /\ UNCHANGED <<accountVars, platformVars>>
  BY <1>5 DEF CourierStep
<1>6. CASE \E i \in DOMAIN deliveries : Delivering(i)
  BY <1>6 DEF CourierStep, Delivering
<1>7. CASE (Boot /\ UNCHANGED <<accountVars, relayVars>>) \/ Shutdown
  BY <1>7 DEF BootAction, Shutdown
<1> QED
  BY <1>1, <1>2, <1>3, <1>4, <1>5, <1>6, <1>7 DEF Next

\* A route touches neither Redis nor the clients' requests.
LEMMA RouteFrame ==
    ASSUME NEW h \in Handlers,
           CustomerAction(h) \/ VAAction(h) \/ RelayAction(h) \/ PlatformAction(h)
    PROVE  /\ UNCHANGED <<redis, workload, executed, lapsed>>
           /\ Fault \/ UNCHANGED faults
           /\ ~PlatformAction(h) => UNCHANGED issued
<1>1. CASE CustomerAction(h)
  BY <1>1 DEF CustomerAction, CustomerStep, CreateCustomer, InsertCustomer, UpdateKYCTier,
              WriteTier, AppendAudit, AppendAuditFails, InsertUnconfirmed, RouteCallFails
<1>2. CASE VAAction(h)
  BY <1>2 DEF VAAction, VAStep, FindCustomer, FindVA, CreateVA, UpdateVA, BestEffort, WriteVA,
              BankFails, BankUnconfirmed, BestEffortFails, WriteUnconfirmed, RouteCallFails
<1>3. CASE RelayAction(h)
  BY <1>3 DEF RelayAction, RelayStep, CreateEndpoint, FindDelivery, CheckOwner, Replay,
              RouteCallFails
<1>4. CASE PlatformAction(h)
  BY <1>4 DEF PlatformAction, PlatformStep, AuthorizeOperator, PutTierLimits, ReloadTierLimits,
              CreateTenant, CreateFirstKey, CreateCredential, OnboardAdmin, PutUnconfirmed,
              RouteCallFails
<1> QED
  BY <1>1, <1>2, <1>3, <1>4

\* What is not a route leaves the handlers alone, but for a crash.
LEMMA ElsewhereFrame ==
    ASSUME CourierStep \/ BootAction
    PROVE  /\ UNCHANGED <<redis, task, workload, executed, lapsed>>
           /\ Fault \/ UNCHANGED faults
           /\ CourierStep => UNCHANGED issued
<1>1. CASE CourierStep
  BY <1>1 DEF CourierStep, Dispatch, ListEndpointsFails, Deliver, CreateDeliveryFails, Send,
              RecordSuccess, RecordFailure, gatewayVars
<1>2. CASE BootAction /\ ~CourierStep
  BY <1>2 DEF BootAction, Boot, Start, Migrate, RecordMigration, LoadSettings, SeedAdmin,
              SeedTenant, SeedKey, SeedDemoUser, SeedCustomer, Stop, BootCallFails, gatewayVars
<1> QED
  BY <1>1, <1>2

-----------------------------------------------------------------------------
(***************************************************************************)
(* The relay.  An attempt that is not the first of its course was asked    *)
(* for in a request on the row of the one before, so all earlier attempts  *)
(* are on record.                                                          *)
(***************************************************************************)
RelayTables ==
    /\ endpoints \subseteq Endpoints
    /\ dispatched \subseteq Events
    /\ deliveries \in Seq(Delivery)

OnCourse(i) ==
    /\ EndpointOwner[deliveries[i].endpoint] = EventTenant[deliveries[i].event]
    /\ \A n \in 1..(deliveries[i].attempt - 1) :
           \E j \in Rows : SameCourse(i, j) /\ deliveries[j].attempt = n
    /\ deliveries[i].status = "dead_letter" => deliveries[i].attempt >= MaxAttempts

AtDelivery(t) ==
    /\ t.pc \in {"owner", "replay"} => t.read.id \in Rows
    /\ t.pc = "replay" => EndpointOwner[deliveries[t.read.id].endpoint] = t.tenant

RelayInv ==
    /\ RelayTables
    /\ \A i \in DOMAIN deliveries : OnCourse(i)
    /\ \A h \in Handlers : AtDelivery(task[h])

\* Attempts stay what they are, and rows stay rows.
DeliveriesKeep ==
    \A i \in DOMAIN deliveries :
        /\ i \in DOMAIN deliveries'
        /\ deliveries'[i].endpoint = deliveries[i].endpoint
        /\ deliveries'[i].event = deliveries[i].event
        /\ deliveries'[i].attempt = deliveries[i].attempt
        /\ i \in Rows => deliveries'[i] = deliveries[i]

\* What is on record for an attempt stays on record.
LEMMA OnCourseStays ==
    ASSUME RelayInv, DeliveriesKeep, NEW i \in DOMAIN deliveries,
           deliveries'[i].status = "dead_letter" =>
               deliveries[i].status = "dead_letter" \/ deliveries[i].attempt >= MaxAttempts
    PROVE  OnCourse(i)'
<1>1. \A j \in Rows : j \in Rows' /\ deliveries'[j] = deliveries[j]
  BY DEF DeliveriesKeep, Rows
<1>2. \A n \in 1..(deliveries[i].attempt - 1) :
          \E j \in Rows : SameCourse(i, j) /\ deliveries[j].attempt = n
  BY DEF RelayInv, OnCourse
<1>3. \A n \in 1..(deliveries'[i].attempt - 1) :
          \E j \in Rows' : SameCourse(i, j)' /\ deliveries'[j].attempt = n
  BY <1>1, <1>2 DEF DeliveriesKeep, SameCourse
<1> QED
  BY <1>3 DEF OnCourse, RelayInv, DeliveriesKeep

\* What a handler of a replay relies on stays.
LEMMA AtDeliveryStays ==
    ASSUME DeliveriesKeep, NEW g \in Handlers, AtDelivery(task[g]), task'[g] = task[g]
    PROVE  AtDelivery(task[g])'
<1>1. \A j \in Rows : j \in Rows' /\ deliveries'[j] = deliveries[j]
  BY DEF DeliveriesKeep, Rows
<1> QED
  BY <1>1 DEF AtDelivery

\* Steps of handlers that are not on a delivery leave the relay in order.
LEMMA RelayElsewhere ==
    ASSUME RelayInv, UNCHANGED relayVars,
           \A g \in Handlers : task'[g] = task[g] \/ task'[g].pc \notin {"owner", "replay"}
    PROVE  RelayInv'
<1>1. DeliveriesKeep
  BY DEF DeliveriesKeep, relayVars
<1>2. \A g \in Handlers : AtDelivery(task[g])'
  BY <1>1, AtDeliveryStays DEF RelayInv, AtDelivery
<1>3. \A i \in DOMAIN deliveries : OnCourse(i)'
  BY <1>1, OnCourseStays DEF relayVars
<1> QED
  BY <1>2, <1>3 DEF RelayInv, RelayTables, relayVars

\* A delivery that only changes its status.
LEMMA BecomesFacts ==
    ASSUME RelayInv, NEW i \in DOMAIN deliveries, NEW status \in Recorded \cup UnderWay,
           i \notin Rows, Becomes(i, status),
           status = "dead_letter" => deliveries[i].attempt >= MaxAttempts
    PROVE  /\ DeliveriesKeep /\ deliveries' \in Seq(Delivery)
           /\ DOMAIN deliveries' = DOMAIN deliveries
           /\ \A j \in DOMAIN deliveries : OnCourse(j)'
<1> DEFINE row == [deliveries[i] EXCEPT !.status = status]
<1>1. deliveries \in Seq(Delivery) /\ deliveries[i] \in Delivery
  BY DEF RelayInv, RelayTables
<1>2. row \in Delivery /\ row.endpoint = deliveries[i].endpoint /\ row.event = deliveries[i].event
      /\ row.attempt = deliveries[i].attempt /\ row.status = status
  BY <1>1 DEF Delivery
<1>3. deliveries' = [deliveries EXCEPT ![i] = row]
  BY DEF Becomes
<1> HIDE DEF row
<1>4. deliveries' \in Seq(Delivery) /\ DOMAIN deliveries' = DOMAIN deliveries
      /\ deliveries'[i] = row /\ \A j \in DOMAIN deliveries \ {i} : deliveries'[j] = deliveries[j]
  BY <1>1, <1>2, <1>3
<1>5. DeliveriesKeep
  BY <1>2, <1>4 DEF DeliveriesKeep
<1>6. \A j \in DOMAIN deliveries : OnCourse(j)'
  BY <1>2, <1>4, <1>5, OnCourseStays
<1> QED
  BY <1>4, <1>5, <1>6

\* New attempts at the end of the list.
LEMMA AppendFacts ==
    ASSUME RelayInv, NEW new \in Seq(Delivery), deliveries' = deliveries \o new,
           \A k \in DOMAIN new :
               /\ new[k].status = "sending"
               /\ EndpointOwner[new[k].endpoint] = EventTenant[new[k].event]
               /\ \A n \in 1..(new[k].attempt - 1) :
                      \E j \in Rows : /\ deliveries[j].endpoint = new[k].endpoint
                                      /\ deliveries[j].event = new[k].event
                                      /\ deliveries[j].attempt = n
    PROVE  /\ DeliveriesKeep /\ deliveries' \in Seq(Delivery)
           /\ \A j \in DOMAIN deliveries' : OnCourse(j)'
           /\ \A j \in DOMAIN deliveries' \ DOMAIN deliveries :
                  \E k \in DOMAIN new : deliveries'[j] = new[k]
<1>1. deliveries \in Seq(Delivery)
  BY DEF RelayInv, RelayTables
<1>2. deliveries' \in Seq(Delivery) /\ Len(deliveries') = Len(deliveries) + Len(new)
      /\ (\A j \in 1..Len(deliveries) : deliveries'[j] = deliveries[j])
      /\ DOMAIN deliveries = 1..Len(deliveries) /\ DOMAIN new = 1..Len(new)
      /\ DOMAIN deliveries' = 1..Len(deliveries')
  BY <1>1
<1>3. \A j \in DOMAIN deliveries' \ DOMAIN deliveries :
          j - Len(deliveries) \in DOMAIN new /\ deliveries'[j] = new[j - Len(deliveries)]
  BY <1>1, <1>2
<1>4. DeliveriesKeep
  BY <1>1, <1>2 DEF DeliveriesKeep
<1>5. \A j \in DOMAIN deliveries : OnCourse(j)'
  BY <1>2, <1>4, OnCourseStays
<1>6. \A j \in Rows : j \in Rows' /\ deliveries'[j] = deliveries[j]
  BY <1>4 DEF DeliveriesKeep, Rows
<1>7. \A j \in DOMAIN deliveries' \ DOMAIN deliveries : OnCourse(j)'
  <2> TAKE j \in DOMAIN deliveries' \ DOMAIN deliveries
  <2>1. PICK k \in DOMAIN new : deliveries'[j] = new[k]
    BY <1>3
  <2>2. \A n \in 1..(deliveries'[j].attempt - 1) :
            \E r \in Rows' : SameCourse(j, r)' /\ deliveries'[r].attempt = n
    <3> TAKE n \in 1..(deliveries'[j].attempt - 1)
    <3>1. n \in 1..(new[k].attempt - 1)
      BY <2>1
    <3>2. PICK r \in Rows : /\ deliveries[r].endpoint = new[k].endpoint
                            /\ deliveries[r].event = new[k].event
                            /\ deliveries[r].attempt = n
      BY <3>1
    <3> QED
      BY <1>6, <2>1, <3>2 DEF SameCourse
  <2> QED
    BY <2>1, <2>2 DEF OnCourse
<1> QED
  BY <1>2, <1>3, <1>4, <1>5, <1>7

\* The goroutines of a dispatch, in some order.
LEMMA DispatchFacts ==
    ASSUME RelayInv, NEW x \in Events, Dispatch(x)
    PROVE  /\ DeliveriesKeep /\ deliveries' \in Seq(Delivery)
           /\ \A j \in DOMAIN deliveries' : OnCourse(j)'
           /\ \A j \in DOMAIN deliveries' \ DOMAIN deliveries : deliveries'[j].attempt = 1
<1> DEFINE S == Targets(x)
           order == SetToSeq(S)
           new == [i \in DOMAIN order |-> Attempt(order[i], x, 1)]
<1>1. S \subseteq Endpoints /\ \A e \in S : EndpointOwner[e] = EventTenant[x]
  BY DEF RelayInv, RelayTables, Targets
<1>2. IsFiniteSet(S)
  BY <1>1, RelayAssumption, FS_Subset
<1> HIDE DEF S
<1>3. Cardinality(S) \in Nat /\ ExistsBijection(1..Cardinality(S), S)
  BY <1>2, FS_CardinalityType
<1>4. \E f \in [1..Cardinality(S) -> S] : IsInjective(f)
  BY <1>3 DEF ExistsBijection, Bijection, Injection
<1>5. order \in [1..Cardinality(S) -> S]
  BY <1>4 DEF SetToSeq
<1> HIDE DEF order
<1>6. \A i \in DOMAIN order : /\ Attempt(order[i], x, 1) \in Delivery
                              /\ Attempt(order[i], x, 1).status = "sending"
                              /\ Attempt(order[i], x, 1).attempt = 1
                              /\ Attempt(order[i], x, 1).endpoint = order[i]
                              /\ Attempt(order[i], x, 1).event = x
  BY <1>1, <1>5 DEF Attempt, Delivery, UnderWay
<1>7. new \in Seq(Delivery) /\ DOMAIN new = DOMAIN order
  BY <1>3, <1>5, <1>6
<1>8. \A k \in DOMAIN new :
          /\ new[k].status = "sending" /\ new[k].attempt = 1
          /\ EndpointOwner[new[k].endpoint] = EventTenant[new[k].event]
  BY <1>1, <1>5, <1>6
<1>9. deliveries' = deliveries \o new
  BY DEF Dispatch, order, S
<1> HIDE DEF new
<1>10. \A k \in DOMAIN new : 1..(new[k].attempt - 1) = {}
  BY <1>8
<1> QED
  BY <1>7, <1>8, <1>9, <1>10, AppendFacts

\* The attempt of a replay.
LEMMA ReplayFacts ==
    ASSUME TaskType, RelayInv, NEW h \in Handlers, Replay(h)
    PROVE  /\ DeliveriesKeep /\ deliveries' \in Seq(Delivery)
           /\ \A j \in DOMAIN deliveries' : OnCourse(j)'
           /\ \A j \in DOMAIN deliveries' \ DOMAIN deliveries :
                  EndpointOwner[deliveries'[j].endpoint] = task[h].tenant
<1> DEFINE r == task[h].read.id
           new == Attempt(deliveries[r].endpoint, deliveries[r].event, NextAttempt(deliveries[r]))
<1>1. r \in Rows /\ EndpointOwner[deliveries[r].endpoint] = task[h].tenant
  BY DEF Replay, RelayInv, AtDelivery
<1>2. r \in DOMAIN deliveries /\ deliveries[r] \in Delivery /\ OnCourse(r)
  BY <1>1 DEF RelayInv, RelayTables, Rows
<1> HIDE DEF r
<1>3. new \in Delivery /\ new.status = "sending" /\ new.attempt = deliveries[r].attempt + 1
      /\ new.endpoint = deliveries[r].endpoint /\ new.event = deliveries[r].event
  BY <1>2 DEF Attempt, Delivery, UnderWay, NextAttempt
<1>4. deliveries' = Append(deliveries, new)
  BY DEF Replay, r
<1> HIDE DEF new
<1>5. deliveries \in Seq(Delivery)
  BY DEF RelayInv, RelayTables
<1>6. deliveries' = deliveries \o <<new>> /\ <<new>> \in Seq(Delivery)
      /\ DOMAIN <<new>> = {1} /\ <<new>>[1] = new
  BY <1>3, <1>4, <1>5
<1>7. \A n \in 1..(new.attempt - 1) :
          \E j \in Rows : /\ deliveries[j].endpoint = new.endpoint
                          /\ deliveries[j].event = new.event
                          /\ deliveries[j].attempt = n
  <2> TAKE n \in 1..(new.attempt - 1)
  <2>1. n \in 1..(deliveries[r].attempt - 1) \/ n = deliveries[r].attempt
    BY <1>2, <1>3 DEF Delivery
  <2>2. CASE n = deliveries[r].attempt
    BY <1>1, <1>3, <2>2
  <2>3. CASE n \in 1..(deliveries[r].attempt - 1)
    BY <1>2, <1>3, <2>3 DEF OnCourse, SameCourse
  <2> QED
    BY <2>1, <2>2, <2>3
<1>8. EndpointOwner[new.endpoint] = EventTenant[new.event]
  BY <1>2, <1>3 DEF OnCourse
<1> DEFINE list == <<new>>
<1>9. \A k \in DOMAIN list :
          /\ list[k].status = "sending"
          /\ EndpointOwner[list[k].endpoint] = EventTenant[list[k].event]
          /\ \A n \in 1..(list[k].attempt - 1) :
                 \E j \in Rows : /\ deliveries[j].endpoint = list[k].endpoint
                                 /\ deliveries[j].event = list[k].event
                                 /\ deliveries[j].attempt = n
  BY <1>3, <1>6, <1>7, <1>8
<1>10. list \in Seq(Delivery) /\ deliveries' = deliveries \o list
       /\ \A k \in DOMAIN list : list[k] = new
  BY <1>6
<1> HIDE DEF list
<1>11. /\ DeliveriesKeep /\ deliveries' \in Seq(Delivery)
       /\ \A j \in DOMAIN deliveries' : OnCourse(j)'
       /\ \A j \in DOMAIN deliveries' \ DOMAIN deliveries :
              \E k \in DOMAIN list : deliveries'[j] = list[k]
  BY <1>9, <1>10, AppendFacts
<1> QED
  BY <1>1, <1>3, <1>10, <1>11

\* The routes of the relay.
LEMMA RelayRoutes ==
    ASSUME TaskType, RelayInv, NEW h \in Handlers, RelayAction(h)
    PROVE  RelayInv' /\ DeliveriesKeep
<1>0. TaskType' /\ RouteMove(h, {"owner", "replay"})
  BY RelayTasks DEF RelayInv, RelayTables
<1>1. /\ DeliveriesKeep /\ RelayTables'
      /\ \A j \in DOMAIN deliveries' : OnCourse(j)'
  <2>1. CASE Replay(h)
    BY <2>1, ReplayFacts DEF Replay, RelayInv, RelayTables
  <2>2. CASE UNCHANGED <<deliveries, dispatched>> /\ endpoints' \subseteq Endpoints
    <3>1. DeliveriesKeep
      BY <2>2 DEF DeliveriesKeep
    <3> QED
      BY <2>2, <3>1, OnCourseStays DEF RelayInv, RelayTables
  <2>3. CASE CreateEndpoint(h)
    <3>1. Fresh(UnusedEndpoints(task[h].tenant)) \in Endpoints
      BY <2>3 DEF CreateEndpoint, Fresh, UnusedEndpoints
    <3> QED
      BY <2>2, <2>3, <3>1 DEF CreateEndpoint, RelayInv, RelayTables
  <2>4. CASE UNCHANGED relayVars
    BY <2>2, <2>4 DEF relayVars, RelayInv, RelayTables
  <2> QED
    BY <2>1, <2>3, <2>4 DEF RelayAction, RelayStep, FindDelivery, CheckOwner
<1>2. AtDelivery(task[h])'
  <2> SUFFICES ASSUME task'[h].pc \in {"owner", "replay"}
               PROVE  AtDelivery(task[h])'
    BY DEF AtDelivery
  <2>1. ASSUME NEW s \in HttpAnswers \ {"none"}, Respond(h, s), task[h].pc \notin {"idle", "auth"}
        PROVE  FALSE
    BY <2>1, RespondFacts, IdleFacts
  <2>2. CASE FindDelivery(h)
    <3>1. PICK i \in Rows : task' = [task EXCEPT ![h].pc = "owner", ![h].read.id = i]
      BY <2>1, <2>2 DEF FindDelivery, Serving, HttpAnswers
    <3>2. task'[h].pc = "owner" /\ task'[h].read.id = i
      BY <3>1 DEF TaskType, Task, Reading
    <3> QED
      BY <2>2, <3>2 DEF AtDelivery, FindDelivery, relayVars, Rows
  <2>3. CASE CheckOwner(h)
    <3>1. Owned(h, deliveries[task[h].read.id].endpoint) /\ Goto(h, "replay") /\ task[h].pc = "owner"
      BY <2>1, <2>3 DEF CheckOwner, HttpAnswers
    <3>2. task'[h].read = task[h].read /\ task'[h].tenant = task[h].tenant
      BY <3>1, GotoFacts DEF HandlerSteps
    <3> QED
      BY <2>3, <3>1, <3>2 DEF AtDelivery, RelayInv, CheckOwner, Owned, relayVars, Rows
  <2>4. CASE CreateEndpoint(h) \/ Replay(h) \/ RouteCallFails(h, {"owner", "replay"})
    BY <2>1, <2>4 DEF CreateEndpoint, Serving, Replay, RouteCallFails, HttpAnswers
  <2> QED
    BY <2>2, <2>3, <2>4 DEF RelayAction, RelayStep
<1>3. \A g \in Handlers \ {h} : AtDelivery(task[g])'
  BY <1>0, <1>1, AtDeliveryStays DEF RelayInv, RouteMove, Only
<1> QED
  BY <1>1, <1>2, <1>3 DEF RelayInv

\* The delivery goroutines.
LEMMA CourierRelay ==
    ASSUME TaskType, RelayInv, CourierStep
    PROVE  RelayInv' /\ DeliveriesKeep
<1>0. UNCHANGED task
  BY ElsewhereFrame
<1>1. /\ DeliveriesKeep /\ RelayTables'
      /\ \A j \in DOMAIN deliveries' : OnCourse(j)'
  <2>1. CASE \E x \in Events : Dispatch(x)
    BY <2>1, DispatchFacts DEF Dispatch, RelayInv, RelayTables
  <2>2. CASE \E x \in Events : ListEndpointsFails(x)
    <3>1. DeliveriesKeep
      BY <2>2 DEF DeliveriesKeep, ListEndpointsFails
    <3> QED
      BY <2>2, <3>1, OnCourseStays DEF ListEndpointsFails, RelayInv, RelayTables
  <2>3. ASSUME NEW i \in DOMAIN deliveries, Deliver(i) \/ CreateDeliveryFails(i)
        PROVE  /\ DeliveriesKeep /\ RelayTables'
               /\ \A j \in DOMAIN deliveries' : OnCourse(j)'
    <3>1. PICK status \in Recorded \cup UnderWay :
              /\ Becomes(i, status)
              /\ status = "dead_letter" => deliveries[i].attempt >= MaxAttempts
      BY <2>3 DEF Deliver, CreateDeliveryFails, Send, RecordSuccess, RecordFailure, FailureStatus,
                  Recorded, UnderWay
    <3>2. i \notin Rows
      BY <2>3 DEF Deliver, CreateDeliveryFails, Send, RecordSuccess, RecordFailure, Rows, Recorded
    <3> QED
      BY <2>3, <3>1, <3>2, BecomesFacts
      DEF Deliver, CreateDeliveryFails, Send, RecordSuccess, RecordFailure, RelayInv, RelayTables
  <2> QED
    BY <2>1, <2>2, <2>3 DEF CourierStep
<1>2. \A g \in Handlers : AtDelivery(task[g])'
  BY <1>0, <1>1, AtDeliveryStays DEF RelayInv
<1> QED
  BY <1>1, <1>2 DEF RelayInv

\* The end of the process ends the goroutines that have inserted no row.
LEMMA AbandonRelay ==
    ASSUME RelayInv, NEW status \in {"lost", "killed"}, Abandon(status),
           UNCHANGED <<endpoints, dispatched>>,
           \A g \in Handlers : task'[g] = task[g] \/ task'[g] = Idle
    PROVE  RelayInv' /\ DeliveriesKeep /\ DOMAIN deliveries' = DOMAIN deliveries
<1> DEFINE Ended(i) == i \in Rows \/ deliveries[i].status \in {"lost", "killed"}
<1>1. deliveries \in Seq(Delivery)
      /\ deliveries' = [i \in DOMAIN deliveries |->
                            IF Ended(i) THEN deliveries[i]
                                        ELSE [deliveries[i] EXCEPT !.status = status]]
  BY DEF RelayInv, RelayTables, Abandon
<1>2. \A i \in DOMAIN deliveries :
          /\ deliveries'[i] \in Delivery
          /\ i \in Rows => deliveries'[i] = deliveries[i]
          /\ i \notin Rows => deliveries'[i].status \in {"lost", "killed"}
          /\ deliveries'[i].endpoint = deliveries[i].endpoint
          /\ deliveries'[i].event = deliveries[i].event
          /\ deliveries'[i].attempt = deliveries[i].attempt
  <2> TAKE i \in DOMAIN deliveries
  <2>1. deliveries[i] \in Delivery
    BY <1>1
  <2> DEFINE row == [deliveries[i] EXCEPT !.status = status]
  <2>2. row \in Delivery /\ row.status = status /\ row.endpoint = deliveries[i].endpoint
        /\ row.event = deliveries[i].event /\ row.attempt = deliveries[i].attempt
    BY <2>1 DEF Delivery, UnderWay
  <2>3. deliveries'[i] = IF Ended(i) THEN deliveries[i] ELSE row
    BY <1>1
  <2> HIDE DEF row
  <2> QED
    BY <2>1, <2>2, <2>3
<1> HIDE DEF Ended
<1>3. DOMAIN deliveries' = DOMAIN deliveries /\ DOMAIN deliveries = 1..Len(deliveries)
      /\ Len(deliveries) \in Nat
  BY <1>1
<1>4. deliveries' \in Seq(Delivery)
  BY <1>1, <1>2, <1>3
<1>5. DeliveriesKeep
  BY <1>2, <1>3 DEF DeliveriesKeep
<1>6. \A i \in DOMAIN deliveries : deliveries'[i].status = "dead_letter" =>
                                       deliveries[i].status = "dead_letter"
  BY <1>2
<1>7. \A j \in DOMAIN deliveries' : OnCourse(j)'
  BY <1>3, <1>5, <1>6, OnCourseStays
<1>8. \A g \in Handlers : AtDelivery(task[g])'
  <2> TAKE g \in Handlers
  <2>1. task'[g] = task[g] => AtDelivery(task[g])'
    BY <1>5, AtDeliveryStays DEF RelayInv
  <2>2. task'[g] = Idle => AtDelivery(task[g])'
    BY IdleFacts DEF AtDelivery
  <2> QED
    BY <2>1, <2>2
<1> QED
  BY <1>3, <1>4, <1>5, <1>7, <1>8 DEF RelayInv, RelayTables

-----------------------------------------------------------------------------
(***************************************************************************)
(* The operator's side.  No request is being served while the server is    *)
(* not up.                                                                 *)
(***************************************************************************)
Credential == [email: Emails, tenant: Tenants \cup Firms \cup {None}]

Booting == [at: BootSteps, firm: Firms \cup {None},
            left: Seq(Emails) \cup Seq(ToSet(DemoCustomers))]

SchemaType == [applied: Nat, recorded: Nat]

PlatformType ==
    /\ boot \in Booting
    /\ boot.at \in {"demo_key", "demo_users", "demo_customers"} => boot.firm \in Firms
    /\ boot.at = "demo_users" => boot.left \in Seq(Emails) /\ boot.left # <<>>
    /\ boot.at = "demo_customers" =>
           boot.left \in Seq(ToSet(DemoCustomers)) /\ boot.left # <<>>
    /\ schema \in SchemaType /\ schema.recorded <= schema.applied /\ schema.applied <= Migrations
    /\ setting \in Limits \cup Malformed \cup {None}
    /\ cache \in Limits \cup {None}
    /\ firms \in [Firms -> Firm \cup {None}]
    /\ creds \subseteq Credential
    /\ \A row, other \in creds : row.email = other.email => row = other

\* Requests are served by a process that is up.
ServedWhileUp == \A h \in Handlers : task[h].pc # "idle" => boot.at = "up"

\* A user is added under an email nobody has.
LEMMA AddUserFacts ==
    ASSUME PlatformType, NEW e \in Emails, NEW f \in Tenants \cup Firms \cup {None},
           ~EmailTaken(e), AddUser(e, f)
    PROVE  /\ creds' \subseteq Credential
           /\ \A row, other \in creds' : row.email = other.email => row = other
<1> DEFINE new == [email |-> e, tenant |-> f]
<1>1. new \in Credential /\ new.email = e
  BY DEF Credential
<1>2. creds' = creds \cup {new}
  BY DEF AddUser
<1>3. \A row \in creds : row.email # e
  BY DEF EmailTaken
<1> HIDE DEF new
<1> QED
  BY <1>1, <1>2, <1>3 DEF PlatformType

\* So is one that seeding adds.
LEMMA SeedUserFacts ==
    ASSUME PlatformType, NEW e \in Emails, NEW f \in Tenants \cup Firms \cup {None},
           SeedUser(e, f)
    PROVE  /\ creds' \subseteq Credential
           /\ \A row, other \in creds' : row.email = other.email => row = other
BY AddUserFacts DEF SeedUser, PlatformType

\* A tenant is inserted as a row that was not there.
LEMMA AddFirmFacts ==
    ASSUME firms \in [Firms -> Firm \cup {None}], NEW users \in Seq(Emails), AddFirm(users)
    PROVE  /\ firms' \in [Firms -> Firm \cup {None}]
           /\ NewFirm \in Firms /\ firms[NewFirm] = None
           /\ firms'[NewFirm] # None /\ firms'[NewFirm].users = users
           /\ \A f \in Firms \ {NewFirm} : firms'[f] = firms[f]
<1> DEFINE row == [users |-> users]
<1>1. row \in Firm /\ row # None /\ row.users = users
  BY PlatformAssumption DEF Firm
<1>2. NewFirm \in Firms /\ firms[NewFirm] = None
  BY DEF AddFirm, NewFirm, Fresh, UnusedFirms
<1>3. firms' = [firms EXCEPT ![NewFirm] = row]
  BY DEF AddFirm
<1> HIDE DEF row
<1> QED
  BY <1>1, <1>2, <1>3

\* The routes of the operator keep the platform's tables in order.
LEMMA PlatformRoutes ==
    ASSUME TaskType, PlatformType, NEW h \in Handlers, PlatformAction(h)
    PROVE  PlatformType' /\ UNCHANGED <<boot, schema>>
<1>0. task[h] \in Task /\ TaskOK(task[h])
  BY DEF TaskType
<1>1. CASE UNCHANGED platformVars
  BY <1>1 DEF platformVars, PlatformType
<1>2. CASE PutTierLimits(h) \/ PutUnconfirmed(h)
  <2>1. task[h].req.op = "put_limits" /\ task[h].req \in Requests
    BY <1>2, <1>0 DEF PutTierLimits, PutUnconfirmed, Serving, TaskOK
  <2>2. task[h].req.arg \in Limits \cup Malformed \cup {None}
    BY <2>1, BodyFacts
  <2>3. setting' \in {setting, task[h].req.arg}
        /\ UNCHANGED <<boot, schema, cache, firms, creds, demo>>
    BY <1>2 DEF PutTierLimits, PutUnconfirmed
  <2> QED
    BY <2>2, <2>3 DEF PlatformType
<1>3. CASE ReloadTierLimits(h)
  <2>1. task[h].req.op = "put_limits" /\ task[h].req \in Requests /\ task[h].req.arg # None
    BY <1>3, <1>0 DEF ReloadTierLimits, TaskOK, Midway, RouteSteps, VAOps
  <2>2. task[h].req.arg \in Limits \cup Malformed
    BY <2>1, BodyFacts
  <2> QED
    BY <1>3, <2>2 DEF ReloadTierLimits, Loaded, PlatformType
<1>4. CASE CreateTenant(h)
  <2>1. task[h].req.op = "onboard" /\ task[h].req \in Requests
    BY <1>4, <1>0 DEF CreateTenant, Serving, TaskOK
  <2>2. task[h].req.arg \in Seq(Emails)
    BY <2>1, BodyFacts
  <2>3. UNCHANGED firms \/ AddFirm(task[h].req.arg)
    BY <1>4 DEF CreateTenant
  <2>4. firms' \in [Firms -> Firm \cup {None}]
    BY <2>2, <2>3, AddFirmFacts DEF PlatformType
  <2> QED
    BY <1>4, <2>4 DEF CreateTenant, PlatformType
<1>5. CASE CreateCredential(h)
  <2>1. task[h].read.was \in Seq(Emails) /\ task[h].read.was # <<>> /\ task[h].read.id \in Firms
    BY <1>5, <1>0 DEF CreateCredential, TaskOK
  <2>2. Head(task[h].read.was) \in Emails
    BY <2>1, TailFacts
  <2>3. \/ UNCHANGED creds
        \/ ~EmailTaken(Head(task[h].read.was)) /\ AddUser(Head(task[h].read.was), task[h].read.id)
    BY <1>5 DEF CreateCredential
  <2>4. creds' \subseteq Credential /\ \A row, other \in creds' : row.email = other.email => row = other
    BY <2>1, <2>2, <2>3, AddUserFacts DEF PlatformType
  <2> QED
    BY <1>5, <2>4 DEF CreateCredential, PlatformType
<1>6. CASE OnboardAdmin(h)
  <2>1. task[h].req.op = "onboard_admin" /\ task[h].req \in Requests
    BY <1>6, <1>0 DEF OnboardAdmin, Serving, TaskOK
  <2>2. task[h].req.on \in Emails
    BY <2>1, BodyFacts
  <2>3. UNCHANGED creds \/ (~EmailTaken(task[h].req.on) /\ AddUser(task[h].req.on, None))
    BY <1>6 DEF OnboardAdmin
  <2>4. creds' \subseteq Credential /\ \A row, other \in creds' : row.email = other.email => row = other
    BY <2>2, <2>3, AddUserFacts DEF PlatformType
  <2> QED
    BY <1>6, <2>4 DEF OnboardAdmin, PlatformType
<1> QED
  BY <1>1, <1>2, <1>3, <1>4, <1>5, <1>6
  DEF PlatformAction, PlatformStep, AuthorizeOperator, CreateFirstKey, platformVars

\* A part of seeding that goes through a list.
LEMMA SeedNextFacts ==
    ASSUME PlatformType, boot.at \in {"demo_users", "demo_customers"},
           NEW S, boot.left \in Seq(S), boot.left # <<>>,
           Seq(S) \subseteq Seq(Emails) \cup Seq(ToSet(DemoCustomers)),
           NEW step \in BootSteps, NEW list \in Seq(Emails) \cup Seq(ToSet(DemoCustomers)),
           SeedNext(step, list)
    PROVE  /\ boot' \in Booting /\ boot'.firm = boot.firm
           /\ \/ /\ boot'.at = boot.at /\ boot'.left = Tail(boot.left)
                 /\ boot'.left \in Seq(S) /\ boot'.left # <<>> /\ Len(boot.left) > 1
              \/ boot'.at = step /\ boot'.left = list /\ Len(boot.left) = 1
<1>1. boot \in Booting
  BY DEF PlatformType
<1>2. CASE Len(boot.left) > 1
  <2> DEFINE rest == Tail(boot.left)
  <2>0. Len(boot.left) # 1
    BY <1>2, TailFacts
  <2>1. rest \in Seq(S) /\ rest # <<>>
    BY <2>0, TailFacts
  <2>2. boot' = [boot EXCEPT !.left = rest]
    BY <1>2 DEF SeedNext
  <2> HIDE DEF rest
  <2>3. boot' \in Booting /\ boot'.firm = boot.firm /\ boot'.at = boot.at /\ boot'.left = rest
    BY <1>1, <2>1, <2>2 DEF Booting
  <2> QED
    BY <1>2, <2>1, <2>3 DEF rest
<1>3. CASE ~(Len(boot.left) > 1)
  <2>1. Len(boot.left) = 1
    BY <1>3, TailFacts
  <2>2. boot' = [boot EXCEPT !.at = step, !.left = list]
    BY <1>3 DEF SeedNext
  <2> QED
    BY <1>1, <2>1, <2>2 DEF Booting
<1> QED
  BY <1>2, <1>3

\* What seeding goes through.
LEMMA SeedLists ==
    /\ DemoUsers \in Seq(Emails) /\ DemoUsers # <<>>
    /\ DemoCustomers \in Seq(ToSet(DemoCustomers)) /\ DemoCustomers # <<>>
    /\ <<>> \in Seq(Emails)
<1>1. DemoUsers \in Seq(Emails \ {Admin}) /\ Len(DemoUsers) > 0 /\ Len(DemoCustomers) > 0
      /\ DemoCustomers \in Seq(ToSet(DemoCustomers))
  BY PlatformAssumption
<1>2. DemoUsers \in Seq(Emails)
  BY <1>1
<1>3. Len(<<>>) = 0 /\ <<>> \in Seq(Emails)
  OBVIOUS
<1> QED
  BY <1>1, <1>2, <1>3

\* A process that is not seeding.
LEMMA AtFacts ==
    ASSUME NEW step \in BootSteps
    PROVE  At(step) \in Booting /\ At(step).at = step /\ At(step).firm = None
BY SeedLists DEF At, Booting

\* A process that goes on with the next part.
LEMMA BootToFacts ==
    ASSUME boot \in Booting, NEW step \in BootSteps, BootTo(step)
    PROVE  boot' \in Booting /\ boot'.at = step /\ boot'.firm = boot.firm
           /\ boot'.left = boot.left
BY DEF BootTo, Booting

\* Start-up, a regular stop and calls of start-up that fail.
LEMMA BootPlatform ==
    ASSUME PlatformType, GatewayType, BootAction
    PROVE  PlatformType' /\ issued' \in [ApiKeys -> {"no", "active", "revoked"}]
<1>0. boot \in Booting /\ schema \in SchemaType /\ schema.recorded <= schema.applied
      /\ schema.applied <= Migrations /\ Migrations \in Nat
  BY PlatformAssumption DEF PlatformType
<1>1. CASE Start \/ Stop
  <2>1. \E step \in {"migrate", "down"} : boot' = At(step)
    BY <1>1 DEF Start, Stop
  <2>2. boot' \in Booting /\ boot'.at \in {"migrate", "down"}
    BY <2>1, AtFacts DEF BootSteps
  <2>3. cache' \in {cache, None} /\ UNCHANGED <<issued, schema, setting, firms, creds>>
    BY <1>1 DEF Start, Stop, gatewayVars
  <2> QED
    BY <2>2, <2>3 DEF PlatformType, GatewayType
<1>2. CASE Migrate
  <2>1. \E step \in {"limits", "record", "refused"} : BootTo(step)
    BY <1>2 DEF Migrate
  <2>2. boot' \in Booting /\ boot'.at \in {"limits", "record", "refused"}
    BY <1>0, <2>1, BootToFacts DEF BootSteps
  <2>3. schema' \in SchemaType /\ schema'.recorded <= schema'.applied
        /\ schema'.applied <= Migrations
    <3>1. CASE UNCHANGED schema
      BY <1>0, <3>1
    <3>2. CASE /\ schema.recorded < Migrations
               /\ schema.applied = schema.recorded
               /\ schema' = [schema EXCEPT !.applied = @ + 1]
      <4>1. schema'.applied = schema.applied + 1 /\ schema'.recorded = schema.recorded
            /\ schema' \in SchemaType
        BY <1>0, <3>2 DEF SchemaType
      <4> QED
        BY <1>0, <3>2, <4>1 DEF SchemaType
    <3> QED
      BY <1>2, <3>1, <3>2 DEF Migrate
  <2> QED
    BY <1>2, <2>2, <2>3 DEF Migrate, PlatformType, GatewayType, gatewayVars
<1>3. CASE RecordMigration
  <2>1. boot' \in Booting /\ boot'.at = "migrate"
    BY <1>0, <1>3, BootToFacts DEF RecordMigration, BootSteps
  <2>2. schema'.applied = schema.applied /\ schema'.recorded = schema.applied
        /\ schema' \in SchemaType
    BY <1>0, <1>3 DEF RecordMigration, SchemaType
  <2>3. schema'.recorded <= schema'.applied /\ schema'.applied <= Migrations
    BY <1>0, <2>2 DEF SchemaType
  <2> QED
    BY <1>3, <2>1, <2>2, <2>3 DEF RecordMigration, PlatformType, GatewayType, gatewayVars
<1>4. CASE LoadSettings
  <2>1. \E step \in {"refused", "admin"} : BootTo(step)
    BY <1>4 DEF LoadSettings
  <2>2. boot' \in Booting /\ boot'.at \in {"refused", "admin"}
    BY <1>0, <2>1, BootToFacts DEF BootSteps
  <2>3. setting' \in Limits \cup Malformed /\ cache' \in Limits \cup {None}
    BY <1>4, PlatformAssumption DEF LoadSettings, PlatformType
  <2> QED
    BY <1>4, <2>2, <2>3 DEF LoadSettings, PlatformType, GatewayType, gatewayVars
<1>5. CASE SeedAdmin
  <2>1. boot' \in Booting /\ boot'.at = "demo"
    BY <1>0, <1>5, BootToFacts DEF SeedAdmin, BootSteps
  <2>2. creds' \subseteq Credential /\ \A row, other \in creds' : row.email = other.email => row = other
    BY <1>5, SeedUserFacts, PlatformAssumption DEF SeedAdmin
  <2> QED
    BY <1>5, <2>1, <2>2 DEF SeedAdmin, PlatformType, GatewayType, gatewayVars
<1>6. CASE SeedTenant
  <2>1. CASE BootTo("up") /\ UNCHANGED firms
    <3>1. boot' \in Booting /\ boot'.at = "up"
      BY <1>0, <2>1, BootToFacts DEF BootSteps
    <3> QED
      BY <1>6, <2>1, <3>1 DEF SeedTenant, PlatformType, GatewayType, gatewayVars
  <2>2. CASE AddFirm(DemoUsers) /\ boot' = [boot EXCEPT !.at = "demo_key", !.firm = NewFirm]
    <3>1. firms' \in [Firms -> Firm \cup {None}] /\ NewFirm \in Firms
      BY <2>2, AddFirmFacts, SeedLists DEF PlatformType
    <3>2. boot' \in Booting /\ boot'.at = "demo_key" /\ boot'.firm = NewFirm
      BY <1>0, <2>2, <3>1 DEF Booting, BootSteps
    <3> QED
      BY <1>6, <3>1, <3>2 DEF SeedTenant, PlatformType, GatewayType, gatewayVars
  <2> QED
    BY <1>6, <2>1, <2>2 DEF SeedTenant
<1>7. CASE SeedKey
  <2>1. boot' = [boot EXCEPT !.at = "demo_users", !.left = DemoUsers]
    BY <1>7 DEF SeedKey
  <2>2. boot' \in Booting /\ boot'.at = "demo_users" /\ boot'.firm = boot.firm
        /\ boot'.left = DemoUsers
    BY <1>0, <2>1, SeedLists DEF Booting, BootSteps
  <2>3. issued' \in [ApiKeys -> {"no", "active", "revoked"}]
    BY <1>7 DEF SeedKey, AddKey, GatewayType
  <2> QED
    BY <1>7, <2>2, <2>3, SeedLists DEF SeedKey, PlatformType
<1>8. CASE boot.at = "demo_users" /\ SeedNext("demo_customers", DemoCustomers)
  <2>1. boot.left \in Seq(Emails) /\ boot.left # <<>> /\ boot.firm \in Firms
    BY <1>8 DEF PlatformType
  <2>2. /\ boot' \in Booting /\ boot'.firm = boot.firm
        /\ \/ boot'.at = boot.at /\ boot'.left \in Seq(Emails) /\ boot'.left # <<>>
           \/ boot'.at = "demo_customers" /\ boot'.left = DemoCustomers
    BY <1>8, <2>1, SeedNextFacts, SeedLists DEF BootSteps
  <2>3. UNCHANGED <<issued, schema, setting, cache, firms>>
    <3>1. SeedDemoUser \/ BootCallFails
      BY <1>8 DEF BootAction, Boot, Start, Migrate, RecordMigration, LoadSettings, SeedAdmin,
                  SeedTenant, SeedKey, SeedCustomer, Stop, Running
    <3> QED
      BY <3>1 DEF SeedDemoUser, BootCallFails, gatewayVars
  <2>4. creds' \subseteq Credential /\ \A row, other \in creds' : row.email = other.email => row = other
    <3>1. UNCHANGED creds \/ SeedUser(Head(boot.left), boot.firm)
      BY <1>8 DEF BootAction, Boot, Start, Migrate, RecordMigration, LoadSettings, SeedAdmin,
                  SeedTenant, SeedKey, SeedCustomer, Stop, Running, SeedDemoUser, BootCallFails
    <3>2. Head(boot.left) \in Emails
      BY <2>1, TailFacts
    <3> QED
      BY <2>1, <3>1, <3>2, SeedUserFacts DEF PlatformType
  <2> QED
    BY <1>8, <2>1, <2>2, <2>3, <2>4, SeedLists DEF PlatformType, GatewayType
<1>9. CASE boot.at = "demo_customers" /\ SeedNext("up", <<>>)
  <2>1. boot.left \in Seq(ToSet(DemoCustomers)) /\ boot.left # <<>> /\ boot.firm \in Firms
    BY <1>9 DEF PlatformType
  <2>2. /\ boot' \in Booting /\ boot'.firm = boot.firm
        /\ \/ /\ boot'.at = boot.at /\ boot'.left \in Seq(ToSet(DemoCustomers))
              /\ boot'.left # <<>>
           \/ boot'.at = "up"
    BY <1>9, <2>1, SeedNextFacts, SeedLists DEF BootSteps
  <2>3. UNCHANGED <<issued, schema, setting, cache, firms, creds>>
    <3>1. SeedCustomer \/ BootCallFails
      BY <1>9 DEF BootAction, Boot, Start, Migrate, RecordMigration, LoadSettings, SeedAdmin,
                  SeedTenant, SeedKey, SeedDemoUser, Stop, Running
    <3> QED
      BY <3>1 DEF SeedCustomer, BootCallFails, gatewayVars
  <2> QED
    BY <1>9, <2>1, <2>2, <2>3 DEF PlatformType, GatewayType
<1>10. CASE BootCallFails
  <2>1. CASE \E step \in {"down", "up"} : boot' = At(step)
    <3>1. boot' \in Booting /\ boot'.at \in {"down", "up"}
      BY <2>1, AtFacts DEF BootSteps
    <3> QED
      BY <1>10, <3>1 DEF BootCallFails, PlatformType, GatewayType
  <2>2. CASE BootTo("demo")
    <3>1. boot' \in Booting /\ boot'.at = "demo"
      BY <1>0, <2>2, BootToFacts DEF BootSteps
    <3> QED
      BY <1>10, <3>1 DEF BootCallFails, PlatformType, GatewayType
  <2> QED
    BY <1>8, <1>9, <1>10, <2>1, <2>2 DEF BootCallFails
<1> QED
  BY <1>1, <1>2, <1>3, <1>4, <1>5, <1>6, <1>7, <1>8, <1>9, <1>10
  DEF BootAction, Boot, SeedDemoUser, SeedCustomer

\* A process that is not up has no requests, and it stops when there are none.
LEMMA BootServes ==
    ASSUME TaskType, ServedWhileUp, BootAction
    PROVE  ServedWhileUp'
<1>1. UNCHANGED task
  BY ElsewhereFrame
<1>2. boot.at # "up" \/ \A h \in Handlers : ~Busy(h)
  BY DEF BootAction, Boot, Start, Migrate, RecordMigration, LoadSettings, SeedAdmin,
         SeedTenant, SeedKey, SeedDemoUser, SeedCustomer, Stop, BootCallFails
<1> QED
  BY <1>1, <1>2 DEF ServedWhileUp, Busy

-----------------------------------------------------------------------------
(***************************************************************************)
(* The invariant the theorems rest on.                                     *)
(***************************************************************************)
TenantInv ==
    TaskType /\ GatewayType /\ AccountInv /\ RelayInv /\ PlatformType /\ ServedWhileUp

\* It holds when the process is started for the first time.
LEMMA TenantInit == Init => TenantInv
<1> SUFFICES ASSUME Init
             PROVE  TenantInv
  OBVIOUS
<1>1. TaskType
  BY IdleFacts DEF Init, GatewayInit, TaskType
<1>2. GatewayType
  BY EntryFacts, GatewayAssumption DEF Init, GatewayInit, GatewayType
<1>3. \A h \in Handlers : task[h].pc = "idle"
  BY IdleFacts DEF Init, GatewayInit
<1>4. AccountInv
  <2>1. AccountTables /\ Linked
    BY CustomersAssumption DEF Init, CustomersInit, VAInit, AccountTables, Linked
  <2>2. \A h \in Handlers : AtAccount(task[h])
    BY <1>3 DEF AtAccount, OnCustomer
  <2> QED
    BY <2>1, <2>2 DEF AccountInv
<1>5. RelayInv
  <2>1. deliveries \in Seq(Delivery) /\ DOMAIN deliveries = {}
    BY DEF Init, RelayInit
  <2> QED
    BY <1>3, <2>1 DEF Init, RelayInit, RelayInv, RelayTables, AtDelivery
<1>6. PlatformType
  <2>1. boot \in Booting /\ boot.at \in {"down", "up"}
    BY AtFacts DEF Init, PlatformInit, BootSteps
  <2>2. schema \in SchemaType /\ schema.recorded <= schema.applied /\ schema.applied <= Migrations
    BY PlatformAssumption DEF Init, PlatformInit, SchemaType
  <2>3. setting \in Limits \cup {None} /\ cache = setting
    BY PlatformAssumption DEF Init, PlatformInit
  <2>4. firms \in [Firms -> Firm \cup {None}]
    BY DEF Init, PlatformInit
  <2>5. creds \subseteq Credential /\ \A row, other \in creds : row.email = other.email => row = other
    <3> DEFINE t == CHOOSE x \in Tenants : TRUE
               demos == [email : ToSet(DemoUsers), tenant : {t}]
               admin == [email |-> Admin, tenant |-> None]
    <3>1. t \in Tenants
      BY GatewayAssumption
    <3>2. ToSet(DemoUsers) \subseteq Emails \ {Admin}
      BY PlatformAssumption DEF ToSet
    <3>3. demos \subseteq Credential /\ (\A row \in demos : row.email # Admin)
          /\ \A row, other \in demos : row.email = other.email => row = other
      <4> HIDE DEF t
      <4> QED
        BY <3>1, <3>2 DEF Credential
    <3>4. admin \in Credential /\ admin.email = Admin
      BY PlatformAssumption DEF Credential
    <3>5. creds \in {{}, {admin} \cup demos}
      BY DEF Init, PlatformInit
    <3> HIDE DEF demos, admin
    <3> QED
      BY <3>3, <3>4, <3>5
  <2> QED
    BY <2>1, <2>2, <2>3, <2>4, <2>5 DEF PlatformType
<1> QED
  BY <1>1, <1>2, <1>3, <1>4, <1>5, <1>6 DEF TenantInv, ServedWhileUp

\* A handler that moves in a route keeps the server busy.
LEMMA RouteServes ==
    ASSUME ServedWhileUp, NEW h \in Handlers, NEW steps, RouteMove(h, steps), UNCHANGED boot
    PROVE  ServedWhileUp'
<1>1. task[h].pc # "idle"
  BY DEF RouteMove, Midway
<1> QED
  BY <1>1 DEF ServedWhileUp, RouteMove, Only

\* A route leaves the gateway's tables in order.
LEMMA RouteTables ==
    ASSUME GatewayType, NEW h \in Handlers,
           CustomerAction(h) \/ VAAction(h) \/ RelayAction(h) \/ PlatformAction(h)
    PROVE  GatewayType'
<1>1. UNCHANGED <<redis, workload, executed, lapsed>> /\ (Fault \/ UNCHANGED faults)
  BY RouteFrame
<1>2. faults' \in 0..MaxFaults
  BY <1>1, FaultFacts DEF GatewayType
<1>3. issued' \in [ApiKeys -> {"no", "active", "revoked"}]
  <2>1. CASE UNCHANGED issued
    BY <2>1 DEF GatewayType
  <2>2. CASE PlatformAction(h)
    <3>1. UNCHANGED issued \/ CreateFirstKey(h)
      BY <2>2 DEF PlatformAction, PlatformStep, AuthorizeOperator, PutTierLimits,
              ReloadTierLimits, CreateTenant, CreateCredential, OnboardAdmin, PutUnconfirmed,
              RouteCallFails
    <3> QED
      BY <2>1, <3>1 DEF CreateFirstKey, AddKey, GatewayType
  <2> QED
    BY <2>1, <2>2, RouteFrame
<1> QED
  BY <1>1, <1>2, <1>3 DEF GatewayType

\* A handler of the gateway that is not at a new request has one.
LEMMA GatewayServes ==
    ASSUME ServedWhileUp, NEW h \in Handlers, GatewayAction(h), Accept(h) => Running, Only(h),
           UNCHANGED boot
    PROVE  ServedWhileUp'
<1>1. Accept(h) \/ task[h].pc # "idle"
  BY DEF GatewayAction, GatewayStep, Authenticate, LookUp, MarkInFlight, StoreResponse,
         CreateAPIKey, RevokeAPIKey, Serving, MiddlewareCallFails, MarkUnconfirmed, RouteCallFails
<1>2. boot.at = "up"
  BY <1>1 DEF ServedWhileUp, Running
<1> QED
  BY <1>2 DEF ServedWhileUp, Only

\* Every step keeps the invariant, the tenants of customers, the customers of accounts
\* and the attempts of the relay.
LEMMA TenantStep ==
    ASSUME TenantInv, [Next]_vars
    PROVE  TenantInv' /\ AccountsKeep /\ DeliveriesKeep
<1> USE DEF TenantInv
<1>0. /\ UNCHANGED <<customers, va, bank, raced>> => AccountsKeep
      /\ UNCHANGED relayVars => DeliveriesKeep
      /\ UNCHANGED platformVars => PlatformType'
  BY DEF AccountsKeep, DeliveriesKeep, relayVars, platformVars, PlatformType
<1>1. CASE UNCHANGED vars
  <2>1. UNCHANGED <<gatewayVars, accountVars, relayVars, platformVars>>
    BY <1>1 DEF vars
  <2>2. UNCHANGED task /\ GatewayType' /\ TaskType' /\ ServedWhileUp'
    BY <2>1 DEF gatewayVars, platformVars, GatewayType, TaskType, ServedWhileUp
  <2>3. AccountInv' /\ AccountsKeep
    BY <2>1, <2>2, AccountsElsewhere DEF accountVars
  <2>4. RelayInv'
    BY <2>1, <2>2, RelayElsewhere
  <2> QED
    BY <1>0, <2>1, <2>2, <2>3, <2>4
<1>2. ASSUME NEW h \in Handlers, GatewayAction(h), Accept(h) => Running,
             UNCHANGED <<accountVars, relayVars, platformVars>>
      PROVE  TenantInv' /\ AccountsKeep /\ DeliveriesKeep
  <2>1. TaskType' /\ GatewayType' /\ Only(h)
        /\ task'[h].pc \in {"idle", "auth", "get", "setnx", "serve", "store"}
    BY <1>2, GatewayTasks, GatewayTables
  <2>2. AccountInv' /\ AccountsKeep
    BY <1>2, <2>1, AccountsElsewhere DEF accountVars, Only
  <2>3. RelayInv'
    BY <1>2, <2>1, RelayElsewhere DEF Only
  <2>4. ServedWhileUp'
    BY <1>2, <2>1, GatewayServes DEF platformVars
  <2> QED
    BY <1>0, <1>2, <2>1, <2>2, <2>3, <2>4
<1>3. CASE RedisStep /\ UNCHANGED <<accountVars, relayVars, platformVars>>
  <2>1. /\ UNCHANGED <<task, issued, workload, faults>>
        /\ \E slot \in Slots : redis' = [redis EXCEPT ![slot] = Unset]
        /\ executed' \subseteq executed
        /\ \E slot \in Slots : lapsed' \subseteq lapsed \cup {slot}
    BY <1>3 DEF RedisStep, LapseMark, ExpireAnswer
  <2>2. TaskType' /\ GatewayType' /\ ServedWhileUp'
    BY <1>3, <2>1, EntryFacts DEF GatewayType, TaskType, ServedWhileUp, platformVars
  <2>3. AccountInv' /\ AccountsKeep
    BY <1>3, <2>1, AccountsElsewhere DEF accountVars
  <2>4. RelayInv'
    BY <1>3, <2>1, RelayElsewhere
  <2> QED
    BY <1>0, <1>3, <2>2, <2>3, <2>4
<1>4. ASSUME NEW h \in Handlers, CustomerAction(h),
             UNCHANGED <<va, bank, raced, relayVars, platformVars>>
      PROVE  TenantInv' /\ AccountsKeep /\ DeliveriesKeep
  <2>1. TaskType' /\ RouteMove(h, {"insert", "tier", "audit"}) /\ AccountInv' /\ AccountsKeep
    BY <1>4, CustomerTasks, CustomerAccounts DEF AccountInv, AccountTables
  <2>2. RelayInv'
    BY <1>4, <2>1, RelayElsewhere, IdleFacts DEF RouteMove, Only
  <2>3. GatewayType' /\ ServedWhileUp'
    BY <1>4, <2>1, RouteTables, RouteServes DEF platformVars
  <2> QED
    BY <1>0, <1>4, <2>1, <2>2, <2>3
<1>5. ASSUME NEW h \in Handlers, VAAction(h), UNCHANGED <<relayVars, platformVars>>
      PROVE  TenantInv' /\ AccountsKeep /\ DeliveriesKeep
  <2>1. TaskType' /\ RouteMove(h, {"find", "bank", "write", "audit"}) /\ AccountInv' /\ AccountsKeep
    BY <1>5, VATasks, VAAccounts
  <2>2. RelayInv'
    BY <1>5, <2>1, RelayElsewhere, IdleFacts DEF RouteMove, Only
  <2>3. GatewayType' /\ ServedWhileUp'
    BY <1>5, <2>1, RouteTables, RouteServes DEF platformVars
  <2> QED
    BY <1>0, <1>5, <2>1, <2>2, <2>3
<1>6. ASSUME NEW h \in Handlers, RelayAction(h), UNCHANGED <<accountVars, platformVars>>
      PROVE  TenantInv' /\ AccountsKeep /\ DeliveriesKeep
  <2>1. TaskType' /\ RouteMove(h, {"owner", "replay"}) /\ RelayInv' /\ DeliveriesKeep
    BY <1>6, RelayTasks, RelayRoutes DEF RelayInv, RelayTables
  <2>2. AccountInv' /\ AccountsKeep
    BY <1>6, <2>1, AccountsElsewhere, IdleFacts DEF RouteMove, Only, accountVars
  <2>3. GatewayType' /\ ServedWhileUp'
    BY <1>6, <2>1, RouteTables, RouteServes DEF platformVars
  <2> QED
    BY <1>0, <1>6, <2>1, <2>2, <2>3
<1>7. CASE CourierStep /\ UNCHANGED <<accountVars, platformVars>>
  <2>1. UNCHANGED <<redis, task, workload, executed, lapsed, issued>>
        /\ (Fault \/ UNCHANGED faults)
    BY <1>7, ElsewhereFrame
  <2>2. faults' \in 0..MaxFaults
    BY <2>1, FaultFacts DEF GatewayType
  <2>3. TaskType' /\ GatewayType' /\ ServedWhileUp'
    BY <1>7, <2>1, <2>2 DEF GatewayType, TaskType, ServedWhileUp, platformVars
  <2>4. AccountInv' /\ AccountsKeep
    BY <1>7, <2>1, AccountsElsewhere DEF accountVars
  <2>5. RelayInv' /\ DeliveriesKeep
    BY <1>7, CourierRelay
  <2> QED
    BY <1>0, <1>7, <2>3, <2>4, <2>5
<1>8. ASSUME NEW h \in Handlers, PlatformAction(h), UNCHANGED <<accountVars, relayVars>>
      PROVE  TenantInv' /\ AccountsKeep /\ DeliveriesKeep
  <2>1. TaskType' /\ RouteMove(h, {"serve", "reload", "add_key", "add_user"})
        /\ PlatformType' /\ UNCHANGED boot
    BY <1>8, PlatformTasks, PlatformRoutes
  <2>2. AccountInv' /\ AccountsKeep
    BY <1>8, <2>1, AccountsElsewhere, IdleFacts DEF RouteMove, Only, accountVars
  <2>3. RelayInv'
    BY <1>8, <2>1, RelayElsewhere, IdleFacts DEF RouteMove, Only
  <2>4. GatewayType' /\ ServedWhileUp'
    BY <1>8, <2>1, RouteTables, RouteServes
  <2> QED
    BY <1>0, <1>8, <2>1, <2>2, <2>3, <2>4
<1>9. CASE BootAction /\ UNCHANGED accountVars /\ (UNCHANGED relayVars \/ Shutdown)
  <2>1. UNCHANGED <<redis, task, workload, executed, lapsed>> /\ (Fault \/ UNCHANGED faults)
    BY <1>9, ElsewhereFrame
  <2>2. faults' \in 0..MaxFaults
    BY <2>1, FaultFacts DEF GatewayType
  <2>3. PlatformType' /\ GatewayType' /\ TaskType'
    BY <1>9, <2>1, <2>2, BootPlatform DEF GatewayType, TaskType
  <2>4. ServedWhileUp'
    BY <1>9, BootServes
  <2>5. AccountInv' /\ AccountsKeep
    BY <1>9, <2>1, AccountsElsewhere DEF accountVars
  <2>6. RelayInv' /\ DeliveriesKeep
    <3>1. CASE UNCHANGED relayVars
      BY <1>0, <2>1, <3>1, RelayElsewhere
    <3>2. CASE Shutdown
      BY <2>1, <3>2, AbandonRelay DEF Shutdown
    <3> QED
      BY <1>9, <3>1, <3>2
  <2> QED
    BY <2>3, <2>4, <2>5, <2>6
<1>10. CASE Crash
  <2>1. \A h \in Handlers : task'[h] = Idle
    BY <1>10 DEF Crash
  <2>2. TaskType'
    BY <1>10, IdleFacts DEF Crash, TaskType
  <2>3. faults' \in 0..MaxFaults
    BY <1>10, FaultFacts DEF Crash
  <2>4. GatewayType'
    BY <1>10, <2>3 DEF Crash, GatewayType
  <2>5. AccountInv' /\ AccountsKeep
    BY <1>10, <2>1, IdleFacts, AccountsElsewhere DEF Crash, accountVars
  <2>6. RelayInv' /\ DeliveriesKeep
    BY <1>10, <2>1, AbandonRelay DEF Crash
  <2>7. boot' \in Booting /\ boot'.at = "down"
    BY <1>10, AtFacts DEF Crash, BootSteps
  <2>8. PlatformType'
    BY <1>10, <2>7 DEF Crash, PlatformType
  <2>9. ServedWhileUp'
    BY <2>1, IdleFacts DEF ServedWhileUp
  <2> QED
    BY <2>2, <2>4, <2>5, <2>6, <2>8, <2>9
<1> QED
  BY <1>1, <1>2, <1>3, <1>4, <1>5, <1>6, <1>7, <1>8, <1>9, <1>10, StepKinds

\* The invariant holds in every state of the API server.
THEOREM TenantInvariant == Spec => []TenantInv
<1>1. TenantInv /\ [Next]_vars => TenantInv'
  BY TenantStep
<1> QED
  BY <1>1, TenantInit, PTL DEF Spec

-----------------------------------------------------------------------------
(***************************************************************************)
(* What the invariant says at once.                                        *)
(***************************************************************************)
\* TypeOK holds for any number of tenants, handlers, accounts and restarts.
THEOREM TenantTypeCorrect == Spec => []TypeOK
<1>1. TenantInv => TypeOK
  <2> SUFFICES ASSUME TenantInv
               PROVE  TypeOK
    OBVIOUS
  <2>1. /\ issued \in [ApiKeys -> {"no", "active", "revoked"}]
        /\ DOMAIN redis = Slots
        /\ \A s \in Slots : redis[s] \in {Unset, InFlight} \cup {Stored(a) : a \in HttpAnswers \ {"none"}}
        /\ workload \in Workloads
        /\ executed \subseteq Slots
        /\ lapsed \subseteq Slots
        /\ faults \in 0..MaxFaults
    BY DEF TenantInv, GatewayType, Entry
  <2>2. /\ DOMAIN task = Handlers
        /\ \A h \in Handlers :
               /\ task[h].pc \in HandlerSteps
               /\ task[h].answer \in HttpAnswers
               /\ Busy(h) => task[h].req.op \in RequestOps
               /\ task[h].pc \notin {"idle", "auth"} =>
                      (task[h].tenant \in Tenants <=> task[h].req.op \notin OperatorOps)
               /\ Busy(h) => Running
    <3>1. task \in [Handlers -> Task]
      BY DEF TenantInv, TaskType
    <3> SUFFICES ASSUME NEW h \in Handlers
                 PROVE  /\ task[h].pc \in HandlerSteps
                        /\ task[h].answer \in HttpAnswers
                        /\ Busy(h) => task[h].req.op \in RequestOps
                        /\ task[h].pc \notin {"idle", "auth"} =>
                               (task[h].tenant \in Tenants <=> task[h].req.op \notin OperatorOps)
                        /\ Busy(h) => Running
      BY <3>1
    <3>2. task[h] \in Task /\ TaskOK(task[h])
      BY DEF TenantInv, TaskType
    <3>3. task[h].pc \in HandlerSteps /\ task[h].answer \in HttpAnswers
      BY <3>2 DEF Task
    <3>4. Busy(h) => task[h].req \in Requests /\ Running
      BY <3>2 DEF TaskOK, Busy, TenantInv, ServedWhileUp, Running
    <3>5. task[h].pc \notin {"idle", "auth"} =>
              (task[h].tenant \in Tenants <=> task[h].req.op \notin OperatorOps)
      <4> SUFFICES ASSUME task[h].pc \notin {"idle", "auth"}
                   PROVE  task[h].tenant \in Tenants <=> task[h].req.op \notin OperatorOps
        OBVIOUS
      <4>1. task[h].req \in Requests /\ task[h].tenant = TenantOf(task[h].req)
        BY <3>2 DEF TaskOK
      <4>2. None \notin Tenants
        BY GatewayAssumption
      <4> QED
        BY <4>1, <4>2, RequestFacts DEF TenantOf
    <3> QED
      BY <3>3, <3>4, <3>5, RequestFacts
  <2>3. /\ customers \in [Customers -> Row \cup {None}]
        /\ va \in [Accounts -> VARow \cup {None}]
        /\ bank \in [Accounts -> BankRow \cup {None}]
        /\ raced \subseteq Customers
        /\ endpoints \subseteq Endpoints
        /\ dispatched \subseteq Events
        /\ deliveries \in Seq(Delivery)
    BY DEF TenantInv, AccountInv, AccountTables, RelayInv, RelayTables
  <2>4. boot.at \in BootSteps /\ boot.firm \in Firms \cup {None}
    BY DEF TenantInv, PlatformType, Booting
  <2>5. schema.recorded \in 0..schema.applied /\ schema.applied \in 0..Migrations
    <3>1. schema.recorded \in Nat /\ schema.applied \in Nat /\ Migrations \in Nat
          /\ schema.recorded <= schema.applied /\ schema.applied <= Migrations
      BY PlatformAssumption DEF TenantInv, PlatformType, SchemaType
    <3> QED
      BY <3>1
  <2>6. /\ setting \in Limits \cup Malformed \cup {None}
        /\ cache \in Limits \cup {None}
        /\ \A row \in creds : row.email \in Emails /\ row.tenant \in Tenants \cup Firms \cup {None}
        /\ \A row, other \in creds : row.email = other.email => row = other
    BY DEF TenantInv, PlatformType, Credential
  <2> QED
    BY <2>1, <2>2, <2>3, <2>4, <2>5, <2>6 DEF TypeOK
<1> QED
  BY <1>1, TenantInvariant, PTL

\* DeadLetterEarned: FailureStatus gives up at the third attempt, and an attempt is
\* numbered after the row it was asked for from, whoever asks and however often, and
\* whichever goroutines a crash takes away.
THEOREM DeadLettersAreEarned == Spec => []DeadLetterEarned
<1>1. TenantInv => DeadLetterEarned
  <2> SUFFICES ASSUME TenantInv, NEW i \in Rows, deliveries[i].status = "dead_letter",
                      NEW n \in 1..MaxAttempts \cup 1..deliveries[i].attempt
               PROVE  \E j \in Rows : SameCourse(i, j) /\ deliveries[j].attempt = n
    BY DEF DeadLetterEarned
  <2>1. i \in DOMAIN deliveries /\ OnCourse(i) /\ deliveries[i] \in Delivery
    BY DEF TenantInv, RelayInv, RelayTables, Rows
  <2>2. n \in 1..(deliveries[i].attempt - 1) \/ n = deliveries[i].attempt
    BY <2>1 DEF OnCourse, MaxAttempts, Delivery
  <2> QED
    BY <2>1, <2>2 DEF OnCourse, SameCourse
<1> QED
  BY <1>1, TenantInvariant, PTL

-----------------------------------------------------------------------------
(***************************************************************************)
(* What a step of a route on the accounts does.                            *)
(***************************************************************************)
\* It answers, goes on, or makes one of the changes at the provider and in the table.
LEMMA VACases ==
    ASSUME TaskType, AccountInv, NEW h \in Handlers, VAAction(h)
    PROVE  /\ UNCHANGED <<customers, audit>>
           /\ task'[h].pc # task[h].pc
           /\ \/ /\ task'[h].pc \in {"idle", "store"}
                 /\ UNCHANGED <<va, bank, raced>>
                 /\ task[h].pc = "write" => Fault \/ ~OneActive(Written(h))
              \/ /\ task[h].pc = "serve" /\ task'[h].pc = "find"
                 /\ UNCHANGED <<va, bank, raced>>
              \/ /\ task[h].pc = "find" /\ UNCHANGED <<va, bank>>
                 /\ \/ /\ task[h].req.op = "provision_va"
                       /\ GetVAs(task[h].req.on, "ACTIVE") = {}
                       /\ Begin(h, "bank", None, None)
                       /\ task'[h].pc = "bank"
                    \/ \E v \in Accounts, was \in {"ACTIVE", "SUSPENDED"} :
                           /\ v \in GetVAs(task[h].req.on, was)
                           /\ task[h].req.op # "provision_va"
                           /\ task'[h].pc \in {"bank", "write"}
                           /\ task'[h].pc = "write" => task[h].req.op = "unsuspend_va"
                           /\ task'[h].read.id = v /\ task'[h].read.was = was
                           /\ Begin(h, task'[h].pc, v, was)
              \/ /\ task[h].pc = "bank" /\ task'[h].pc = "write" /\ UNCHANGED <<va, raced>>
                 /\ \/ /\ task[h].req.op = "provision_va" /\ Opened(h)
                       /\ task'[h].read.id = NewAccount
                    \/ /\ task[h].req.op = "rename_va" /\ task'[h].read = task[h].read
                       /\ bank' = [bank EXCEPT ![task[h].read.id].name = task[h].req.arg]
                    \/ /\ task[h].req.op \in {"close_va", "suspend_va"}
                       /\ task'[h].read = task[h].read
                       /\ BestEffort(h) \/ (Fault /\ UNCHANGED bank)
              \/ /\ task[h].pc = "write" /\ task'[h].pc = "audit" /\ UNCHANGED <<bank, raced>>
                 /\ task'[h].read = task[h].read
                 /\ va' = Written(h) /\ OneActive(va')
              \/ /\ Fault /\ task'[h].pc \in {"idle", "store"}
                 /\ \/ /\ task[h].pc = "bank" /\ UNCHANGED <<va, raced>>
                       /\ \/ Opened(h)
                          \/ /\ task[h].req.op = "rename_va"
                             /\ bank' = [bank EXCEPT ![task[h].read.id].name = task[h].req.arg]
                    \/ /\ task[h].pc = "write" /\ UNCHANGED <<bank, raced>>
                       /\ va' = Written(h) /\ OneActive(va')
<1>1. ASSUME NEW s \in HttpAnswers \ {"none"}, Respond(h, s),
             task[h].pc \in {"serve", "find", "bank", "write"}
      PROVE  task'[h].pc \in {"idle", "store"}
  BY <1>1, RespondFacts, IdleFacts
<1>2. ASSUME NEW step, NEW id, NEW was, Read(h, step, id, was)
      PROVE  task'[h].pc = step /\ task'[h].read.id = id /\ task'[h].read.was = was
  BY <1>2 DEF Read, TaskType, Task
<1>3. ASSUME NEW step \in HandlerSteps, Goto(h, step)
      PROVE  task'[h].pc = step /\ task'[h].read = task[h].read
  BY <1>3, GotoFacts
<1>4. "200" \in HttpAnswers \ {"none"} /\ "500" \in HttpAnswers \ {"none"}
      /\ "write" \in HandlerSteps /\ "audit" \in HandlerSteps /\ "find" \in HandlerSteps
      /\ \A op : AnswerNone(op) \in HttpAnswers \ {"none"}
  BY DEF HttpAnswers, HandlerSteps, AnswerNone
<1>5. CASE FindCustomer(h)
  BY <1>1, <1>3, <1>4, <1>5 DEF FindCustomer, accountVars
<1>6. CASE FindVA(h)
  <2>1. task[h].pc = "find" /\ UNCHANGED <<customers, audit, va, bank>>
    BY <1>6 DEF FindVA
  <2>2. CASE (\E s \in HttpAnswers \ {"none"} : Respond(h, s)) /\ UNCHANGED raced
    BY <1>1, <2>1, <2>2
  <2>3. CASE /\ task[h].req.op = "provision_va"
             /\ GetVAs(task[h].req.on, "ACTIVE") = {}
             /\ Begin(h, "bank", None, None)
    <3>1. task'[h].pc = "bank"
      BY <1>2, <2>3 DEF Begin
    <3> QED
      BY <2>1, <2>3, <3>1
  <2>4. ASSUME NEW v \in Accounts, NEW was \in {"ACTIVE", "SUSPENDED"},
               v \in GetVAs(task[h].req.on, was),
               \/ /\ task[h].req.op \in {"rename_va", "close_va", "suspend_va"}
                  /\ Begin(h, "bank", v, was)
               \/ task[h].req.op = "unsuspend_va" /\ Begin(h, "write", v, was)
        PROVE  /\ task'[h].pc \in {"bank", "write"}
               /\ task'[h].pc = "write" => task[h].req.op = "unsuspend_va"
               /\ task'[h].read.id = v /\ task'[h].read.was = was
               /\ Begin(h, task'[h].pc, v, was)
               /\ task[h].req.op # "provision_va"
    <3>1. CASE task[h].req.op \in {"rename_va", "close_va", "suspend_va"} /\ Begin(h, "bank", v, was)
      <4>1. task'[h].pc = "bank" /\ task'[h].read.id = v /\ task'[h].read.was = was
        BY <1>2, <3>1 DEF Begin
      <4> QED
        BY <3>1, <4>1
    <3>2. CASE task[h].req.op = "unsuspend_va" /\ Begin(h, "write", v, was)
      <4>1. task'[h].pc = "write" /\ task'[h].read.id = v /\ task'[h].read.was = was
        BY <1>2, <3>2 DEF Begin
      <4> QED
        BY <3>2, <4>1
    <3> QED
      BY <2>4, <3>1, <3>2
  <2>5. \/ (\E s \in HttpAnswers \ {"none"} : Respond(h, s)) /\ UNCHANGED raced
        \/ /\ task[h].req.op = "provision_va"
           /\ GetVAs(task[h].req.on, "ACTIVE") = {}
           /\ Begin(h, "bank", None, None)
        \/ \E v \in Accounts, was \in {"ACTIVE", "SUSPENDED"} :
               /\ v \in GetVAs(task[h].req.on, was)
               /\ \/ /\ task[h].req.op \in {"rename_va", "close_va", "suspend_va"}
                     /\ Begin(h, "bank", v, was)
                  \/ task[h].req.op = "unsuspend_va" /\ Begin(h, "write", v, was)
    BY <1>6, FindVACases
  <2> QED
    BY <2>1, <2>2, <2>3, <2>4, <2>5
<1>7. CASE CreateVA(h)
  BY <1>2, <1>7 DEF CreateVA
<1>8. CASE UpdateVA(h) \/ BestEffort(h) \/ BestEffortFails(h)
  BY <1>3, <1>4, <1>8 DEF UpdateVA, BestEffort, BestEffortFails, accountVars
<1>9. CASE WriteVA(h)
  BY <1>1, <1>3, <1>4, <1>9 DEF WriteVA
<1>10. CASE BankFails(h) \/ (RouteCallFails(h, {"find", "write"}) /\ UNCHANGED accountVars)
  BY <1>1, <1>4, <1>10 DEF BankFails, RouteCallFails, accountVars
<1>11. CASE BankUnconfirmed(h)
  BY <1>1, <1>4, <1>11 DEF BankUnconfirmed
<1>12. CASE WriteUnconfirmed(h)
  BY <1>1, <1>4, <1>12 DEF WriteUnconfirmed
<1> QED
  BY <1>5, <1>6, <1>7, <1>8, <1>9, <1>10, <1>11, <1>12 DEF VAAction, VAStep

\* The steps of the routes on customers.
LEMMA CustomerCases ==
    ASSUME TaskType, AccountInv, NEW h \in Handlers, CustomerAction(h)
    PROVE  /\ task'[h].pc # task[h].pc
           /\ \/ /\ task'[h].pc \in {"idle", "store"} \/ task[h].pc = "serve"
                 /\ task'[h].pc # "audit"
                 /\ UNCHANGED <<customers, audit>>
                 /\ task[h].pc = "audit" => Fault
              \/ /\ task[h].pc = "insert" /\ task'[h].pc = "audit"
                 /\ Insert(h) /\ UNCHANGED audit /\ task'[h].read.id = NewCustomer
              \/ /\ task[h].pc = "tier" /\ task'[h].pc = "audit"
                 /\ WriteTier(h) /\ UNCHANGED audit /\ task'[h].read = task[h].read
              \/ /\ task[h].pc = "audit" /\ task'[h].pc \in {"idle", "store"}
                 /\ UNCHANGED customers
                 /\ audit' = audit \cup {<<task[h].read.id, Outcome(task[h].req)>>}
              \/ /\ task[h].pc = "insert" /\ task'[h].pc \in {"idle", "store"}
                 /\ Fault /\ Insert(h) /\ UNCHANGED audit
<1>1. ASSUME NEW s \in HttpAnswers \ {"none"}, Respond(h, s),
             task[h].pc \in {"serve", "insert", "tier", "audit"}
      PROVE  task'[h].pc \in {"idle", "store"}
  BY <1>1, RespondFacts, IdleFacts
<1>2. ASSUME NEW step, NEW id, NEW was, Read(h, step, id, was)
      PROVE  task'[h].pc = step /\ task'[h].read.id = id
  BY <1>2 DEF Read, TaskType, Task
<1>3. ASSUME NEW step \in HandlerSteps, Goto(h, step)
      PROVE  task'[h].pc = step /\ task'[h].read = task[h].read
  BY <1>3, GotoFacts
<1>4. /\ \A s \in {"201", "404", "422", "500"} : s \in HttpAnswers \ {"none"}
      /\ "insert" \in HandlerSteps /\ "audit" \in HandlerSteps
      /\ \A op : Answer(op) \in HttpAnswers \ {"none"}
  BY DEF HttpAnswers, HandlerSteps, Answer
<1>5. CASE CreateCustomer(h)
  <2>1. task[h].pc = "serve" /\ UNCHANGED <<customers, audit>>
        /\ (Respond(h, "422") \/ Respond(h, "201") \/ Goto(h, "insert"))
    BY <1>5 DEF CreateCustomer, Serving
  <2> QED
    BY <1>1, <1>3, <1>4, <2>1
<1>6. CASE InsertCustomer(h)
  BY <1>1, <1>2, <1>4, <1>6 DEF InsertCustomer
<1>7. CASE UpdateKYCTier(h)
  <2>1. task[h].pc = "serve" /\ UNCHANGED <<customers, audit>>
        /\ (Respond(h, "422") \/ Respond(h, "404") \/ \E id, was : Read(h, "tier", id, was))
    BY <1>7 DEF UpdateKYCTier, Serving
  <2> QED
    BY <1>1, <1>2, <1>4, <2>1
<1>8. CASE WriteTier(h)
  BY <1>3, <1>4, <1>8 DEF WriteTier
<1>9. CASE AppendAudit(h) \/ AppendAuditFails(h)
  <2>1. task[h].pc = "audit" /\ UNCHANGED customers /\ Respond(h, Answer(task[h].req.op))
    BY <1>9 DEF AppendAudit, AppendAuditFails
  <2>2. task'[h].pc \in {"idle", "store"}
    BY <1>1, <1>4, <2>1
  <2> QED
    BY <1>9, <2>1, <2>2 DEF AppendAudit, AppendAuditFails
<1>10. CASE InsertUnconfirmed(h)
  BY <1>1, <1>4, <1>10 DEF InsertUnconfirmed
<1>11. CASE RouteCallFails(h, {"insert", "tier"}) /\ UNCHANGED customerVars
  BY <1>1, <1>4, <1>11 DEF RouteCallFails
<1> QED
  BY <1>5, <1>6, <1>7, <1>8, <1>9, <1>10, <1>11 DEF CustomerAction, CustomerStep

\* Who changes an account: a handler at the provider or at the table, on the account
\* of its own customer, which it read before it was closed.
LEMMA AccountChanges ==
    ASSUME TenantInv, NEW h \in Handlers, VAAction(h), NEW v \in Accounts,
           bank'[v] # bank[v] \/ va'[v] # va[v]
    PROVE  /\ task'[h] # task[h]
           /\ bank'[v].customer = task[h].req.on
           /\ customers[task[h].req.on].tenant = task[h].tenant
           /\ va'[v] # va[v] => /\ task[h].pc = "write" /\ va' = Written(h)
                                /\ task[h].read.id = v /\ task[h].read.was # "CLOSED"
<1>0. TaskType /\ AccountInv
  BY DEF TenantInv
<1>1. task[h].pc \in {"bank", "write"} /\ task'[h] # task[h]
  BY <1>0, VACases
<1>2. customers[task[h].req.on].tenant = task[h].tenant
  BY <1>0, <1>1, WritingFacts DEF AccountInv, AtAccount
<1>3. CASE task[h].pc = "bank"
  <2>1. UNCHANGED va /\ \/ Opened(h)
                        \/ /\ task[h].req.op = "rename_va"
                           /\ bank' = [bank EXCEPT ![task[h].read.id].name = task[h].req.arg]
                        \/ BestEffort(h)
                        \/ UNCHANGED bank
    BY <1>0, <1>3, VACases
  <2>2. bank'[v] # bank[v]
    BY <2>1
  <2>3. CASE Opened(h)
    BY <1>0, <1>1, <1>2, <1>3, <2>1, <2>2, <2>3, OpenedFacts
  <2>4. CASE /\ task[h].req.op = "rename_va"
             /\ bank' = [bank EXCEPT ![task[h].read.id].name = task[h].req.arg]
    <3> DEFINE w == task[h].read.id
    <3>1. /\ bank'[w].customer = bank[w].customer /\ bank[w].customer = task[h].req.on
          /\ \A u \in Accounts \ {w} : bank'[u] = bank[u]
      BY <1>0, <1>3, <2>4, RenamedFacts
    <3> HIDE DEF w
    <3>2. v = w
      BY <2>2, <3>1
    <3> QED
      BY <1>1, <1>2, <2>1, <3>1, <3>2
  <2>5. CASE BestEffort(h)
    <3> DEFINE w == task[h].read.id
    <3>1. /\ bank'[w].customer = bank[w].customer /\ bank[w].customer = task[h].req.on
          /\ \A u \in Accounts \ {w} : bank'[u] = bank[u]
      BY <1>0, <2>5, ToldFacts
    <3> HIDE DEF w
    <3>2. v = w
      BY <2>2, <3>1
    <3> QED
      BY <1>1, <1>2, <2>1, <3>1, <3>2
  <2> QED
    BY <2>1, <2>2, <2>3, <2>4, <2>5
<1>4. CASE task[h].pc = "write"
  <2>1. UNCHANGED bank /\ (UNCHANGED va \/ va' = Written(h))
    BY <1>0, <1>4, VACases
  <2>2. va' = Written(h)
    BY <2>1
  <2>3. task[h].read.id \in Accounts /\ bank[task[h].read.id].customer = task[h].req.on
        /\ \A w \in Accounts \ {task[h].read.id} : Written(h)[w] = va[w]
    BY <1>0, <1>4, WrittenFacts
  <2>4. task[h].read.id = v
    BY <2>1, <2>2, <2>3
  <2>5. task[h].read.was # "CLOSED"
    BY <1>0, <1>4 DEF TaskType, TaskOK
  <2> QED
    BY <1>1, <1>2, <1>4, <2>1, <2>2, <2>3, <2>4, <2>5
<1> QED
  BY <1>1, <1>3, <1>4

\* TenantIsolation: GetCustomer looks customers up under the tenant of the API key, a
\* route never leaves that customer, and CheckOwner stands before every replay.
THEOREM TenantsAreIsolated == Spec => TenantIsolation
<1> DEFINE ActedFor(t) == \E h \in Handlers : task'[h] # task[h] /\ task[h].tenant = t
           Isolated ==
               /\ \A v \in Accounts :
                      (bank'[v] # bank[v] \/ va'[v] # va[v]) =>
                          ActedFor(customers[bank'[v].customer].tenant)
               /\ \A c \in Customers :
                      (customers[c] # None /\ customers'[c] # customers[c]) =>
                          ActedFor(customers[c].tenant)
               /\ \A i \in DOMAIN deliveries' \ DOMAIN deliveries :
                      /\ EndpointOwner[deliveries'[i].endpoint] = EventTenant[deliveries'[i].event]
                      /\ deliveries'[i].attempt > 1 =>
                             ActedFor(EndpointOwner[deliveries'[i].endpoint])
<1>1. ASSUME TenantInv, [Next]_vars
      PROVE  Isolated
  <2>0. TaskType /\ AccountInv /\ RelayInv /\ RelayInv'
    BY <1>1, TenantStep DEF TenantInv
  <2>1. \A v \in Accounts :
            (bank'[v] # bank[v] \/ va'[v] # va[v]) => ActedFor(customers[bank'[v].customer].tenant)
    <3> SUFFICES ASSUME NEW v \in Accounts, bank'[v] # bank[v] \/ va'[v] # va[v]
                 PROVE  ActedFor(customers[bank'[v].customer].tenant)
      OBVIOUS
    <3>1. PICK h \in Handlers : VAAction(h)
      BY <1>1, StepKinds DEF vars, accountVars, Crash
    <3> QED
      BY <1>1, <3>1, AccountChanges
  <2>2. \A c \in Customers :
            (customers[c] # None /\ customers'[c] # customers[c]) => ActedFor(customers[c].tenant)
    <3> SUFFICES ASSUME NEW c \in Customers, customers[c] # None, customers'[c] # customers[c]
                 PROVE  ActedFor(customers[c].tenant)
      OBVIOUS
    <3>1. ASSUME NEW h \in Handlers, VAAction(h)
          PROVE  UNCHANGED customers
      BY <2>0, <3>1, VACases
    <3>2. PICK h \in Handlers : CustomerAction(h)
      BY <1>1, <3>1, StepKinds DEF vars, accountVars, Crash
    <3>3. task'[h] # task[h]
      BY <2>0, <3>2, CustomerCases
    <3>4. ~(task[h].pc = "insert" /\ Insert(h))
      BY <2>0, InsertFacts DEF AccountInv
    <3>5. WriteTier(h)
      BY <2>0, <3>2, <3>4, CustomerCases
    <3> QED
      BY <2>0, <3>3, <3>5, TierFacts
  <2>3. \A i \in DOMAIN deliveries' \ DOMAIN deliveries :
            /\ EndpointOwner[deliveries'[i].endpoint] = EventTenant[deliveries'[i].event]
            /\ deliveries'[i].attempt > 1 => ActedFor(EndpointOwner[deliveries'[i].endpoint])
    <3> SUFFICES ASSUME NEW i \in DOMAIN deliveries' \ DOMAIN deliveries
                 PROVE  /\ EndpointOwner[deliveries'[i].endpoint] = EventTenant[deliveries'[i].event]
                        /\ deliveries'[i].attempt > 1 =>
                               ActedFor(EndpointOwner[deliveries'[i].endpoint])
      OBVIOUS
    <3>1. EndpointOwner[deliveries'[i].endpoint] = EventTenant[deliveries'[i].event]
      BY <2>0 DEF RelayInv, OnCourse
    <3>2. (\E h \in Handlers : RelayAction(h)) \/ CourierStep
      <4>1. ~Crash /\ ~Shutdown
        BY DEF Crash, Shutdown, Abandon
      <4> QED
        BY <1>1, <4>1, StepKinds DEF vars, relayVars
    <3>3. CASE CourierStep
      <4>1. PICK x \in Events : Dispatch(x)
        <5>1. ASSUME NEW j \in DOMAIN deliveries, NEW status, Becomes(j, status)
              PROVE  DOMAIN deliveries' = DOMAIN deliveries
          BY <5>1 DEF Becomes
        <5> QED
          BY <3>3, <5>1 DEF CourierStep, ListEndpointsFails, Deliver, CreateDeliveryFails, Send,
                            RecordSuccess, RecordFailure
      <4>2. deliveries'[i].attempt = 1
        BY <2>0, <4>1, DispatchFacts
      <4> QED
        BY <3>1, <4>2
    <3>4. ASSUME NEW h \in Handlers, RelayAction(h)
          PROVE  ActedFor(EndpointOwner[deliveries'[i].endpoint])
      <4>1. Replay(h)
        BY <3>4 DEF RelayAction, RelayStep, CreateEndpoint, FindDelivery, CheckOwner, relayVars
      <4>2. EndpointOwner[deliveries'[i].endpoint] = task[h].tenant
        BY <2>0, <4>1, ReplayFacts
      <4>3. task'[h].pc \in {"idle", "store"} /\ task[h].pc = "replay"
        BY <2>0, <4>1, RespondFacts, IdleFacts DEF Replay, HttpAnswers
      <4> QED
        BY <4>2, <4>3
    <3> QED
      BY <3>1, <3>2, <3>3, <3>4
  <2> QED
    BY <2>1, <2>2, <2>3
<1>2. ASSUME TenantInv, [Next]_vars
      PROVE  [Isolated]_vars
  BY <1>1, <1>2
<1> QED
  BY <1>2, TenantInvariant, PTL DEF Spec, TenantIsolation

-----------------------------------------------------------------------------
(***************************************************************************)
(* Idempotency keys.  A handler that runs a route under a key has its mark *)
(* in Redis, alone, unless the mark has expired.                           *)
(***************************************************************************)
Holds(t) == t.pc \in {"serve", "store"} \cup Midway /\ t.req.idem # None

MarkInv ==
    /\ \A s \in Slots : redis[s] = Unset => s \notin executed \/ s \in lapsed
    /\ \A h \in Handlers : Holds(task[h]) => Slot(h) \in lapsed \/ redis[Slot(h)] = InFlight
    /\ \A g, h \in Handlers :
           (g # h /\ Holds(task[g]) /\ Holds(task[h]) /\ Slot(g) = Slot(h)) => Slot(h) \in lapsed

\* A handler that holds a mark has a slot.
LEMMA HolderFacts ==
    ASSUME TaskType, NEW h \in Handlers, Holds(task[h])
    PROVE  Slot(h) \in Slots
BY SlotFacts DEF Holds, Midway

\* What a step of the gateway does to Redis.
LEMMA MarkCases ==
    ASSUME TaskType, GatewayType, NEW h \in Handlers, GatewayAction(h)
    PROVE  /\ UNCHANGED lapsed
           /\ \/ /\ task[h].pc = "setnx" /\ task'[h].pc = "serve"
                 /\ task'[h].req = task[h].req /\ task'[h].tenant = task[h].tenant
                 /\ Slot(h) \in Slots /\ redis[Slot(h)] = Unset
                 /\ redis' = [redis EXCEPT ![Slot(h)] = InFlight]
                 /\ executed' = executed \cup {Slot(h)}
              \/ /\ task[h].pc = "setnx" /\ task'[h] = Idle
                 /\ Slot(h) \in Slots /\ redis[Slot(h)] = Unset
                 /\ redis' = [redis EXCEPT ![Slot(h)] = InFlight] /\ UNCHANGED executed
              \/ /\ task[h].pc = "store" /\ task'[h] = Idle
                 /\ Slot(h) \in Slots /\ Holds(task[h])
                 /\ redis' = [redis EXCEPT ![Slot(h)] = Stored(task[h].answer)]
                 /\ UNCHANGED executed
              \/ /\ ~(task[h].pc = "setnx" /\ task'[h].pc = "serve")
                 /\ UNCHANGED <<redis, executed>>
                 /\ Holds(task'[h]) => /\ Holds(task[h]) /\ task'[h].req = task[h].req
                                       /\ task'[h].tenant = task[h].tenant
<1>0. task[h] \in Task /\ TaskOK(task[h])
  BY DEF TaskType
<1>1. task[h].pc \in {"setnx", "store"} => Slot(h) \in Slots /\ task[h].req.idem # None
  BY <1>0, SlotFacts DEF TaskOK
<1>2. ~Holds(Idle)
  BY IdleFacts DEF Holds, Midway
<1>3. Dismiss(h) => task'[h] = Idle
  BY DismissFacts
<1>4. CASE Accept(h)
  <2>1. task'[h].pc = "auth"
    BY <1>4 DEF Accept, TaskType, Idle
  <2> QED
    BY <1>4, <2>1 DEF Accept, Holds, Midway
<1>5. CASE Authenticate(h)
  <2>1. task'[h] = Idle \/ (task'[h].pc = "serve" /\ task'[h].req = task[h].req
                            /\ task[h].req.idem = None) \/ task'[h].pc = "get"
    BY <1>0, <1>5 DEF Authenticate, TaskType, Task
  <2>2. task[h].pc = "auth" /\ UNCHANGED <<redis, executed, lapsed>>
    BY <1>5 DEF Authenticate
  <2> QED
    BY <1>2, <2>1, <2>2 DEF Holds, Midway
<1>6. CASE LookUp(h) \/ MiddlewareCallFails(h)
  <2>1. UNCHANGED <<redis, executed, lapsed>> /\ (Dismiss(h) \/ Goto(h, "setnx"))
    BY <1>6 DEF LookUp, MiddlewareCallFails
  <2>2. Goto(h, "setnx") => task'[h].pc = "setnx"
    BY GotoFacts DEF HandlerSteps
  <2> QED
    BY <1>2, <1>3, <2>1, <2>2, IdleFacts DEF Holds, Midway
<1>7. CASE MarkInFlight(h)
  <2>1. CASE redis[Slot(h)] = Unset
    <3>1. task[h].pc = "setnx" /\ Goto(h, "serve") /\ UNCHANGED lapsed
          /\ redis' = [redis EXCEPT ![Slot(h)] = InFlight]
          /\ executed' = executed \cup {Slot(h)}
      BY <1>7, <2>1 DEF MarkInFlight, SetNX
    <3>2. task'[h].pc = "serve" /\ task'[h].req = task[h].req /\ task'[h].tenant = task[h].tenant
      BY <3>1, GotoFacts DEF HandlerSteps
    <3> QED
      BY <1>1, <2>1, <3>1, <3>2
  <2>2. CASE redis[Slot(h)] # Unset
    BY <1>2, <1>3, <1>7, <2>2, IdleFacts DEF MarkInFlight, SetNX
  <2> QED
    BY <2>1, <2>2
<1>8. CASE StoreResponse(h)
  BY <1>1, <1>3, <1>8 DEF StoreResponse, Holds
<1>9. CASE MarkUnconfirmed(h)
  BY <1>1, <1>3, <1>9 DEF MarkUnconfirmed, SetNX
<1>10. CASE CreateAPIKey(h) \/ RevokeAPIKey(h) \/ RouteCallFails(h, {"serve"})
  <2>1. RouteMove(h, {}) /\ UNCHANGED <<redis, executed, lapsed>> /\ task[h].pc = "serve"
    BY <1>10, KeyTasks, RouteFails DEF CreateAPIKey, RevokeAPIKey, RouteCallFails, Serving
  <2> QED
    BY <1>2, <2>1 DEF RouteMove, Holds
<1> QED
  BY <1>4, <1>5, <1>6, <1>7, <1>8, <1>9, <1>10 DEF GatewayAction, GatewayStep

\* Redis and the handlers that hold marks, when only handlers move that let go of one
\* or keep the one they have.
LEMMA MarksStay ==
    ASSUME TaskType, MarkInv, UNCHANGED <<redis, executed, lapsed>>,
           \A g \in Handlers : Holds(task'[g]) =>
               /\ Holds(task[g]) /\ task'[g].req = task[g].req
               /\ task'[g].tenant = task[g].tenant
    PROVE  MarkInv'
<1>1. \A g \in Handlers : Holds(task[g])' => Holds(task[g]) /\ Slot(g)' = Slot(g)
  BY DEF Holds, Slot
<1> QED
  BY <1>1 DEF MarkInv

\* Every step keeps the marks in order.
LEMMA MarkStep ==
    ASSUME TenantInv, MarkInv, [Next]_vars
    PROVE  MarkInv'
<1>0. TaskType /\ GatewayType /\ AccountInv /\ RelayInv
  BY DEF TenantInv
<1>1. ASSUME NEW h \in Handlers, NEW steps, RouteMove(h, steps), steps \subseteq {"serve"} \cup Midway,
             UNCHANGED <<redis, executed, lapsed>>
      PROVE  MarkInv'
  <2>1. Holds(task'[h]) => /\ Holds(task[h]) /\ task'[h].req = task[h].req
                           /\ task'[h].tenant = task[h].tenant
    <3>1. ~Holds(Idle)
      BY IdleFacts DEF Holds, Midway
    <3>2. (task[h].pc = "auth" /\ task[h].req.op \in OperatorOps) => task[h].req.idem = None
      <4>1. task[h].pc = "auth" => task[h].req \in Requests
        BY <1>0 DEF TaskType, TaskOK
      <4> QED
        BY <4>1, RequestFacts
    <3> QED
      BY <1>1, <3>1, <3>2 DEF RouteMove, Holds
  <2> QED
    BY <1>0, <1>1, <2>1, MarksStay DEF RouteMove, Only
<1>2. CASE UNCHANGED <<task, redis, executed, lapsed>>
  BY <1>0, <1>2, MarksStay
<1>3. ASSUME NEW h \in Handlers, GatewayAction(h)
      PROVE  MarkInv'
  <2>0. Only(h) /\ UNCHANGED lapsed /\ redis \in [Slots -> Entry]
    BY <1>0, <1>3, GatewayTasks, MarkCases DEF GatewayType
  <2>1. \A g \in Handlers \ {h} : (Holds(task[g])' <=> Holds(task[g])) /\ Slot(g)' = Slot(g)
    BY <2>0 DEF Only, Slot, Holds
  <2>2. \A g \in Handlers : Holds(task[g]) => Slot(g) \in Slots
    BY <1>0, HolderFacts
  <2>3. CASE /\ task[h].pc = "setnx" /\ task'[h].pc = "serve"
             /\ task'[h].req = task[h].req /\ task'[h].tenant = task[h].tenant
             /\ Slot(h) \in Slots /\ redis[Slot(h)] = Unset
             /\ redis' = [redis EXCEPT ![Slot(h)] = InFlight]
             /\ executed' = executed \cup {Slot(h)}
    <3>1. Slot(h)' = Slot(h)
      BY <2>3 DEF Slot
    <3>2. redis'[Slot(h)] = InFlight /\ \A s \in Slots \ {Slot(h)} : redis'[s] = redis[s]
      BY <2>0, <2>3
    <3>3. \A s \in Slots : redis'[s] = Unset => s \notin executed' \/ s \in lapsed
      BY <2>3, <3>2, EntryFacts DEF MarkInv
    <3>4. \A g \in Handlers \ {h} : (Holds(task[g]) /\ Slot(g) = Slot(h)) => Slot(h) \in lapsed
      BY <2>3, EntryFacts DEF MarkInv
    <3>5. \A g \in Handlers : Holds(task[g])' => Slot(g)' \in lapsed \/ redis'[Slot(g)'] = InFlight
      BY <2>1, <2>2, <3>1, <3>2, <3>4 DEF MarkInv
    <3>6. \A f, g \in Handlers :
              (f # g /\ Holds(task[f])' /\ Holds(task[g])' /\ Slot(f)' = Slot(g)') => Slot(g)' \in lapsed
      BY <2>1, <3>1, <3>4 DEF MarkInv
    <3> QED
      BY <2>0, <3>3, <3>5, <3>6 DEF MarkInv
  <2>4. CASE /\ task'[h] = Idle /\ Slot(h) \in Slots /\ redis[Slot(h)] = Unset
             /\ redis' = [redis EXCEPT ![Slot(h)] = InFlight] /\ UNCHANGED executed
    <3>1. ~Holds(task[h])'
      BY <2>4, IdleFacts DEF Holds, Midway
    <3>2. redis'[Slot(h)] = InFlight /\ \A s \in Slots \ {Slot(h)} : redis'[s] = redis[s]
      BY <2>0, <2>4
    <3>3. \A s \in Slots : redis'[s] = Unset => s \notin executed' \/ s \in lapsed
      BY <2>4, <3>2, EntryFacts DEF MarkInv
    <3>5. \A g \in Handlers : Holds(task[g])' => Slot(g)' \in lapsed \/ redis'[Slot(g)'] = InFlight
      BY <2>1, <2>2, <3>1, <3>2 DEF MarkInv
    <3>6. \A f, g \in Handlers :
              (f # g /\ Holds(task[f])' /\ Holds(task[g])' /\ Slot(f)' = Slot(g)') => Slot(g)' \in lapsed
      BY <2>1, <3>1 DEF MarkInv
    <3> QED
      BY <2>0, <3>3, <3>5, <3>6 DEF MarkInv
  <2>5. CASE /\ task'[h] = Idle /\ Slot(h) \in Slots /\ Holds(task[h])
             /\ redis' = [redis EXCEPT ![Slot(h)] = Stored(task[h].answer)]
             /\ UNCHANGED executed
    <3>1. ~Holds(task[h])'
      BY <2>5, IdleFacts DEF Holds, Midway
    <3>2. redis'[Slot(h)] = Stored(task[h].answer)
          /\ \A s \in Slots \ {Slot(h)} : redis'[s] = redis[s]
      BY <2>0, <2>5
    <3>3. \A s \in Slots : redis'[s] = Unset => s \notin executed' \/ s \in lapsed
      BY <2>5, <3>2, EntryFacts DEF MarkInv
    <3>4. \A g \in Handlers \ {h} : (Holds(task[g]) /\ Slot(g) = Slot(h)) => Slot(h) \in lapsed
      BY <2>5 DEF MarkInv
    <3>5. \A g \in Handlers : Holds(task[g])' => Slot(g)' \in lapsed \/ redis'[Slot(g)'] = InFlight
      BY <2>1, <2>2, <3>1, <3>2, <3>4 DEF MarkInv
    <3>6. \A f, g \in Handlers :
              (f # g /\ Holds(task[f])' /\ Holds(task[g])' /\ Slot(f)' = Slot(g)') => Slot(g)' \in lapsed
      BY <2>1, <3>1 DEF MarkInv
    <3> QED
      BY <2>0, <3>3, <3>5, <3>6 DEF MarkInv
  <2>6. CASE /\ UNCHANGED <<redis, executed>>
             /\ Holds(task'[h]) => /\ Holds(task[h]) /\ task'[h].req = task[h].req
                                   /\ task'[h].tenant = task[h].tenant
    BY <1>0, <2>0, <2>6, MarksStay DEF Only
  <2> QED
    BY <1>0, <1>3, <2>3, <2>4, <2>5, <2>6, MarkCases
<1>4. CASE RedisStep
  <2>0. UNCHANGED task /\ redis \in [Slots -> Entry]
    BY <1>0, <1>4 DEF RedisStep, LapseMark, ExpireAnswer, GatewayType
  <2>1. \A g \in Handlers : (Holds(task[g])' <=> Holds(task[g])) /\ Slot(g)' = Slot(g)
    BY <2>0 DEF Slot, Holds
  <2>2. \A g \in Handlers : Holds(task[g]) => Slot(g) \in Slots /\ Busy(g)
    BY <1>0, HolderFacts DEF Busy, Holds, Midway
  <2>3. ASSUME NEW slot \in Slots, LapseMark(slot)
        PROVE  MarkInv'
    <3>1. lapsed' = lapsed \cup {slot} /\ executed' = executed
          /\ redis'[slot] = Unset /\ \A s \in Slots \ {slot} : redis'[s] = redis[s]
      BY <2>0, <2>3 DEF LapseMark
    <3> QED
      BY <2>1, <2>2, <3>1 DEF MarkInv
  <2>4. ASSUME NEW slot \in Slots, ExpireAnswer(slot)
        PROVE  MarkInv'
    <3>1. /\ lapsed' = lapsed \ {slot} /\ executed' = executed \ {slot}
          /\ redis'[slot] = Unset /\ (\A s \in Slots \ {slot} : redis'[s] = redis[s])
          /\ \A h \in Handlers : Busy(h) => Slot(h) # slot
      BY <2>0, <2>4 DEF ExpireAnswer
    <3> QED
      BY <2>1, <2>2, <3>1 DEF MarkInv
  <2> QED
    BY <1>4, <2>3, <2>4 DEF RedisStep
<1>5. ASSUME NEW h \in Handlers,
             CustomerAction(h) \/ VAAction(h) \/ RelayAction(h) \/ PlatformAction(h)
      PROVE  MarkInv'
  <2>1. UNCHANGED <<redis, executed, lapsed>>
    BY <1>5, RouteFrame
  <2>2. \E steps : steps \subseteq {"serve"} \cup Midway /\ RouteMove(h, steps)
    <3>1. CASE CustomerAction(h)
      <4>1. RouteMove(h, {"insert", "tier", "audit"})
        BY <1>0, <3>1, CustomerTasks DEF AccountInv, AccountTables
      <4> QED
        BY <4>1 DEF Midway
    <3>2. CASE VAAction(h)
      <4>1. RouteMove(h, {"find", "bank", "write", "audit"})
        BY <1>0, <3>2, VATasks
      <4> QED
        BY <4>1 DEF Midway
    <3>3. CASE RelayAction(h)
      <4>1. RouteMove(h, {"owner", "replay"})
        BY <1>0, <3>3, RelayTasks DEF RelayInv, RelayTables
      <4> QED
        BY <4>1 DEF Midway
    <3>4. CASE PlatformAction(h)
      <4>1. RouteMove(h, {"serve", "reload", "add_key", "add_user"})
        BY <1>0, <3>4, PlatformTasks
      <4> QED
        BY <4>1 DEF Midway
    <3> QED
      BY <1>5, <3>1, <3>2, <3>3, <3>4
  <2> QED
    BY <1>1, <2>1, <2>2
<1>6. CASE Crash
  <2>1. \A h \in Handlers : ~Holds(task'[h])
    BY <1>6, IdleFacts DEF Crash, Holds, Midway
  <2> QED
    BY <1>0, <1>6, <2>1, MarksStay DEF Crash
<1>7. CASE CourierStep \/ BootAction
  BY <1>2, <1>7, ElsewhereFrame
<1>8. CASE UNCHANGED vars
  BY <1>2, <1>8 DEF vars, gatewayVars
<1> QED
  BY <1>3, <1>4, <1>5, <1>6, <1>7, <1>8, StepKinds

\* ExecutedOnce: SET NX lets one handler in under a key, and only a handler that was
\* let in stores an answer.
THEOREM RoutesExecuteOnce == Spec => ExecutedOnce
<1> DEFINE Once ==
        /\ \A h \in Handlers :
               (task[h].pc = "setnx" /\ task'[h].pc = "serve") =>
                   (Slot(h) \notin executed \/ Slot(h) \in lapsed)
        /\ \A slot \in Slots :
               redis[slot].kind = "stored" =>
                   redis'[slot] \in {redis[slot], Unset} \/ slot \in lapsed
<1>1. Init => MarkInv
  BY IdleFacts DEF Init, GatewayInit, MarkInv, Holds, Midway
<1>2. TenantInv /\ MarkInv /\ [Next]_vars => MarkInv'
  BY MarkStep
<1>3. ASSUME TenantInv, MarkInv, [Next]_vars
      PROVE  Once
  <2>0. TaskType /\ GatewayType /\ redis \in [Slots -> Entry] /\ AccountInv /\ RelayInv
    BY <1>3 DEF TenantInv, GatewayType
  <2>1. \A h \in Handlers :
            (task[h].pc = "setnx" /\ task'[h].pc = "serve") =>
                (Slot(h) \notin executed \/ Slot(h) \in lapsed)
    <3> SUFFICES ASSUME NEW h \in Handlers, task[h].pc = "setnx", task'[h].pc = "serve"
                 PROVE  Slot(h) \notin executed \/ Slot(h) \in lapsed
      OBVIOUS
    <3>1. ASSUME NEW g \in Handlers,
                 CustomerAction(g) \/ VAAction(g) \/ RelayAction(g) \/ PlatformAction(g)
          PROVE  FALSE
      <4>1. \E steps : RouteMove(g, steps)
        BY <2>0, <3>1, CustomerTasks, VATasks, RelayTasks, PlatformTasks
        DEF AccountInv, AccountTables, RelayInv, RelayTables
      <4> QED
        BY <4>1 DEF RouteMove, Only, Midway
    <3>2. ~UNCHANGED task
      OBVIOUS
    <3>3. ~Crash
      BY IdleFacts DEF Crash
    <3>4. ~RedisStep
      BY <3>2 DEF RedisStep, LapseMark, ExpireAnswer
    <3>5. PICK g \in Handlers : GatewayAction(g)
      BY <1>3, <3>1, <3>2, <3>3, <3>4, StepKinds, ElsewhereFrame DEF vars, gatewayVars
    <3>6. g = h
      BY <2>0, <3>5, GatewayTasks DEF Only
    <3>7. Slot(h) \in Slots /\ redis[Slot(h)] = Unset
      BY <2>0, <3>5, <3>6, MarkCases, IdleFacts
    <3> QED
      BY <1>3, <3>7 DEF MarkInv
  <2>2. \A slot \in Slots :
            redis[slot].kind = "stored" =>
                redis'[slot] \in {redis[slot], Unset} \/ slot \in lapsed
    <3> SUFFICES ASSUME NEW slot \in Slots, redis[slot].kind = "stored", redis'[slot] # redis[slot]
                 PROVE  redis'[slot] = Unset \/ slot \in lapsed
      OBVIOUS
    <3>1. CASE RedisStep
      BY <2>0, <3>1 DEF RedisStep, LapseMark, ExpireAnswer
    <3>2. ASSUME NEW g \in Handlers, GatewayAction(g)
          PROVE  slot \in lapsed
      <4>1. PICK entry : Slot(g) \in Slots /\ redis' = [redis EXCEPT ![Slot(g)] = entry]
                         /\ (redis[Slot(g)] = Unset \/ Holds(task[g]))
        BY <2>0, <3>2, MarkCases
      <4>2. slot = Slot(g)
        BY <2>0, <4>1
      <4>3. redis[slot] # Unset /\ redis[slot] # InFlight
        BY EntryFacts
      <4> QED
        BY <1>3, <4>1, <4>2, <4>3 DEF MarkInv
    <3> QED
      BY <1>3, <3>1, <3>2, StepKinds, RouteFrame, ElsewhereFrame DEF vars, gatewayVars, Crash
  <2> QED
    BY <2>1, <2>2
<1>4. ASSUME TenantInv, MarkInv, [Next]_vars
      PROVE  [Once]_gatewayVars
  BY <1>3, <1>4
<1> QED
  BY <1>1, <1>2, <1>4, TenantInvariant, PTL DEF Spec, ExecutedOnce

-----------------------------------------------------------------------------
(***************************************************************************)
(* The audit log.  Whoever wrote the state of an entity last has appended  *)
(* its entry or is about to.                                               *)
(***************************************************************************)
Explained(id, state) ==
    \/ <<id, state>> \in audit
    \/ \E h \in Handlers : /\ task[h].pc = "audit" /\ task[h].read.id = id
                           /\ Outcome(task[h].req) = state

AuditInv ==
    faults = 0 =>
        /\ \A c \in Customers : customers[c] # None => Explained(c, customers[c].tier)
        /\ \A v \in Accounts : va[v] # None => Explained(v, va[v].status)

\* Where the handler is that moves.
LEMMA ActorsAt ==
    ASSUME NEW h \in Handlers
    PROVE  /\ GatewayAction(h) => task[h].pc \in {"idle", "auth", "get", "setnx", "serve", "store"}
           /\ CustomerAction(h) => task[h].pc \in {"serve", "insert", "tier", "audit"}
           /\ VAAction(h) => task[h].pc \in {"serve", "find", "bank", "write"}
           /\ RelayAction(h) => task[h].pc \in {"serve", "owner", "replay"}
           /\ PlatformAction(h) => task[h].pc \in {"auth", "serve", "reload", "add_key", "add_user"}
<1>1. GatewayAction(h) => task[h].pc \in {"idle", "auth", "get", "setnx", "serve", "store"}
  BY DEF GatewayAction, GatewayStep, Accept, Busy, Authenticate, LookUp, MarkInFlight,
         StoreResponse, CreateAPIKey, RevokeAPIKey, Serving, MiddlewareCallFails, MarkUnconfirmed,
         RouteCallFails
<1>2. VAAction(h) => task[h].pc \in {"serve", "find", "bank", "write"}
  BY DEF VAAction, VAStep, FindCustomer, FindVA, CreateVA, UpdateVA, BestEffort, WriteVA,
         BankFails, BankUnconfirmed, BestEffortFails, WriteUnconfirmed, RouteCallFails
<1>3. RelayAction(h) => task[h].pc \in {"serve", "owner", "replay"}
  BY DEF RelayAction, RelayStep, CreateEndpoint, FindDelivery, CheckOwner, Replay, Serving,
         RouteCallFails
<1>4. PlatformAction(h) => task[h].pc \in {"auth", "serve", "reload", "add_key", "add_user"}
  BY DEF PlatformAction, PlatformStep, AuthorizeOperator, PutTierLimits, ReloadTierLimits,
         CreateTenant, CreateFirstKey, CreateCredential, OnboardAdmin, PutUnconfirmed, Serving,
         RouteCallFails
<1>5. CustomerAction(h) => task[h].pc \in {"serve", "insert", "tier", "audit"}
  BY DEF CustomerAction, CustomerStep, CreateCustomer, InsertCustomer, UpdateKYCTier, WriteTier,
         AppendAudit, AppendAuditFails, InsertUnconfirmed, Serving, RouteCallFails
<1> QED
  BY <1>1, <1>2, <1>3, <1>4, <1>5

\* A step after which no call has failed.
LEMMA NoFault ==
    ASSUME TenantInv, [Next]_vars, faults' = 0
    PROVE  faults = 0 /\ ~Fault
<1>1. GatewayType
  BY DEF TenantInv
<1>2. ~Fault
  BY <1>1, FaultFacts
<1>3. ASSUME NEW h \in Handlers, GatewayAction(h)
      PROVE  Fault \/ UNCHANGED faults
  BY <1>3 DEF GatewayAction, GatewayStep, Accept, Authenticate, LookUp, MarkInFlight,
         StoreResponse, CreateAPIKey, RevokeAPIKey, MiddlewareCallFails, MarkUnconfirmed,
         RouteCallFails
<1>4. RedisStep => UNCHANGED faults
  BY DEF RedisStep, LapseMark, ExpireAnswer
<1>5. Crash => Fault
  BY DEF Crash
<1> QED
  BY <1>2, <1>3, <1>4, <1>5, StepKinds, RouteFrame, ElsewhereFrame DEF vars, gatewayVars

\* Without a failed call an entry that is due is not forgotten.
LEMMA StaysExplained ==
    ASSUME TenantInv, [Next]_vars, faults' = 0, NEW id, NEW state, Explained(id, state)
    PROVE  Explained(id, state)'
<1>0. TaskType /\ GatewayType /\ AccountInv /\ RelayInv /\ ~Fault
  BY NoFault DEF TenantInv
<1>1. ASSUME audit \subseteq audit',
             \A h \in Handlers : task[h].pc = "audit" =>
                 task'[h] = task[h] \/ <<task[h].read.id, Outcome(task[h].req)>> \in audit'
      PROVE  Explained(id, state)'
  BY <1>1 DEF Explained
<1>2. ASSUME NEW h \in Handlers, CustomerAction(h)
      PROVE  Explained(id, state)'
  <2>1. Only(h)
    BY <1>0, <1>2, CustomerTasks DEF AccountInv, AccountTables, RouteMove
  <2>2. audit \subseteq audit'
    BY <1>0, <1>2, CustomerCases
  <2>3. task[h].pc = "audit" => <<task[h].read.id, Outcome(task[h].req)>> \in audit'
    BY <1>0, <1>2, CustomerCases
  <2> QED
    BY <1>1, <2>1, <2>2, <2>3 DEF Only
<1>3. ASSUME NEW h \in Handlers,
             GatewayAction(h) \/ VAAction(h) \/ RelayAction(h) \/ PlatformAction(h),
             UNCHANGED audit
      PROVE  Explained(id, state)'
  <2>1. Only(h)
    BY <1>0, <1>3, GatewayTasks, VATasks, RelayTasks, PlatformTasks
    DEF RelayInv, RelayTables, RouteMove
  <2>2. task[h].pc # "audit"
    BY <1>3, ActorsAt
  <2> QED
    BY <1>1, <1>3, <2>1, <2>2 DEF Only
<1>4. ASSUME NEW h \in Handlers, VAAction(h)
      PROVE  UNCHANGED audit
  BY <1>0, <1>4, VACases
<1>5. CASE UNCHANGED <<task, audit>>
  BY <1>1, <1>5
<1>6. RedisStep => UNCHANGED task
  BY DEF RedisStep, LapseMark, ExpireAnswer
<1>7. ~Crash
  BY <1>0 DEF Crash
<1> QED
  BY <1>2, <1>3, <1>4, <1>5, <1>6, <1>7, StepKinds, ElsewhereFrame DEF vars, gatewayVars, accountVars

\* Every step keeps the log in order.
LEMMA AuditStep ==
    ASSUME TenantInv, AuditInv, [Next]_vars
    PROVE  AuditInv'
<1> SUFFICES ASSUME faults' = 0
             PROVE  /\ \A c \in Customers : customers'[c] # None => Explained(c, customers[c].tier)'
                    /\ \A v \in Accounts : va'[v] # None => Explained(v, va[v].status)'
  BY DEF AuditInv
<1>0. TaskType /\ GatewayType /\ AccountInv /\ RelayInv /\ ~Fault /\ faults = 0
  BY NoFault DEF TenantInv
<1>1. ASSUME NEW c \in Customers, customers'[c] # None
      PROVE  Explained(c, customers[c].tier)'
  <2>1. CASE customers'[c] = customers[c]
    <3>1. Explained(c, customers[c].tier)
      BY <1>0, <1>1, <2>1 DEF AuditInv
    <3>2. \A state : Explained(c, state) => Explained(c, state)'
      BY StaysExplained
    <3> QED
      BY <2>1, <3>1, <3>2 DEF Explained
  <2>2. CASE customers'[c] # customers[c]
    <3>1. ASSUME NEW h \in Handlers, VAAction(h)
          PROVE  UNCHANGED customers
      BY <1>0, <3>1, VACases
    <3>2. ~Crash
      BY <1>0 DEF Crash
    <3>3. PICK h \in Handlers : CustomerAction(h)
      BY <2>2, <3>1, <3>2, StepKinds DEF vars, accountVars
    <3>4. task'[h].pc = "audit" => task'[h].req = task[h].req
      BY <1>0, <3>3, CustomerTasks, IdleFacts DEF AccountInv, AccountTables, RouteMove
    <3>5. CASE task[h].pc = "insert" /\ Insert(h)
      <4>1. task'[h].pc = "audit" /\ task'[h].read.id = NewCustomer
        BY <1>0, <2>2, <3>3, <3>5, CustomerCases
      <4>2. c = NewCustomer /\ customers'[c].tier = task[h].req.arg.tier
        BY <1>0, <2>2, <3>5, InsertFacts DEF AccountInv
      <4>3. task[h].req.op = "create_customer"
        BY <1>0, <3>5 DEF TaskType, TaskOK, Midway, RouteSteps, VAOps
      <4>4. Outcome(task'[h].req) = customers'[c].tier
        BY <3>4, <4>1, <4>2, <4>3 DEF Outcome
      <4> QED
        BY <4>1, <4>2, <4>4 DEF Explained
    <3>6. CASE WriteTier(h)
      <4>1. task'[h].pc = "audit" /\ task'[h].read = task[h].read /\ task[h].pc = "tier"
        BY <3>6, GotoFacts, <1>0 DEF WriteTier, HandlerSteps
      <4>2. c = task[h].req.on /\ customers'[c].tier = task[h].req.arg.tier
            /\ task[h].read.id = c
        BY <1>0, <2>2, <3>6, TierFacts
      <4>3. task[h].req.op = "kyc_tier_change"
        BY <1>0, <4>1 DEF TaskType, TaskOK, Midway, RouteSteps, VAOps
      <4>4. Outcome(task'[h].req) = customers'[c].tier
        BY <3>4, <4>1, <4>2, <4>3 DEF Outcome
      <4> QED
        BY <4>1, <4>2, <4>4 DEF Explained
    <3> QED
      BY <1>0, <2>2, <3>3, <3>5, <3>6, CustomerCases
  <2> QED
    BY <2>1, <2>2
<1>2. ASSUME NEW v \in Accounts, va'[v] # None
      PROVE  Explained(v, va[v].status)'
  <2>1. CASE va[v] # None /\ va'[v].status = va[v].status
    <3>1. Explained(v, va[v].status)
      BY <1>0, <2>1 DEF AuditInv
    <3>2. \A state : Explained(v, state) => Explained(v, state)'
      BY StaysExplained
    <3> QED
      BY <2>1, <3>1, <3>2 DEF Explained
  <2>2. CASE va'[v] # va[v] /\ ~(va[v] # None /\ va'[v].status = va[v].status)
    <3>1. PICK h \in Handlers : VAAction(h)
      BY <2>2, StepKinds DEF vars, accountVars, Crash
    <3>2. task[h].pc = "write" /\ va' = Written(h) /\ task[h].read.id = v
      BY <2>2, <3>1, AccountChanges
    <3>3. task'[h].pc = "audit" /\ task'[h].read = task[h].read
      BY <1>0, <2>2, <3>1, <3>2, VACases
    <3>4. task'[h].req = task[h].req
      BY <1>0, <3>1, <3>3, VATasks, IdleFacts DEF RouteMove
    <3>5. task[h].req.op \in VAOps \ {"get_va"}
      BY <1>0, <3>2 DEF TaskType, TaskOK, Midway, RouteSteps
    <3>6. /\ task[h].req.op = "provision_va" => va'[v].status = "ACTIVE"
          /\ task[h].req.op = "rename_va" => va[v] # None /\ va'[v].status = va[v].status
          /\ task[h].req.op \notin {"provision_va", "rename_va"} =>
                 va'[v].status = Outcome(task[h].req)
      BY <1>0, <3>2, WrittenFacts
    <3>7. Outcome(task'[h].req) = va'[v].status
      BY <2>2, <3>4, <3>5, <3>6 DEF Outcome
    <3> QED
      BY <3>2, <3>3, <3>7 DEF Explained
  <2> QED
    BY <1>2, <2>1, <2>2
<1> QED
  BY <1>1, <1>2

\* ChangesAudited: without a failed call the log tells of the tier and the status that
\* are in force, whichever of the concurrent requests wrote them.
THEOREM ChangesAreAudited == Spec => []ChangesAudited
<1>1. Init => AuditInv
  <2> SUFFICES ASSUME Init
               PROVE  AuditInv
    OBVIOUS
  <2>1. \A v \in Accounts : va[v] = None
    BY DEF Init, VAInit
  <2>2. \A c \in Customers : customers[c] # None => <<c, customers[c].tier>> \in audit
    BY DEF Init, CustomersInit
  <2> QED
    BY <2>1, <2>2 DEF AuditInv, Explained
<1>2. TenantInv /\ AuditInv /\ [Next]_vars => AuditInv'
  BY AuditStep
<1>3. AuditInv => ChangesAudited
  BY DEF AuditInv, ChangesAudited, Explained, Reporting
<1> QED
  BY <1>1, <1>2, <1>3, TenantInvariant, PTL DEF Spec

-----------------------------------------------------------------------------
(***************************************************************************)
(* The limits in force.  An undisturbed PUT is the only one between the    *)
(* statement that stores its value and the reload.                         *)
(***************************************************************************)
Loading(h) == task[h].pc = "reload"

\* The parts of start-up after the limits are loaded.
LoadedAt == {"admin", "demo", "demo_key", "demo_users", "demo_customers", "up"}

LimitInv ==
    /\ ~disturbed => \A h \in Handlers : Loading(h) =>
           /\ setting = task[h].req.arg
           /\ \A g \in Handlers : Loading(g) => g = h
    /\ (/\ boot.at \in LoadedAt
        /\ \A h \in Handlers : ~Loading(h)
        /\ ~disturbed
        /\ setting \notin Malformed) => cache = setting
    /\ boot.at = "refused" => \/ setting \in Malformed
                              \/ schema.applied > schema.recorded /\ faults > 0
    /\ schema.applied > schema.recorded => boot.at = "record" \/ faults > 0

\* Failed calls are not forgotten.
LEMMA FaultsStay ==
    ASSUME TenantInv, [Next]_vars, faults > 0
    PROVE  faults' > 0
<1>1. faults \in Nat /\ faults' \in Nat
  BY TenantStep, GatewayAssumption DEF TenantInv, GatewayType
<1>2. faults' # 0
  BY <1>1, NoFault
<1> QED
  BY <1>1, <1>2

\* What a route of the operator does to the limits.
LEMMA LimitCases ==
    ASSUME TaskType, NEW h \in Handlers, PlatformAction(h)
    PROVE  \/ /\ task[h].pc # "reload" /\ task'[h].pc # "reload"
              /\ UNCHANGED <<setting, cache, disturbed>>
           \/ /\ task'[h].pc = "reload" /\ task'[h].req = task[h].req /\ task[h].pc = "serve"
              /\ setting' = task[h].req.arg
              /\ disturbed' = \E g \in Handlers : task[g].pc = "reload"
              /\ UNCHANGED cache
           \/ /\ task[h].pc = "serve" /\ task'[h].pc # "reload" /\ disturbed' = TRUE
              /\ setting' = task[h].req.arg /\ UNCHANGED cache
           \/ /\ task[h].pc = "reload" /\ task'[h].pc # "reload"
              /\ cache' = Loaded(task[h].req.arg) /\ UNCHANGED <<setting, disturbed>>
<1>1. ASSUME NEW s \in HttpAnswers \ {"none"}, Respond(h, s), task[h].pc \notin {"idle", "auth"}
      PROVE  task'[h].pc # "reload"
  BY <1>1, RespondFacts, IdleFacts
<1>2. \A s \in {"200", "201", "400", "422", "500"} : s \in HttpAnswers \ {"none"}
  BY DEF HttpAnswers
<1>3. CASE PutTierLimits(h)
  <2>1. CASE task[h].req.arg = None
    BY <1>1, <1>2, <1>3, <2>1 DEF PutTierLimits, Serving
  <2>2. CASE task[h].req.arg # None
    <3>1. Goto(h, "reload")
      BY <1>3, <2>2 DEF PutTierLimits
    <3>2. task'[h].pc = "reload" /\ task'[h].req = task[h].req
      BY <3>1, GotoFacts DEF HandlerSteps
    <3> QED
      BY <1>3, <2>2, <3>2 DEF PutTierLimits, Serving
  <2> QED
    BY <2>1, <2>2
<1>4. CASE ReloadTierLimits(h)
  <2>1. task[h].pc = "reload" /\ \E s \in HttpAnswers \ {"none"} : Respond(h, s)
    BY <1>2, <1>4 DEF ReloadTierLimits
  <2> QED
    BY <1>1, <1>4, <2>1 DEF ReloadTierLimits
<1>5. CASE PutUnconfirmed(h)
  BY <1>1, <1>2, <1>5 DEF PutUnconfirmed, Serving
<1>6. CASE AuthorizeOperator(h)
  <2>1. task'[h].pc = "serve"
    BY <1>6, GotoFacts DEF AuthorizeOperator, HandlerSteps
  <2> QED
    BY <1>6, <2>1 DEF AuthorizeOperator, platformVars
<1>7. CASE CreateTenant(h)
  <2>1. task[h].pc = "serve" /\ UNCHANGED <<setting, cache, disturbed>>
        /\ (Respond(h, "400") \/ \E f : task' = [task EXCEPT ![h].pc = "add_key", ![h].read.id = f])
    BY <1>7 DEF CreateTenant, Serving
  <2>2. (\E f : task' = [task EXCEPT ![h].pc = "add_key", ![h].read.id = f]) => task'[h].pc = "add_key"
    BY DEF TaskType, Task
  <2> QED
    BY <1>1, <1>2, <2>1, <2>2
<1>8. CASE CreateFirstKey(h)
  <2>1. task'[h].pc = "add_user"
    BY <1>8 DEF CreateFirstKey, TaskType, Task
  <2> QED
    BY <1>8, <2>1 DEF CreateFirstKey, platformVars
<1>9. CASE CreateCredential(h)
  <2>1. task[h].pc = "add_user" /\ UNCHANGED <<setting, cache, disturbed>>
        /\ (Respond(h, "500") \/ Respond(h, "201")
            \/ \E rest : task' = [task EXCEPT ![h].read.was = rest])
    BY <1>9 DEF CreateCredential
  <2>2. (\E rest : task' = [task EXCEPT ![h].read.was = rest]) => task'[h].pc = task[h].pc
    BY DEF TaskType, Task
  <2> QED
    BY <1>1, <1>2, <2>1, <2>2
<1>10. CASE OnboardAdmin(h)
  BY <1>1, <1>2, <1>10 DEF OnboardAdmin, Serving
<1>11. CASE RouteCallFails(h, {"add_key", "add_user"}) /\ UNCHANGED platformVars
  BY <1>1, <1>2, <1>11 DEF RouteCallFails, platformVars
<1> QED
  BY <1>3, <1>4, <1>5, <1>6, <1>7, <1>8, <1>9, <1>10, <1>11 DEF PlatformAction, PlatformStep

\* Nobody else reloads the limits.
LEMMA LoadingStays ==
    ASSUME TenantInv, NEW h \in Handlers,
           GatewayAction(h) \/ CustomerAction(h) \/ VAAction(h) \/ RelayAction(h)
    PROVE  \A g \in Handlers : task'[g].pc = "reload" \/ task[g].pc = "reload" => task'[g] = task[g]
<1>0. TaskType /\ GatewayType /\ AccountInv /\ RelayInv
  BY DEF TenantInv
<1>1. task[h].pc # "reload"
  BY ActorsAt
<1>2. CASE GatewayAction(h)
  BY <1>0, <1>1, <1>2, GatewayTasks DEF Only
<1>3. CASE CustomerAction(h)
  BY <1>0, <1>1, <1>3, CustomerTasks, IdleFacts DEF AccountInv, AccountTables, RouteMove, Only
<1>4. CASE VAAction(h)
  BY <1>0, <1>1, <1>4, VATasks, IdleFacts DEF RouteMove, Only
<1>5. CASE RelayAction(h)
  BY <1>0, <1>1, <1>5, RelayTasks, IdleFacts DEF RelayInv, RelayTables, RouteMove, Only
<1> QED
  BY <1>2, <1>3, <1>4, <1>5

\* Every step keeps the limits in order.
LEMMA LimitStep ==
    ASSUME TenantInv, LimitInv, [Next]_vars
    PROVE  LimitInv'
<1>0. TaskType /\ GatewayType /\ PlatformType /\ ServedWhileUp
  BY DEF TenantInv
<1>1. faults > 0 => faults' > 0
  BY FaultsStay
<1>2. ASSUME UNCHANGED platformVars,
             \A g \in Handlers : task'[g].pc = "reload" \/ task[g].pc = "reload" => task'[g] = task[g]
      PROVE  LimitInv'
  <2>1. \A g \in Handlers : /\ Loading(g)' <=> Loading(g)
                            /\ Loading(g) => task'[g] = task[g]
    BY <1>2 DEF Loading
  <2> QED
    BY <1>1, <1>2, <2>1 DEF LimitInv, platformVars
<1>3. ASSUME NEW h \in Handlers, PlatformAction(h)
      PROVE  LimitInv'
  <2>0. UNCHANGED <<boot, schema>> /\ Only(h) /\ boot.at = "up"
    BY <1>0, <1>3, PlatformRoutes, PlatformTasks, ActorsAt DEF RouteMove, ServedWhileUp
  <2>1. \A g \in Handlers \ {h} : (Loading(g)' <=> Loading(g)) /\ task'[g] = task[g]
    BY <2>0 DEF Only, Loading
  <2>2. CASE /\ task[h].pc # "reload" /\ task'[h].pc # "reload"
             /\ UNCHANGED <<setting, cache, disturbed>>
    <3>1. \A g \in Handlers : (Loading(g)' <=> Loading(g)) /\ (Loading(g) => task'[g] = task[g])
      BY <2>1, <2>2 DEF Loading
    <3> QED
      BY <1>1, <2>0, <2>2, <3>1 DEF LimitInv
  <2>3. CASE /\ task'[h].pc = "reload" /\ task'[h].req = task[h].req /\ task[h].pc = "serve"
             /\ setting' = task[h].req.arg
             /\ disturbed' = \E g \in Handlers : task[g].pc = "reload"
             /\ UNCHANGED cache
    <3>1. Loading(h)'
      BY <2>3 DEF Loading
    <3>2. ~disturbed' => \A g \in Handlers \ {h} : ~Loading(g)'
      BY <2>1, <2>3 DEF Loading
    <3> QED
      BY <1>1, <2>0, <2>3, <3>1, <3>2 DEF LimitInv
  <2>4. CASE /\ task[h].pc = "serve" /\ task'[h].pc # "reload" /\ disturbed' = TRUE
             /\ setting' = task[h].req.arg /\ UNCHANGED cache
    BY <1>1, <2>0, <2>4 DEF LimitInv
  <2>5. CASE /\ task[h].pc = "reload" /\ task'[h].pc # "reload"
             /\ cache' = Loaded(task[h].req.arg) /\ UNCHANGED <<setting, disturbed>>
    <3>1. Loading(h) /\ ~Loading(h)'
      BY <2>5 DEF Loading
    <3>2. ~disturbed => setting = task[h].req.arg
      BY <3>1 DEF LimitInv
    <3>3. ~disturbed /\ setting \notin Malformed => cache' = setting
      BY <2>5, <3>2 DEF Loaded
    <3>4. ~disturbed => \A g \in Handlers : Loading(g)' => /\ setting = task'[g].req.arg
                                                           /\ \A f \in Handlers : Loading(f)' => f = g
      BY <2>1, <3>1 DEF LimitInv
    <3> QED
      BY <1>1, <2>0, <2>5, <3>3, <3>4 DEF LimitInv
  <2> QED
    BY <1>0, <1>3, <2>2, <2>3, <2>4, <2>5, LimitCases
<1>4. CASE BootAction
  <2>1. UNCHANGED task
    BY <1>4, ElsewhereFrame
  <2>2. boot.at # "up" \/ Stop
    BY <1>4 DEF BootAction, Boot, Start, Migrate, RecordMigration, LoadSettings, SeedAdmin,
            SeedTenant, SeedKey, SeedDemoUser, SeedCustomer, BootCallFails
  <2>3. \A h \in Handlers : ~Loading(h) /\ ~Loading(h)'
    BY <1>0, <2>1, <2>2 DEF Stop, ServedWhileUp, Loading, Busy
  <2>4. boot \in Booting /\ schema \in SchemaType
    BY <1>0 DEF PlatformType
  <2>5. CASE Start \/ Stop
    <3>1. boot' = At("migrate") \/ boot' = At("down")
      BY <2>5 DEF Start, Stop
    <3>2. boot'.at \in {"migrate", "down"}
      BY <3>1 DEF At
    <3>3. UNCHANGED schema /\ boot.at # "record"
      BY <2>5 DEF Start, Stop, Running
    <3> QED
      BY <1>1, <2>3, <3>2, <3>3 DEF LimitInv, LoadedAt
  <2>6. CASE Migrate
    <3>1. UNCHANGED <<setting, cache, disturbed>> /\ boot.at = "migrate"
      BY <2>6 DEF Migrate
    <3>2. \/ UNCHANGED schema /\ boot'.at = "limits"
          \/ boot'.at = "record"
          \/ UNCHANGED schema /\ boot'.at = "refused" /\ schema.recorded < schema.applied
      BY <2>4, <2>6, BootToFacts DEF Migrate, BootSteps
    <3>3. schema.recorded \in Nat /\ schema.applied \in Nat
      BY <2>4 DEF SchemaType
    <3>4. schema.recorded < schema.applied => schema.applied > schema.recorded
      BY <3>3
    <3> QED
      BY <1>1, <2>3, <3>1, <3>2, <3>4 DEF LimitInv, LoadedAt
  <2>7. CASE RecordMigration
    <3>1. boot'.at = "migrate"
      BY <2>4, <2>7, BootToFacts DEF RecordMigration, BootSteps
    <3>2. schema'.applied = schema.applied /\ schema'.recorded = schema.applied
      BY <2>4, <2>7 DEF RecordMigration, SchemaType
    <3>3. schema.applied \in Nat
      BY <2>4 DEF SchemaType
    <3>4. ~(schema'.applied > schema'.recorded)
      BY <3>2, <3>3
    <3> QED
      BY <2>3, <3>1, <3>4 DEF LimitInv, LoadedAt
  <2>8. CASE LoadSettings
    <3>1. \/ boot'.at = "refused" /\ setting' \in Malformed
          \/ boot'.at = "admin" /\ cache' = setting'
      BY <2>4, <2>8, BootToFacts DEF LoadSettings, BootSteps
    <3>2. UNCHANGED schema /\ boot.at = "limits"
      BY <2>8 DEF LoadSettings
    <3> QED
      BY <1>1, <2>3, <3>1, <3>2 DEF LimitInv, LoadedAt
  <2>9. CASE SeedAdmin \/ SeedTenant \/ SeedKey \/ SeedDemoUser \/ SeedCustomer
             \/ (BootCallFails /\ boot.at \notin {"migrate", "record", "limits"})
    <3>1. UNCHANGED <<schema, setting, cache, disturbed>>
      BY <2>9 DEF SeedAdmin, SeedTenant, SeedKey, SeedDemoUser, SeedCustomer, BootCallFails
    <3>2. boot.at \in LoadedAt
      BY <2>9 DEF SeedAdmin, SeedTenant, SeedKey, SeedDemoUser, SeedCustomer, BootCallFails,
                  LoadedAt
    <3>3. boot'.at \in LoadedAt
      <4>1. CASE BootTo("demo") \/ BootTo("up")
        BY <2>4, <4>1, BootToFacts DEF BootSteps, LoadedAt
      <4>2. CASE boot' = At("up")
        BY <4>2 DEF At, LoadedAt
      <4>3. CASE boot' = [boot EXCEPT !.at = "demo_key", !.firm = NewFirm]
                 \/ boot' = [boot EXCEPT !.at = "demo_users", !.left = DemoUsers]
        BY <2>4, <4>3 DEF Booting, LoadedAt
      <4>4. ASSUME NEW step \in {"demo_customers", "up"}, NEW list, SeedNext(step, list)
            PROVE  boot'.at \in LoadedAt
        BY <2>4, <3>2, <4>4 DEF SeedNext, Booting, LoadedAt
      <4> QED
        BY <2>9, <4>1, <4>2, <4>3, <4>4
        DEF SeedAdmin, SeedTenant, SeedKey, SeedDemoUser, SeedCustomer, BootCallFails
    <3> QED
      BY <1>1, <2>3, <3>1, <3>2, <3>3 DEF LimitInv, LoadedAt
  <2>10. CASE BootCallFails /\ boot.at \in {"migrate", "record", "limits"}
    <3>1. boot' = At("down") /\ UNCHANGED schema /\ Fault
      BY <2>10 DEF BootCallFails
    <3>2. boot'.at = "down" /\ faults' > 0
      BY <1>0, <3>1, FaultFacts DEF At
    <3> QED
      BY <2>3, <3>1, <3>2 DEF LimitInv, LoadedAt
  <2> QED
    BY <1>4, <2>5, <2>6, <2>7, <2>8, <2>9, <2>10 DEF BootAction, Boot
<1>5. CASE Crash
  <2>1. \A h \in Handlers : ~Loading(h)'
    BY <1>5, IdleFacts DEF Crash, Loading
  <2>2. boot'.at = "down" /\ faults' > 0
    BY <1>0, <1>5, FaultFacts DEF Crash, At
  <2> QED
    BY <2>1, <2>2 DEF LimitInv, LoadedAt
<1>6. CASE RedisStep /\ UNCHANGED platformVars
  BY <1>2, <1>6 DEF RedisStep, LapseMark, ExpireAnswer
<1>7. CASE CourierStep /\ UNCHANGED platformVars
  BY <1>2, <1>7, ElsewhereFrame
<1>8. CASE UNCHANGED vars
  BY <1>2, <1>8 DEF vars, gatewayVars
<1>9. ASSUME NEW h \in Handlers, UNCHANGED platformVars,
             GatewayAction(h) \/ CustomerAction(h) \/ VAAction(h) \/ RelayAction(h)
      PROVE  LimitInv'
  BY <1>2, <1>9, LoadingStays
<1> QED
  BY <1>3, <1>4, <1>5, <1>6, <1>7, <1>8, <1>9, StepKinds

\* LimitsInForce: a PUT that overlaps no other is followed by the reload of its own
\* value, and every start reloads what is stored.
THEOREM LimitsAreInForce == Spec => []LimitsInForce
<1>1. Init => LimitInv
  <2> SUFFICES ASSUME Init
               PROVE  LimitInv
    OBVIOUS
  <2>1. \A h \in Handlers : ~Loading(h)
    BY IdleFacts DEF Init, GatewayInit, Loading
  <2>2. boot.at \in {"down", "up"} /\ cache = setting
    BY DEF Init, PlatformInit, At
  <2>3. schema.applied = schema.recorded /\ schema.applied \in Nat
    BY PlatformAssumption DEF Init, PlatformInit
  <2>4. ~(schema.applied > schema.recorded)
    BY <2>3
  <2> QED
    BY <2>1, <2>2, <2>4 DEF LimitInv
<1>2. TenantInv /\ LimitInv /\ [Next]_vars => LimitInv'
  BY LimitStep
<1>3. LimitInv => LimitsInForce
  BY DEF LimitInv, LimitsInForce, Loading, LoadedAt, Running
<1> QED
  BY <1>1, <1>2, <1>3, TenantInvariant, PTL DEF Spec

-----------------------------------------------------------------------------
(***************************************************************************)
(* The provider and the table.  As long as no two routes work on a         *)
(* customer at the same time, the row a route has read does not change     *)
(* until it writes it.  If also no call fails, what is opened, renamed,    *)
(* suspended or closed at the provider is written here by the same         *)
(* request: the index on ACTIVE accounts does not refuse it.               *)
(***************************************************************************)
Working(h, c) ==
    /\ task[h].pc \in {"bank", "write", "audit"} /\ task[h].req.op \in VAOps
    /\ task[h].req.on = c

Alone == \A c \in Customers \ raced : \A g, h \in Handlers : Working(g, c) /\ Working(h, c) => g = h

\* What a route has read of its account is still so, and the row it is to insert is
\* not there.
ReadStill ==
    \A h \in Handlers :
        (/\ task[h].pc \in {"bank", "write"} /\ task[h].req.op \in VAOps
         /\ task[h].req.on \notin raced) =>
            IF task[h].req.op = "provision_va"
            THEN task[h].pc = "write" => va[task[h].read.id] = None
            ELSE va[task[h].read.id].status = task[h].read.was

NoneActive ==
    \A h \in Handlers :
        (/\ task[h].pc \in {"bank", "write"} /\ task[h].req.op = "provision_va"
         /\ task[h].req.on \notin raced) => GetVAs(task[h].req.on, "ACTIVE") = {}

RenamedAtBank ==
    \A h \in Handlers :
        (task[h].pc = "write" /\ task[h].req.op = "rename_va" /\ task[h].req.on \notin raced) =>
            bank[task[h].read.id].name = task[h].req.arg

Agrees ==
    \A v \in Accounts : (bank[v] # None /\ bank[v].customer \notin raced) =>
        \/ va[v] # None /\ va[v].name = bank[v].name
        \/ \E h \in Handlers : /\ task[h].pc = "write" /\ task[h].read.id = v
                               /\ task[h].req.op \in {"provision_va", "rename_va"}

ToldBank ==
    \A h \in Handlers :
        (/\ task[h].pc = "write" /\ task[h].req.op \in {"provision_va", "close_va", "suspend_va"}
         /\ task[h].req.on \notin raced) =>
            bank[task[h].read.id].status = Outcome(task[h].req)

SameStatus(v) ==
    /\ va[v] # None
    /\ va[v].status \in {bank[v].status, "ACTIVE"}
    /\ bank[v].status = "CLOSED" => va[v].status = "CLOSED"

StatusAgrees ==
    \A v \in Accounts : (bank[v] # None /\ bank[v].customer \notin raced) =>
        \/ SameStatus(v)
        \/ \E h \in Handlers : /\ task[h].pc = "write" /\ task[h].read.id = v
                               /\ task[h].req.op \in {"provision_va", "close_va", "suspend_va"}

BankInv ==
    /\ OneActive(va) /\ Alone /\ ReadStill
    /\ faults = 0 => NoneActive /\ RenamedAtBank /\ Agrees /\ ToldBank /\ StatusAgrees

\* The index refuses neither a rename, nor a status that is not ACTIVE, nor the first
\* ACTIVE account of a customer.
LEMMA WriteAllowed ==
    ASSUME TaskType, AccountInv, OneActive(va), NEW h \in Handlers, task[h].pc = "write",
           \/ task[h].req.op \in {"rename_va", "close_va", "suspend_va"}
           \/ task[h].req.op = "provision_va" /\ GetVAs(task[h].req.on, "ACTIVE") = {}
    PROVE  OneActive(Written(h))
<1> DEFINE u == task[h].read.id
           new == Written(h)
<1>1. /\ u \in Accounts /\ new[u].customer = task[h].req.on
      /\ \A w \in Accounts \ {u} : new[w] = va[w]
      /\ task[h].req.op = "rename_va" => /\ va[u] # None /\ va[u].customer = task[h].req.on
                                         /\ new[u].status = va[u].status
      /\ task[h].req.op \in {"close_va", "suspend_va"} => new[u].status = Outcome(task[h].req)
  BY WrittenFacts
<1>4. task[h].req.op \in {"close_va", "suspend_va"} => Outcome(task[h].req) # "ACTIVE"
  BY DEF Outcome
<1> HIDE DEF u, new
<1>2. CASE task[h].req.op = "rename_va"
  BY <1>1, <1>2 DEF OneActive, new
<1>3. CASE task[h].req.op = "provision_va" /\ GetVAs(task[h].req.on, "ACTIVE") = {}
  BY <1>1, <1>3 DEF OneActive, GetVAs, new
<1>5. CASE task[h].req.op \in {"close_va", "suspend_va"}
  BY <1>1, <1>4, <1>5 DEF OneActive, new
<1> QED
  BY <1>2, <1>3, <1>5

\* Steps that are not on accounts.
LEMMA BankElsewhere ==
    ASSUME BankInv, UNCHANGED <<va, bank, raced>>, faults' = 0 => faults = 0,
           \A g \in Handlers :
               /\ (task'[g].pc \in {"bank", "write", "audit"} /\ task'[g].req.op \in VAOps) =>
                      task'[g] = task[g]
               /\ task[g].pc = "write" => task'[g] = task[g]
    PROVE  BankInv'
<1>1. OneActive(va)'
  BY DEF BankInv, OneActive
<1>2. \A g \in Handlers : \A c : Working(g, c)' => Working(g, c)
  BY DEF Working
<1>3. Alone'
  BY <1>2 DEF BankInv, Alone
<1>7. ReadStill'
  BY DEF BankInv, ReadStill
<1> SUFFICES ASSUME faults' = 0
             PROVE  NoneActive' /\ RenamedAtBank' /\ Agrees' /\ ToldBank' /\ StatusAgrees'
  BY <1>1, <1>3, <1>7 DEF BankInv
<1>4. NoneActive'
  BY DEF BankInv, NoneActive, GetVAs, VAOps
<1>5. RenamedAtBank'
  BY DEF BankInv, RenamedAtBank, VAOps
<1>6. Agrees'
  BY DEF BankInv, Agrees
<1>8. ToldBank'
  BY DEF BankInv, ToldBank, VAOps
<1>9. StatusAgrees'
  BY DEF BankInv, StatusAgrees, SameStatus
<1> QED
  BY <1>4, <1>5, <1>6, <1>8, <1>9

\* Whom a step on accounts concerns.
LEMMA WorkersStay ==
    ASSUME TenantInv, NEW h \in Handlers, VAAction(h)
    PROVE  /\ \A g \in Handlers \ {h} : task'[g] = task[g]
           /\ task'[h].pc \in {"bank", "write", "audit"} => task'[h].req = task[h].req
           /\ \A g \in Handlers \ {h} : \A c : Working(g, c)' <=> Working(g, c)
           /\ raced \subseteq raced'
           /\ \A g \in Handlers : task[g].pc \in {"bank", "write"} =>
                  Working(g, task[g].req.on) /\ task[g].req.on \in Customers
           /\ \A g \in Handlers : task[g].pc = "write" =>
                  /\ task[g].read.id \in Accounts /\ bank[task[g].read.id] # None
                  /\ bank[task[g].read.id].customer = task[g].req.on
<1>0. TaskType /\ AccountInv
  BY DEF TenantInv
<1>1. /\ \A g \in Handlers \ {h} : task'[g] = task[g]
      /\ task'[h].pc \in {"bank", "write", "audit"} => task'[h].req = task[h].req
  BY <1>0, VATasks, IdleFacts DEF RouteMove, Only
<1>2. \A g \in Handlers \ {h} : \A c : Working(g, c)' <=> Working(g, c)
  BY <1>1 DEF Working
<1>3. raced \subseteq raced'
  BY <1>0, VACases DEF Begin, Racing
<1>4. \A g \in Handlers : task[g].pc \in {"bank", "write"} =>
          Working(g, task[g].req.on) /\ task[g].req.on \in Customers
  BY <1>0, WritingFacts, OnCustomerFacts DEF Working
<1>5. \A g \in Handlers : task[g].pc = "write" =>
          /\ task[g].read.id \in Accounts /\ bank[task[g].read.id] # None
          /\ bank[task[g].read.id].customer = task[g].req.on
  BY <1>0, WrittenFacts
<1> QED
  BY <1>1, <1>2, <1>3, <1>4, <1>5

\* Failures included: a route that is alone on its customer finds its row as it read it.
LEMMA ReadersAlone ==
    ASSUME TenantInv, BankInv, NEW h \in Handlers, VAAction(h)
    PROVE  Alone' /\ ReadStill'
<1>0. TaskType /\ AccountInv /\ Alone /\ ReadStill
  BY DEF TenantInv, BankInv
<1>1. /\ \A g \in Handlers \ {h} : task'[g] = task[g]
      /\ task'[h].pc \in {"bank", "write", "audit"} => task'[h].req = task[h].req
      /\ \A g \in Handlers \ {h} : \A c : Working(g, c)' <=> Working(g, c)
      /\ raced \subseteq raced'
      /\ \A g \in Handlers : task[g].pc \in {"bank", "write"} =>
             Working(g, task[g].req.on) /\ task[g].req.on \in Customers
  BY WorkersStay
<1>2. CASE UNCHANGED va /\ task'[h].pc \in {"idle", "store", "find"}
  <2>1. \A c : ~Working(h, c)'
    BY <1>2 DEF Working
  <2>2. Alone'
    BY <1>0, <1>1, <2>1 DEF Alone
  <2>3. ReadStill'
    BY <1>0, <1>1, <1>2 DEF ReadStill
  <2> QED
    BY <2>2, <2>3
<1>3. CASE /\ task[h].pc = "find" /\ UNCHANGED va /\ Racing(h, task[h].req.on)
           /\ task'[h].pc \in {"bank", "write"}
           /\ \/ task[h].req.op = "provision_va" /\ task'[h].pc = "bank"
              \/ \E v \in Accounts : \E was :
                     /\ v \in GetVAs(task[h].req.on, was)
                     /\ task[h].req.op # "provision_va"
                     /\ task'[h].read.id = v /\ task'[h].read.was = was
  <2>1. task[h].req.on \notin raced' => \A g \in Handlers \ {h} : ~Working(g, task[h].req.on)
    BY <1>3 DEF Racing, Working, WorksOn
  <2>2. \A c : Working(h, c)' => c = task[h].req.on
    BY <1>1, <1>3 DEF Working
  <2>3. Alone'
    BY <1>0, <1>1, <2>1, <2>2 DEF Alone
  <2>4. task[h].req.op # "provision_va" => va[task'[h].read.id].status = task'[h].read.was
    BY <1>3 DEF GetVAs
  <2>5. ReadStill'
    BY <1>0, <1>1, <1>3, <2>4 DEF ReadStill
  <2> QED
    BY <2>3, <2>5
<1>4. CASE /\ task[h].pc = "bank" /\ task'[h].pc = "write" /\ UNCHANGED <<va, raced>>
           /\ \/ task[h].req.op = "provision_va" /\ va[task'[h].read.id] = None
              \/ task[h].req.op # "provision_va" /\ task'[h].read = task[h].read
  <2>1. \A g \in Handlers : \A c : Working(g, c)' => Working(g, c)
    BY <1>1, <1>4 DEF Working
  <2>2. Alone'
    BY <1>0, <1>4, <2>1 DEF Alone
  <2>3. ReadStill'
    BY <1>0, <1>1, <1>4 DEF ReadStill
  <2> QED
    BY <2>2, <2>3
<1>5. CASE /\ task[h].pc = "write" /\ task'[h].pc \in {"idle", "store", "audit"}
           /\ UNCHANGED raced /\ va' = Written(h)
  <2> DEFINE u == task[h].read.id
  <2>1. \A g \in Handlers : \A c : Working(g, c)' => Working(g, c)
    BY <1>1, <1>5 DEF Working
  <2>2. Alone'
    BY <1>0, <1>5, <2>1 DEF Alone
  <2>3. /\ u \in Accounts /\ bank[u].customer = task[h].req.on
        /\ \A w \in Accounts \ {u} : va'[w] = va[w]
    BY <1>0, <1>5, WrittenFacts
  <2> HIDE DEF u
  <2>4. ASSUME NEW g \in Handlers \ {h}, task[g].pc \in {"bank", "write"},
               task[g].req.on \notin raced,
               task[g].req.op # "provision_va" \/ task[g].pc = "write"
        PROVE  va'[task[g].read.id] = va[task[g].read.id]
    <3>1. task[g].read.id \in Accounts /\ bank[task[g].read.id].customer = task[g].req.on
      <4>1. CASE task[g].pc = "write"
        BY <1>0, <4>1, WrittenFacts
      <4>2. CASE task[g].req.op # "provision_va"
        <5>1. task[g].read.id \in Accounts
          BY <1>0, <2>4, <4>2 DEF TaskType, TaskOK
        <5>2. va[task[g].read.id] # None /\ va[task[g].read.id].customer = task[g].req.on
          BY <1>0, <2>4, <4>2 DEF AccountInv, AtAccount
        <5> QED
          BY <1>0, <5>1, <5>2 DEF AccountInv, AccountTables, Linked
      <4> QED
        BY <2>4, <4>1, <4>2
    <3>2. task[g].req.on # task[h].req.on
      BY <1>0, <1>1, <1>5, <2>4 DEF Alone
    <3> QED
      BY <2>3, <3>1, <3>2
  <2>5. ReadStill'
    BY <1>0, <1>1, <1>5, <2>4 DEF ReadStill
  <2> QED
    BY <2>2, <2>5
<1>6. Opened(h) /\ task[h].pc = "bank" => va[NewAccount] = None
  BY <1>0, OpenedFacts
<1>7. \A step, id, was : Begin(h, step, id, was) => Racing(h, task[h].req.on)
  BY DEF Begin
<1> QED
  BY <1>0, <1>2, <1>3, <1>4, <1>5, <1>6, <1>7, VACases

\* What the provider is told of an account is what is written here.
LEMMA StatusRoutes ==
    ASSUME TenantInv, BankInv, [Next]_vars, NEW h \in Handlers, VAAction(h), faults' = 0
    PROVE  ToldBank' /\ StatusAgrees'
<1> DEFINE Telling(t) == t.pc = "write" /\ t.req.op \in {"provision_va", "close_va", "suspend_va"}
<1>0. TaskType /\ AccountInv /\ OneActive(va)
  BY DEF TenantInv, BankInv
<1>1. ~Fault /\ Alone /\ ReadStill /\ NoneActive /\ ToldBank /\ StatusAgrees
  BY NoFault DEF BankInv
<1>2. /\ \A g \in Handlers \ {h} : task'[g] = task[g]
      /\ task'[h].pc \in {"bank", "write", "audit"} => task'[h].req = task[h].req
      /\ raced \subseteq raced'
      /\ \A g \in Handlers : task[g].pc \in {"bank", "write"} =>
             Working(g, task[g].req.on) /\ task[g].req.on \in Customers
      /\ \A g \in Handlers : task[g].pc = "write" =>
             /\ task[g].read.id \in Accounts /\ bank[task[g].read.id] # None
             /\ bank[task[g].read.id].customer = task[g].req.on
  BY WorkersStay
<1>3. CASE task'[h].pc \in {"idle", "store", "find"} /\ UNCHANGED <<va, bank>>
           /\ (task[h].pc = "write" => ~OneActive(Written(h)))
  <2>1. ToldBank'
    BY <1>1, <1>2, <1>3 DEF ToldBank
  <2>2. StatusAgrees'
    <3> SUFFICES ASSUME NEW v \in Accounts, bank[v] # None, bank[v].customer \notin raced,
                        ~SameStatus(v)
                 PROVE  \E g \in Handlers : Telling(task'[g]) /\ task'[g].read.id = v
      BY <1>2, <1>3 DEF StatusAgrees, SameStatus
    <3>1. PICK g \in Handlers : Telling(task[g]) /\ task[g].read.id = v
      BY <1>1 DEF StatusAgrees
    <3>2. g # h
      <4> SUFFICES ASSUME g = h
                   PROVE  FALSE
        OBVIOUS
      <4>1. task[h].req.on \notin raced
        BY <1>2, <3>1
      <4>2. task[h].req.op = "provision_va" => GetVAs(task[h].req.on, "ACTIVE") = {}
        BY <1>1, <3>1, <4>1 DEF NoneActive
      <4> QED
        BY <1>0, <1>3, <3>1, <4>2, WriteAllowed
    <3> QED
      BY <1>2, <3>1, <3>2
  <2> QED
    BY <2>1, <2>2
<1>4. CASE /\ task[h].pc = "find" /\ UNCHANGED <<va, bank>> /\ task'[h].pc \in {"bank", "write"}
           /\ task'[h].pc = "write" => task[h].req.op = "unsuspend_va"
  <2>1. ToldBank'
    BY <1>1, <1>2, <1>4 DEF ToldBank
  <2>2. StatusAgrees'
    BY <1>1, <1>2, <1>4 DEF StatusAgrees, SameStatus
  <2> QED
    BY <2>1, <2>2
<1>5. CASE /\ task[h].pc = "bank" /\ task'[h].pc = "write" /\ UNCHANGED <<va, raced>>
           /\ task[h].req.op = "provision_va" /\ Opened(h) /\ task'[h].read.id = NewAccount
  <2>1. /\ NewAccount \in Accounts /\ bank[NewAccount] = None
        /\ bank'[NewAccount].status = "ACTIVE"
        /\ \A v \in Accounts \ {NewAccount} : bank'[v] = bank[v]
    BY <1>0, <1>5, OpenedFacts
  <2>2. Outcome(task[h].req) = "ACTIVE"
    BY <1>5 DEF Outcome
  <2>3. ToldBank'
    BY <1>1, <1>2, <1>5, <2>1, <2>2 DEF ToldBank
  <2>4. StatusAgrees'
    BY <1>1, <1>2, <1>5, <2>1 DEF StatusAgrees, SameStatus
  <2> QED
    BY <2>3, <2>4
<1>6. CASE /\ task[h].pc = "bank" /\ task'[h].pc = "write" /\ UNCHANGED <<va, raced>>
           /\ task[h].req.op = "rename_va" /\ task'[h].read = task[h].read
           /\ bank' = [bank EXCEPT ![task[h].read.id].name = task[h].req.arg]
  <2>1. \A v \in Accounts : /\ bank'[v] # None <=> bank[v] # None
                            /\ bank'[v].status = bank[v].status
                            /\ bank'[v].customer = bank[v].customer
    <3> DEFINE u == task[h].read.id
    <3>1. /\ bank[u] # None /\ bank'[u] # None
          /\ bank'[u].customer = bank[u].customer /\ bank'[u].status = bank[u].status
          /\ \A w \in Accounts \ {u} : bank'[w] = bank[w]
      BY <1>0, <1>6, RenamedFacts
    <3> HIDE DEF u
    <3> QED
      BY <3>1
  <2>2. ToldBank'
    BY <1>1, <1>2, <1>6, <2>1 DEF ToldBank
  <2>3. StatusAgrees'
    BY <1>1, <1>2, <1>6, <2>1 DEF StatusAgrees, SameStatus
  <2> QED
    BY <2>2, <2>3
<1>7. CASE /\ task[h].pc = "bank" /\ task'[h].pc = "write" /\ UNCHANGED <<va, raced>>
           /\ task[h].req.op \in {"close_va", "suspend_va"} /\ BestEffort(h)
           /\ task'[h].read = task[h].read
  <2> DEFINE u == task[h].read.id
  <2>1. /\ u \in Accounts /\ bank[u] # None /\ bank[u].customer = task[h].req.on
        /\ bank'[u].customer = bank[u].customer /\ bank'[u].status = Outcome(task[h].req)
        /\ \A w \in Accounts \ {u} : bank'[w] = bank[w]
    BY <1>0, <1>7, ToldFacts
  <2>2. task'[h].read.id = u /\ task'[h].req = task[h].req
    BY <1>2, <1>7
  <2> HIDE DEF u
  <2>3. \A g \in Handlers \ {h} :
            (task[g].pc = "write" /\ task[g].req.on \notin raced) => task[g].read.id # u
    BY <1>1, <1>2, <1>7, <2>1 DEF Alone
  <2>4. ToldBank'
    BY <1>1, <1>2, <1>7, <2>1, <2>2, <2>3 DEF ToldBank
  <2>5. StatusAgrees'
    BY <1>1, <1>2, <1>7, <2>1, <2>2 DEF StatusAgrees, SameStatus
  <2> QED
    BY <2>4, <2>5
<1>8. CASE /\ task[h].pc = "write" /\ task'[h].pc = "audit" /\ UNCHANGED <<bank, raced>>
           /\ va' = Written(h)
  <2> DEFINE u == task[h].read.id
             op == task[h].req.op
  <2>1. /\ u \in Accounts /\ va'[u] # None /\ bank[u].customer = task[h].req.on
        /\ \A w \in Accounts \ {u} : va'[w] = va[w]
        /\ op = "provision_va" => va'[u].status = "ACTIVE"
        /\ op = "rename_va" => va'[u].status = va[u].status
        /\ op \notin {"provision_va", "rename_va"} => va'[u].status = Outcome(task[h].req)
    BY <1>0, <1>8, WrittenFacts
  <2>2. /\ op = "provision_va" => Outcome(task[h].req) = "ACTIVE"
        /\ op = "close_va" => Outcome(task[h].req) = "CLOSED"
        /\ op = "suspend_va" => Outcome(task[h].req) = "SUSPENDED"
        /\ op = "unsuspend_va" => Outcome(task[h].req) = "ACTIVE"
    BY DEF Outcome
  <2>3. op \in {"provision_va", "rename_va", "close_va", "suspend_va", "unsuspend_va"}
    BY <1>0, <1>8 DEF TaskType, TaskOK, Midway, RouteSteps, VAOps
  <2>4. task[h].read.was # "CLOSED"
    BY <1>0, <1>8 DEF TaskType, TaskOK
  <2>5. ToldBank'
    BY <1>1, <1>2, <1>8 DEF ToldBank
  <2>6. StatusAgrees'
    <3> SUFFICES ASSUME NEW v \in Accounts, bank[v] # None, bank[v].customer \notin raced
                 PROVE  \/ SameStatus(v)'
                        \/ \E g \in Handlers : Telling(task'[g]) /\ task'[g].read.id = v
      BY <1>8 DEF StatusAgrees
    <3>1. SameStatus(v) \/ \E g \in Handlers : Telling(task[g]) /\ task[g].read.id = v
      BY <1>1 DEF StatusAgrees
    <3>2. CASE v # u
      <4>1. va'[v] = va[v]
        BY <2>1, <3>2
      <4> QED
        BY <1>2, <1>8, <3>1, <3>2, <4>1 DEF SameStatus
    <3>3. CASE v = u /\ op \in {"provision_va", "close_va", "suspend_va"}
      <4>1. bank[v].status = Outcome(task[h].req)
        BY <1>1, <1>8, <2>1, <3>3 DEF ToldBank
      <4> QED
        BY <1>8, <2>1, <2>2, <3>3, <4>1 DEF SameStatus
    <3>4. CASE v = u /\ op \in {"rename_va", "unsuspend_va"}
      <4>1. SameStatus(v)
        <5> SUFFICES ASSUME NEW g \in Handlers, Telling(task[g]), task[g].read.id = v
                     PROVE  FALSE
          BY <3>1
        <5>1. g # h
          BY <3>4
        <5>2. task[g].req.on = task[h].req.on
          BY <1>2, <2>1, <3>4
        <5> QED
          BY <1>1, <1>2, <1>8, <2>1, <3>4, <5>1, <5>2 DEF Alone
      <4>2. op = "unsuspend_va" => va[v].status # "CLOSED"
        BY <1>1, <1>8, <2>1, <2>4, <3>4 DEF ReadStill, VAOps
      <4> QED
        BY <1>8, <2>1, <2>2, <3>4, <4>1, <4>2 DEF SameStatus
    <3> QED
      BY <2>3, <3>2, <3>3, <3>4
  <2> QED
    BY <2>5, <2>6
<1> HIDE DEF Telling
<1> QED
  BY <1>0, <1>1, <1>3, <1>4, <1>5, <1>6, <1>7, <1>8, VACases

\* The routes on accounts.
LEMMA BankRoutes ==
    ASSUME TenantInv, BankInv, [Next]_vars, NEW h \in Handlers, VAAction(h)
    PROVE  BankInv'
<1>0. TaskType /\ AccountInv /\ AccountsKeep /\ OneActive(va)
  BY TenantStep DEF TenantInv, BankInv
<1>1. OneActive(va')
  <2>1. UNCHANGED va \/ OneActive(va')
    BY <1>0, VACases
  <2> QED
    BY <1>0, <2>1
<1>14. Alone' /\ ReadStill'
  BY ReadersAlone
<1> SUFFICES ASSUME faults' = 0
             PROVE  NoneActive' /\ RenamedAtBank' /\ Agrees' /\ ToldBank' /\ StatusAgrees'
  BY <1>1, <1>14 DEF BankInv
<1>2. faults = 0 /\ ~Fault /\ Alone /\ NoneActive /\ RenamedAtBank /\ Agrees
  BY NoFault DEF BankInv
<1>15. ToldBank' /\ StatusAgrees'
  BY StatusRoutes
<1>3. /\ \A g \in Handlers \ {h} : task'[g] = task[g]
      /\ task'[h].pc \in {"bank", "write", "audit"} => task'[h].req = task[h].req
  BY WorkersStay
<1>5. raced \subseteq raced'
  BY WorkersStay
<1>7. \A g \in Handlers : task[g].pc \in {"bank", "write"} =>
          Working(g, task[g].req.on) /\ task[g].req.on \in Customers
  BY WorkersStay
<1>6. task[h].pc \in {"bank", "write"} => Working(h, task[h].req.on) /\ task[h].req.on \in Customers
  BY <1>7
<1>8. \A g \in Handlers : task[g].pc = "write" =>
          /\ task[g].read.id \in Accounts /\ bank[task[g].read.id] # None
          /\ bank[task[g].read.id].customer = task[g].req.on
  BY WorkersStay
<1>9. CASE task'[h].pc \in {"idle", "store", "find"} /\ UNCHANGED <<va, bank>>
           /\ (task[h].pc = "write" => ~OneActive(Written(h)))
  <2>3. NoneActive'
    BY <1>2, <1>3, <1>5, <1>9 DEF NoneActive, GetVAs
  <2>4. RenamedAtBank'
    BY <1>2, <1>3, <1>5, <1>9 DEF RenamedAtBank
  <2>5. Agrees'
    <3> SUFFICES ASSUME NEW v \in Accounts, bank[v] # None, bank[v].customer \notin raced,
                        ~(va[v] # None /\ va[v].name = bank[v].name)
                 PROVE  \E g \in Handlers : /\ task'[g].pc = "write" /\ task'[g].read.id = v
                                            /\ task'[g].req.op \in {"provision_va", "rename_va"}
      BY <1>5, <1>9 DEF Agrees
    <3>1. PICK g \in Handlers : /\ task[g].pc = "write" /\ task[g].read.id = v
                                /\ task[g].req.op \in {"provision_va", "rename_va"}
      BY <1>2 DEF Agrees
    <3>2. g # h
      <4> SUFFICES ASSUME g = h
                   PROVE  FALSE
        OBVIOUS
      <4>1. task[h].req.on \notin raced
        BY <1>8, <3>1
      <4>2. task[h].req.op = "provision_va" => GetVAs(task[h].req.on, "ACTIVE") = {}
        BY <1>2, <3>1, <4>1 DEF NoneActive
      <4> QED
        BY <1>0, <1>9, <3>1, <4>2, WriteAllowed
    <3> QED
      BY <1>3, <3>1, <3>2
  <2> QED
    BY <1>15, <2>3, <2>4, <2>5
<1>10. CASE /\ task[h].pc = "find" /\ UNCHANGED <<va, bank>> /\ task'[h].pc \in {"bank", "write"}
            /\ task[h].req.op = "provision_va" => GetVAs(task[h].req.on, "ACTIVE") = {}
            /\ task'[h].pc = "write" => task[h].req.op = "unsuspend_va"
  <2>4. NoneActive'
    BY <1>2, <1>3, <1>5, <1>10 DEF NoneActive, GetVAs
  <2>5. RenamedAtBank'
    BY <1>2, <1>3, <1>5, <1>10 DEF RenamedAtBank
  <2>6. Agrees'
    BY <1>2, <1>3, <1>5, <1>10 DEF Agrees
  <2> QED
    BY <1>15, <2>4, <2>5, <2>6
<1>11. CASE /\ task[h].pc = "bank" /\ task'[h].pc = "write" /\ UNCHANGED <<va, raced>>
            /\ \/ /\ task[h].req.op = "provision_va" /\ Opened(h)
                  /\ task'[h].read.id = NewAccount
               \/ /\ task[h].req.op = "rename_va" /\ task'[h].read = task[h].read
                  /\ bank' = [bank EXCEPT ![task[h].read.id].name = task[h].req.arg]
               \/ /\ task[h].req.op \in {"close_va", "suspend_va"} /\ BestEffort(h)
                  /\ task'[h].read = task[h].read
  <2>3. NoneActive'
    BY <1>2, <1>3, <1>11 DEF NoneActive, GetVAs
  <2>4. CASE task[h].req.op = "provision_va" /\ Opened(h) /\ task'[h].read.id = NewAccount
    <3>1. /\ NewAccount \in Accounts /\ bank[NewAccount] = None
          /\ \A v \in Accounts \ {NewAccount} : bank'[v] = bank[v]
      BY <1>0, <1>11, <2>4, OpenedFacts
    <3>2. RenamedAtBank'
      BY <1>2, <1>3, <1>8, <1>11, <2>4, <3>1 DEF RenamedAtBank
    <3>3. Agrees'
      BY <1>2, <1>3, <1>11, <2>4, <3>1 DEF Agrees
    <3> QED
      BY <1>15, <2>3, <3>2, <3>3
  <2>5. CASE /\ task[h].req.op = "rename_va" /\ task'[h].read = task[h].read
             /\ bank' = [bank EXCEPT ![task[h].read.id].name = task[h].req.arg]
    <3> DEFINE u == task[h].read.id
    <3>1. /\ u \in Accounts /\ bank[u] # None /\ bank[u].customer = task[h].req.on
          /\ bank'[u].name = task[h].req.arg /\ bank'[u].customer = bank[u].customer
          /\ \A w \in Accounts \ {u} : bank'[w] = bank[w]
      BY <1>0, <1>11, <2>5, RenamedFacts
    <3>2. task'[h].read.id = u /\ task'[h].req = task[h].req
      BY <1>3, <1>11, <2>5
    <3> HIDE DEF u
    <3>3. \A g \in Handlers \ {h} :
              (task[g].pc = "write" /\ task[g].req.on \notin raced) => task[g].read.id # u
      BY <1>2, <1>6, <1>7, <1>8, <1>11, <3>1 DEF Alone
    <3>4. RenamedAtBank'
      BY <1>2, <1>3, <1>8, <1>11, <2>5, <3>1, <3>2, <3>3 DEF RenamedAtBank
    <3>5. Agrees'
      BY <1>2, <1>3, <1>11, <2>5, <3>1, <3>2 DEF Agrees
    <3> QED
      BY <1>15, <2>3, <3>4, <3>5
  <2>6. CASE task[h].req.op \in {"close_va", "suspend_va"} /\ BestEffort(h)
    <3>1. \A v \in Accounts : /\ bank'[v] # None <=> bank[v] # None
                              /\ bank'[v].name = bank[v].name
                              /\ bank'[v].customer = bank[v].customer
      <4> DEFINE u == task[h].read.id
      <4>1. /\ bank[u] # None /\ bank'[u] # None
            /\ bank'[u].customer = bank[u].customer /\ bank'[u].name = bank[u].name
            /\ \A w \in Accounts \ {u} : bank'[w] = bank[w]
        BY <1>0, <2>6, ToldFacts
      <4> HIDE DEF u
      <4> QED
        BY <4>1
    <3>2. RenamedAtBank'
      BY <1>2, <1>3, <1>8, <1>11, <2>6, <3>1 DEF RenamedAtBank
    <3>3. Agrees'
      BY <1>2, <1>3, <1>11, <2>6, <3>1 DEF Agrees
    <3> QED
      BY <1>15, <2>3, <3>2, <3>3
  <2> QED
    BY <1>11, <2>4, <2>5, <2>6
<1>12. CASE /\ task[h].pc = "write" /\ task'[h].pc = "audit" /\ UNCHANGED <<bank, raced>>
            /\ va' = Written(h)
  <2> DEFINE u == task[h].read.id
             op == task[h].req.op
  <2>3. /\ u \in Accounts /\ va'[u] # None /\ va'[u].customer = task[h].req.on
        /\ bank[u].customer = task[h].req.on
        /\ \A w \in Accounts \ {u} : va'[w] = va[w]
        /\ op = "provision_va" => va'[u].name = bank[u].name
        /\ op # "provision_va" => va[u] # None
        /\ op = "rename_va" => va'[u].name = task[h].req.arg
        /\ op \notin {"provision_va", "rename_va"} => va'[u].name = va[u].name
    BY <1>0, <1>12, WrittenFacts
  <2> HIDE DEF u, op
  <2>4. NoneActive'
    <3> SUFFICES ASSUME NEW g \in Handlers \ {h}, task[g].pc \in {"bank", "write"},
                        task[g].req.op = "provision_va", task[g].req.on \notin raced
                 PROVE  \A v \in Accounts :
                            ~(va'[v] # None /\ va'[v].customer = task[g].req.on
                              /\ va'[v].status = "ACTIVE")
      BY <1>3, <1>12 DEF NoneActive, GetVAs
    <3>1. task[g].req.on # task[h].req.on
      BY <1>2, <1>6, <1>7, <1>12 DEF Alone
    <3>2. GetVAs(task[g].req.on, "ACTIVE") = {}
      BY <1>2 DEF NoneActive
    <3> QED
      BY <2>3, <3>1, <3>2 DEF GetVAs
  <2>5. RenamedAtBank'
    BY <1>2, <1>3, <1>12 DEF RenamedAtBank
  <2>6. Agrees'
    <3> SUFFICES ASSUME NEW v \in Accounts, bank[v] # None, bank[v].customer \notin raced
                 PROVE  \/ va'[v] # None /\ va'[v].name = bank[v].name
                        \/ \E g \in Handlers : /\ task'[g].pc = "write" /\ task'[g].read.id = v
                                               /\ task'[g].req.op \in {"provision_va", "rename_va"}
      BY <1>12 DEF Agrees
    <3>1. \/ va[v] # None /\ va[v].name = bank[v].name
          \/ \E g \in Handlers : /\ task[g].pc = "write" /\ task[g].read.id = v
                                 /\ task[g].req.op \in {"provision_va", "rename_va"}
      BY <1>2 DEF Agrees
    <3>2. CASE v = u /\ op = "rename_va"
      <4>1. bank[u].name = task[h].req.arg
        BY <1>2, <1>12, <2>3, <3>2 DEF RenamedAtBank, u, op
      <4> QED
        BY <2>3, <3>2, <4>1
    <3>3. CASE v = u /\ op = "provision_va"
      BY <2>3, <3>3
    <3>4. CASE v # u \/ op \notin {"rename_va", "provision_va"}
      BY <1>3, <2>3, <3>1, <3>4 DEF u, op
    <3> QED
      BY <3>2, <3>3, <3>4
  <2> QED
    BY <1>15, <2>4, <2>5, <2>6
<1> QED
  BY <1>0, <1>2, <1>9, <1>10, <1>11, <1>12, VACases

\* Every step keeps the provider and the table together.
LEMMA BankStep ==
    ASSUME TenantInv, BankInv, [Next]_vars
    PROVE  BankInv'
<1>0. TaskType /\ GatewayType /\ AccountInv /\ RelayInv /\ BankInv
  BY DEF TenantInv
<1>1. faults' = 0 => faults = 0
  BY NoFault
<1>2. ASSUME NEW h \in Handlers, UNCHANGED <<va, bank, raced>>, Only(h), task[h].pc # "write",
             task'[h].pc \in {"bank", "write", "audit"} => task'[h].req.op \notin VAOps
      PROVE  BankInv'
  <2>1. \A g \in Handlers :
            /\ (task'[g].pc \in {"bank", "write", "audit"} /\ task'[g].req.op \in VAOps) =>
                   task'[g] = task[g]
            /\ task[g].pc = "write" => task'[g] = task[g]
    BY <1>2 DEF Only
  <2> QED
    BY <1>0, <1>1, <1>2, <2>1, BankElsewhere
<1>3. ASSUME UNCHANGED <<va, bank, raced, task>>
      PROVE  BankInv'
  BY <1>0, <1>1, <1>3, BankElsewhere
<1>4. ASSUME NEW h \in Handlers, GatewayAction(h), UNCHANGED <<va, bank, raced>>
      PROVE  BankInv'
  BY <1>0, <1>2, <1>4, GatewayTasks, ActorsAt
<1>5. ASSUME NEW h \in Handlers, CustomerAction(h), UNCHANGED <<va, bank, raced>>
      PROVE  BankInv'
  <2>1. RouteMove(h, {"insert", "tier", "audit"}) /\ TaskType'
    BY <1>0, <1>5, CustomerTasks DEF AccountInv, AccountTables
  <2>2. task[h].pc \in {"serve", "insert", "tier", "audit"}
    BY <1>5, ActorsAt
  <2>3. ASSUME task'[h].pc = "audit"
        PROVE  task'[h].req.op \notin VAOps
    <3>1. task'[h].req = task[h].req
      BY <2>1, <2>3, IdleFacts DEF RouteMove
    <3>2. task[h].pc \in {"insert", "tier"}
      BY <1>0, <1>5, <2>3, CustomerCases
    <3>3. task[h].req.op \notin VAOps
      BY <1>0, <3>2 DEF TaskType, TaskOK, Midway, RouteSteps, VAOps
    <3> QED
      BY <3>1, <3>3
  <2> QED
    BY <1>2, <1>5, <2>1, <2>2, <2>3, IdleFacts DEF RouteMove
<1>6. ASSUME NEW h \in Handlers, RelayAction(h), UNCHANGED <<va, bank, raced>>
      PROVE  BankInv'
  <2>1. RouteMove(h, {"owner", "replay"})
    BY <1>0, <1>6, RelayTasks DEF RelayInv, RelayTables
  <2> QED
    BY <1>2, <1>6, <2>1, ActorsAt, IdleFacts DEF RouteMove
<1>7. ASSUME NEW h \in Handlers, PlatformAction(h), UNCHANGED <<va, bank, raced>>
      PROVE  BankInv'
  <2>1. RouteMove(h, {"serve", "reload", "add_key", "add_user"})
    BY <1>0, <1>7, PlatformTasks
  <2> QED
    BY <1>2, <1>7, <2>1, ActorsAt, IdleFacts DEF RouteMove
<1>8. CASE Crash
  <2>1. faults' # 0 /\ UNCHANGED va
    BY <1>8, NoFault DEF Crash, accountVars
  <2>2. \A h \in Handlers : task'[h].pc = "idle"
    BY <1>8, IdleFacts DEF Crash
  <2> QED
    BY <1>0, <2>1, <2>2 DEF BankInv, OneActive, Alone, Working, ReadStill
<1>9. RedisStep => UNCHANGED task
  BY DEF RedisStep, LapseMark, ExpireAnswer
<1> QED
  BY <1>3, <1>4, <1>5, <1>6, <1>7, <1>8, <1>9, BankRoutes, StepKinds, ElsewhereFrame
  DEF vars, gatewayVars, accountVars

\* The accounts start empty.
LEMMA BankInvariant == Spec => []BankInv
<1>1. Init => BankInv
  <2> SUFFICES ASSUME Init
               PROVE  BankInv
    OBVIOUS
  <2>1. \A v \in Accounts : va[v] = None /\ bank[v] = None
    BY DEF Init, VAInit
  <2>2. \A h \in Handlers : task[h].pc = "idle"
    BY IdleFacts DEF Init, GatewayInit
  <2> QED
    BY <2>1, <2>2 DEF BankInv, OneActive, Alone, ReadStill, NoneActive, RenamedAtBank, Agrees,
                      ToldBank, StatusAgrees, Working
<1>2. TenantInv /\ BankInv /\ [Next]_vars => BankInv'
  BY BankStep
<1> QED
  BY <1>1, <1>2, TenantInvariant, PTL DEF Spec

\* BankAgrees: an account at the provider whose customer no two requests worked on at
\* once has its row, with the provider's name and, unless the row is ACTIVE again, its
\* status, or a request is about to write it.
THEOREM BankAndTableAgree == Spec => []BankAgrees
<1>1. BankInv => BankAgrees
  BY DEF BankInv, Agrees, StatusAgrees, SameStatus, BankAgrees
<1> QED
  BY <1>1, BankInvariant, PTL

\* ReopenedOnlyByStaleRead: a route that is alone on its customer writes over the status
\* it has read, which is not CLOSED, whatever fails; so an account that is CLOSED gets
\* another status only from a route that read it earlier and overlapped with the one
\* that closed it.
THEOREM OnlyStaleReadsReopen == Spec => ReopenedOnlyByStaleRead
<1> DEFINE Stale(v) == /\ va[v].customer \in raced
                       /\ \E h \in Handlers : /\ task[h].read.id = v
                                              /\ task[h].read.was # "CLOSED"
                                              /\ task'[h] # task[h]
<1>1. ASSUME TenantInv, BankInv, [Next]_vars, NEW v \in Accounts,
             va[v] # None, va[v].status = "CLOSED", va'[v].status # "CLOSED"
      PROVE  Stale(v)
  <2>0. TaskType /\ AccountInv /\ ReadStill
    BY <1>1 DEF TenantInv, BankInv
  <2>1. PICK h \in Handlers : VAAction(h)
    BY <1>1, StepKinds DEF vars, accountVars, Crash
  <2>2. /\ task'[h] # task[h] /\ task[h].pc = "write"
        /\ task[h].read.id = v /\ task[h].read.was # "CLOSED"
    BY <1>1, <2>1, AccountChanges
  <2>3. va[v].customer = task[h].req.on
    <3>1. bank[v].customer = task[h].req.on
      BY <2>0, <2>2, WrittenFacts
    <3> QED
      BY <1>1, <2>0, <3>1 DEF AccountInv, AccountTables, Linked
  <2>4. task[h].req.op \in VAOps
    BY <2>0, <2>2 DEF TaskType, TaskOK, Midway, RouteSteps
  <2>5. task[h].req.on \in raced
    BY <1>1, <2>0, <2>2, <2>4 DEF ReadStill
  <2> QED
    BY <2>2, <2>3, <2>5
<1>2. ASSUME TenantInv, BankInv, [Next]_vars
      PROVE  [\A v \in Accounts :
                  (va[v] # None /\ va[v].status = "CLOSED" /\ va'[v].status # "CLOSED") =>
                      Stale(v)]_<<gatewayVars, accountVars>>
  BY <1>1, <1>2
<1> QED
  BY <1>2, TenantInvariant, BankInvariant, PTL DEF Spec, ReopenedOnlyByStaleRead

-----------------------------------------------------------------------------
(***************************************************************************)
(* Tenants and their users.  As long as no call fails, the process is not  *)
(* up before the demo tenant is complete, and a tenant that is not is in   *)
(* the hands of one request.                                               *)
(***************************************************************************)
HasUser(e, f) == [email |-> e, tenant |-> f] \in creds

Keyed(f) == \E k \in ApiKeys : KeyOwner[k] = f /\ issued[k] # "no"

Settled(f) ==
    /\ Keyed(f)
    /\ \/ \A e \in ToSet(firms[f].users) : HasUser(e, f)
       \/ ~IsInjective(firms[f].users)
       \/ \E e \in ToSet(firms[f].users) : EmailTaken(e) /\ ~HasUser(e, f)

\* The users of f that are still to be added.
ToAdd(list, f) ==
    /\ \A e \in ToSet(firms[f].users) : HasUser(e, f) \/ e \in ToSet(list)
    /\ ToSet(list) \subseteq ToSet(firms[f].users)
    /\ IsInjective(firms[f].users) => IsInjective(list) /\ \A e \in ToSet(list) : ~HasUser(e, f)

Adding(h) == task[h].pc \in {"add_key", "add_user"}

Underway(h) ==
    LET f == task[h].read.id
    IN  /\ firms[f] # None
        /\ task[h].pc = "add_key" => /\ task[h].req.arg = firms[f].users
                                     /\ \A row \in creds : row.tenant # f
        /\ task[h].pc = "add_user" => Keyed(f) /\ ToAdd(task[h].read.was, f)

Empty ==
    /\ creds \subseteq {[email |-> Admin, tenant |-> None]} /\ demo = {}
    /\ \A f \in Firms : firms[f] = None

DemoDone(f) ==
    /\ firms[f] # None
    /\ \A e \in ToSet(DemoUsers) : HasUser(e, f)
    /\ demo = {f} \X ToSet(DemoCustomers)

\* The parts of start-up before the demo tenant is seeded.
BeforeDemo == {"down", "refused", "migrate", "record", "limits", "admin", "demo"}

Seeding == boot.at \in {"demo_key", "demo_users", "demo_customers"}

SeedStage ==
    /\ boot.at \in BeforeDemo => Empty \/ \E f \in Firms : DemoDone(f)
    /\ boot.at = "up" => \E f \in Firms : DemoDone(f)
    /\ Seeding => /\ firms[boot.firm] # None /\ firms[boot.firm].users = DemoUsers
                  /\ \A f \in Firms \ {boot.firm} : firms[f] = None
                  /\ \A row \in creds : \/ row.email = Admin /\ row.tenant = None
                                        \/ row.tenant = boot.firm
                  /\ demo \subseteq {boot.firm} \X ToSet(DemoCustomers)
    /\ boot.at = "demo_users" =>
           /\ Keyed(boot.firm)
           /\ ToSet(boot.left) \subseteq ToSet(DemoUsers)
           /\ \A e \in ToSet(DemoUsers) : HasUser(e, boot.firm) \/ e \in ToSet(boot.left)
    /\ boot.at = "demo_customers" =>
           /\ Keyed(boot.firm)
           /\ \A e \in ToSet(DemoUsers) : HasUser(e, boot.firm)
           /\ ToSet(boot.left) \subseteq ToSet(DemoCustomers)
           /\ \A c \in ToSet(DemoCustomers) : <<boot.firm, c>> \in demo \/ c \in ToSet(boot.left)

Cared(f) ==
    \/ Settled(f)
    \/ Seeding /\ f = boot.firm
    \/ \E h \in Handlers : Adding(h) /\ task[h].read.id = f

FirmInv ==
    (faults = 0 /\ Operating) =>
        /\ SeedStage
        /\ \A row \in creds : row.tenant \in Firms => firms[row.tenant] # None
        /\ \A h \in Handlers : Adding(h) => Underway(h)
        /\ \A g, h \in Handlers : (Adding(g) /\ Adding(h) /\ task[g].read.id = task[h].read.id) => g = h
        /\ \A f \in Firms : firms[f] # None => Cared(f)

\* What a list holds besides its head.
LEMMA ListFacts ==
    ASSUME NEW S, NEW s \in Seq(S), s # <<>>
    PROVE  /\ Head(s) \in ToSet(s)
           /\ ToSet(s) = {Head(s)} \cup ToSet(Tail(s))
           /\ Len(s) = 1 => ToSet(s) = {Head(s)}
           /\ IsInjective(s) => IsInjective(Tail(s)) /\ Head(s) \notin ToSet(Tail(s))
<1> DEFINE t == Tail(s)
<1>1. /\ Len(s) \in Nat /\ Len(s) > 0 /\ Len(t) = Len(s) - 1 /\ Len(t) \in Nat
      /\ DOMAIN s = 1..Len(s) /\ DOMAIN t = 1..Len(t) /\ Head(s) = s[1]
      /\ \A i \in 1..Len(t) : t[i] = s[i + 1]
  BY TailFacts
<1> HIDE DEF t
<1>2. \A i \in DOMAIN t : i + 1 \in DOMAIN s /\ t[i] = s[i + 1] /\ i + 1 # 1
  BY <1>1
<1>3. \A i \in DOMAIN s : i = 1 \/ (i - 1 \in DOMAIN t /\ t[i - 1] = s[i])
  <2> SUFFICES ASSUME NEW i \in DOMAIN s, i # 1
               PROVE  i - 1 \in DOMAIN t /\ t[i - 1] = s[i]
    OBVIOUS
  <2>1. i - 1 \in 1..Len(t) /\ (i - 1) + 1 = i
    BY <1>1
  <2> QED
    BY <1>1, <2>1
<1>4. 1 \in DOMAIN s
  BY <1>1
<1>5. Head(s) \in ToSet(s)
  BY <1>1, <1>4 DEF ToSet
<1>6. ToSet(s) = {Head(s)} \cup ToSet(t)
  <2>1. ASSUME NEW x \in ToSet(s)
        PROVE  x \in {Head(s)} \cup ToSet(t)
    BY <1>1, <1>3 DEF ToSet
  <2>2. ASSUME NEW x \in ToSet(t)
        PROVE  x \in ToSet(s)
    BY <1>2 DEF ToSet
  <2> QED
    BY <1>5, <2>1, <2>2
<1>7. Len(s) = 1 => ToSet(t) = {}
  <2> SUFFICES ASSUME Len(s) = 1
               PROVE  ToSet(t) = {}
    OBVIOUS
  <2>1. DOMAIN t = {}
    BY <1>1
  <2> QED
    BY <2>1 DEF ToSet
<1>8. ASSUME IsInjective(s)
      PROVE  IsInjective(t) /\ Head(s) \notin ToSet(t)
  <2>1. ASSUME NEW i \in DOMAIN t, NEW j \in DOMAIN t, t[i] = t[j]
        PROVE  i = j
    <3>1. i + 1 = j + 1
      BY <1>2, <1>8, <2>1 DEF IsInjective
    <3> QED
      BY <1>1, <3>1
  <2>2. ASSUME NEW i \in DOMAIN t, t[i] = s[1]
        PROVE  FALSE
    BY <1>2, <1>4, <1>8, <2>2 DEF IsInjective
  <2>3. IsInjective(t)
    BY <2>1 DEF IsInjective
  <2>4. Head(s) \notin ToSet(t)
    BY <1>1, <2>2 DEF ToSet
  <2> QED
    BY <2>3, <2>4
<1> QED
  BY <1>5, <1>6, <1>7, <1>8 DEF t

\* What is said of users and keys in a step.
UsersStay ==
    \A e, f : /\ HasUser(e, f) => HasUser(e, f)'
              /\ (EmailTaken(e) /\ ~HasUser(e, f)) => (EmailTaken(e)' /\ ~HasUser(e, f)')

KeysStay == \A k \in ApiKeys : issued[k] # "no" => issued'[k] # "no"

\* A user that is added changes nothing about the others.
LEMMA UserAdded ==
    ASSUME NEW e, NEW f, UNCHANGED creds \/ (~EmailTaken(e) /\ AddUser(e, f))
    PROVE  /\ UsersStay
           /\ \A x, g : HasUser(x, g)' => HasUser(x, g) \/ (x = e /\ g = f)
           /\ \A row \in creds' : row \in creds \/ (row.email = e /\ row.tenant = f)
<1>1. CASE UNCHANGED creds
  BY <1>1 DEF UsersStay, HasUser, EmailTaken
<1>2. CASE ~EmailTaken(e) /\ AddUser(e, f)
  <2>1. creds' = creds \cup {[email |-> e, tenant |-> f]}
    BY <1>2 DEF AddUser
  <2>2. \A x, g : [email |-> x, tenant |-> g] = [email |-> e, tenant |-> f] => x = e /\ g = f
    OBVIOUS
  <2>3. \A x, g : HasUser(x, g)' => HasUser(x, g) \/ (x = e /\ g = f)
    BY <2>1, <2>2 DEF HasUser
  <2>4. \A x, g : HasUser(x, g) => HasUser(x, g)'
    BY <2>1 DEF HasUser
  <2>5. \A x : EmailTaken(x) => EmailTaken(x)' /\ x # e
    BY <1>2, <2>1 DEF EmailTaken
  <2>6. \A row \in creds' : row \in creds \/ (row.email = e /\ row.tenant = f)
    BY <2>1
  <2> QED
    BY <2>3, <2>4, <2>5, <2>6 DEF UsersStay
<1> QED
  BY <1>1, <1>2

\* A tenant stays settled.
LEMMA SettledStays ==
    ASSUME UsersStay, KeysStay, NEW f, firms'[f] = firms[f]
    PROVE  /\ Keyed(f) => Keyed(f)'
           /\ Settled(f) => Settled(f)'
<1>1. Keyed(f) => Keyed(f)'
  BY DEF Keyed, KeysStay
<1> QED
  BY <1>1 DEF Settled, UsersStay

\* So does the demo tenant.
LEMMA DemoStays ==
    ASSUME UsersStay, NEW f \in Firms, firms'[f] = firms[f], UNCHANGED demo, DemoDone(f)
    PROVE  DemoDone(f)'
BY DEF DemoDone, UsersStay

\* A key is added to those there are.
LEMMA KeyAdded ==
    ASSUME GatewayType, NEW f, AddKey(f)
    PROVE  KeysStay /\ Keyed(f)'
<1> DEFINE k == Fresh(UnusedKeys(f))
<1>1. k \in ApiKeys /\ KeyOwner[k] = f
  BY DEF AddKey, Fresh, UnusedKeys
<1>2. issued' = [issued EXCEPT ![k] = "active"]
  BY DEF AddKey
<1> HIDE DEF k
<1>3. issued'[k] = "active" /\ \A j \in ApiKeys \ {k} : issued'[j] = issued[j]
  BY <1>1, <1>2 DEF GatewayType
<1> QED
  BY <1>1, <1>3 DEF KeysStay, Keyed

\* No step takes a key back to not issued.
LEMMA KeysAreKept ==
    ASSUME GatewayType, TaskType, [Next]_vars
    PROVE  KeysStay
<1>1. CASE UNCHANGED issued
  BY <1>1 DEF KeysStay
<1>2. ASSUME NEW f, AddKey(f)
      PROVE  KeysStay
  BY <1>2, KeyAdded
<1>3. ASSUME NEW h \in Handlers, GatewayAction(h)
      PROVE  KeysStay
  <2>1. CASE RevokeAPIKey(h)
    BY <2>1 DEF RevokeAPIKey, KeysStay, GatewayType
  <2> QED
    BY <1>1, <1>2, <1>3, <2>1 DEF GatewayAction, GatewayStep, Accept, Authenticate, LookUp,
       MarkInFlight, StoreResponse, CreateAPIKey, MiddlewareCallFails, MarkUnconfirmed,
       RouteCallFails
<1>4. ASSUME NEW h \in Handlers, PlatformAction(h)
      PROVE  UNCHANGED issued \/ \E f : AddKey(f)
  BY <1>4 DEF PlatformAction, PlatformStep, AuthorizeOperator, PutTierLimits, ReloadTierLimits,
              CreateTenant, CreateFirstKey, CreateCredential, OnboardAdmin, PutUnconfirmed,
              RouteCallFails
<1>5. ASSUME BootAction
      PROVE  UNCHANGED issued \/ \E f : AddKey(f)
  BY <1>5 DEF BootAction, Boot, Start, Migrate, RecordMigration, LoadSettings, SeedAdmin,
              SeedTenant, SeedKey, SeedDemoUser, SeedCustomer, Stop, BootCallFails, gatewayVars
<1>6. RedisStep \/ Crash => UNCHANGED issued
  BY DEF RedisStep, LapseMark, ExpireAnswer, Crash
<1> QED
  BY <1>1, <1>2, <1>3, <1>4, <1>5, <1>6, StepKinds, RouteFrame, ElsewhereFrame DEF vars, gatewayVars

\* What a handler has still to do for its tenant stays what it is when no user of that
\* tenant is added.
LEMMA UnderwayStays ==
    ASSUME NEW g \in Handlers, Adding(g), Underway(g), task'[g] = task[g], UsersStay, KeysStay,
           firms'[task[g].read.id] = firms[task[g].read.id],
           \A row \in creds' : row \in creds \/ row.tenant # task[g].read.id
    PROVE  Adding(g)' /\ Underway(g)'
<1> DEFINE f == task[g].read.id
<1>1. firms[f] # None
  BY DEF Underway
<1>2. \A e : HasUser(e, f)' => HasUser(e, f)
  BY DEF HasUser
<1>3. \A list : ToAdd(list, f) => ToAdd(list, f)'
  BY <1>2 DEF ToAdd, UsersStay
<1>4. Keyed(f) => Keyed(f)'
  BY SettledStays
<1>5. CASE task[g].pc = "add_key"
  BY <1>1, <1>5 DEF Adding, Underway
<1>6. CASE task[g].pc = "add_user"
  <2>1. Keyed(f) /\ ToAdd(task[g].read.was, f)
    BY <1>6 DEF Underway
  <2>2. Keyed(f)' /\ ToAdd(task[g].read.was, f)'
    BY <1>3, <1>4, <2>1
  <2> QED
    BY <1>1, <1>6, <2>2 DEF Adding, Underway, ToAdd, HasUser, Keyed
<1> QED
  BY <1>5, <1>6 DEF Adding

\* Steps that do not touch tenants and users.
LEMMA FirmElsewhere ==
    ASSUME FirmInv, KeysStay, UNCHANGED <<firms, creds, demo, boot, workload>>,
           faults' = 0 => faults = 0,
           faults' = 0 => \A g \in Handlers : (Adding(g) \/ Adding(g)') => task'[g] = task[g]
    PROVE  FirmInv'
<1> SUFFICES ASSUME faults' = 0, Operating'
             PROVE  /\ SeedStage'
                    /\ \A row \in creds' : row.tenant \in Firms => firms'[row.tenant] # None
                    /\ \A g \in Handlers : Adding(g)' => Underway(g)'
                    /\ \A g, h \in Handlers :
                           (Adding(g)' /\ Adding(h)' /\ task'[g].read.id = task'[h].read.id) => g = h
                    /\ \A f \in Firms : firms'[f] # None => Cared(f)'
  BY DEF FirmInv
<1>1. /\ SeedStage
      /\ \A row \in creds : row.tenant \in Firms => firms[row.tenant] # None
      /\ \A h \in Handlers : Adding(h) => Underway(h)
      /\ \A g, h \in Handlers : (Adding(g) /\ Adding(h) /\ task[g].read.id = task[h].read.id) => g = h
      /\ \A f \in Firms : firms[f] # None => Cared(f)
  BY DEF FirmInv, Operating
<1>2. UsersStay
  BY UserAdded
<1>3. \A f : (Keyed(f) => Keyed(f)') /\ (Settled(f) => Settled(f)')
  BY <1>2, SettledStays
<1>4. \A g \in Handlers : /\ Adding(g)' <=> Adding(g)
                          /\ Adding(g) => task'[g] = task[g]
  BY DEF Adding
<1>5. SeedStage'
  BY <1>1, <1>3 DEF SeedStage, Empty, DemoDone, HasUser, Seeding
<1>6. \A g \in Handlers : Adding(g)' => Underway(g)'
  BY <1>1, <1>2, <1>4, UnderwayStays
<1>7. \A f \in Firms : firms'[f] # None => Cared(f)'
  BY <1>1, <1>3, <1>4 DEF Cared, Seeding
<1> QED
  BY <1>1, <1>4, <1>5, <1>6, <1>7

\* A route of the operator that adds a tenant, a key or a user: it works on one tenant,
\* and no other handler does.
LEMMA FirmRoute ==
    ASSUME TenantInv, FirmInv, faults = 0, Operating, boot.at = "up",
           UNCHANGED <<boot, demo, workload>>, UsersStay, KeysStay,
           NEW h \in Handlers, Only(h),
           \A f \in Firms : firms[f] # None => firms'[f] = firms[f],
           NEW u, \A row \in creds' : row \in creds \/ row.tenant = u,
           u \in Firms => firms'[u] # None,
           \A g \in Handlers \ {h} : Adding(g) => task[g].read.id # u,
           Adding(h)' => /\ Underway(h)'
                         /\ \A g \in Handlers \ {h} : Adding(g) => task[g].read.id # task'[h].read.id,
           \A f \in Firms : firms'[f] # None =>
               \/ firms[f] # None /\ ~(Adding(h) /\ task[h].read.id = f)
               \/ Settled(f)'
               \/ Adding(h)' /\ task'[h].read.id = f
    PROVE  FirmInv'
<1>0. TaskType /\ PlatformType
  BY DEF TenantInv
<1>1. /\ SeedStage
      /\ \A row \in creds : row.tenant \in Firms => firms[row.tenant] # None
      /\ \A g \in Handlers : Adding(g) => Underway(g)
      /\ \A g, k \in Handlers : (Adding(g) /\ Adding(k) /\ task[g].read.id = task[k].read.id) => g = k
      /\ \A f \in Firms : firms[f] # None => Cared(f)
  BY DEF FirmInv
<1>2. \A g \in Handlers \ {h} : /\ Adding(g)' <=> Adding(g)
                                /\ task'[g] = task[g]
  BY DEF Adding, Only
<1>3. SeedStage'
  <2>1. PICK f \in Firms : DemoDone(f)
    BY <1>1 DEF SeedStage
  <2>2. firms[f] # None
    BY <2>1 DEF DemoDone
  <2>3. DemoDone(f)'
    BY <2>1, <2>2, DemoStays
  <2> QED
    BY <2>3 DEF SeedStage, BeforeDemo, Seeding
<1>4. \A row \in creds' : row.tenant \in Firms => firms'[row.tenant] # None
  BY <1>1
<1>5. ASSUME NEW g \in Handlers \ {h}, Adding(g)
      PROVE  Underway(g)'
  <2>1. task[g].read.id \in Firms /\ Underway(g)
    BY <1>0, <1>1, <1>5 DEF TaskType, TaskOK, Adding
  <2>2. firms[task[g].read.id] # None
    BY <2>1 DEF Underway
  <2>3. \A row \in creds' : row \in creds \/ row.tenant # task[g].read.id
    BY <1>5
  <2> QED
    BY <1>2, <1>5, <2>1, <2>2, <2>3, UnderwayStays
<1>6. \A g \in Handlers : Adding(g)' => Underway(g)'
  BY <1>2, <1>5
<1>7. \A g, k \in Handlers : (Adding(g)' /\ Adding(k)' /\ task'[g].read.id = task'[k].read.id) => g = k
  BY <1>1, <1>2
<1>8. ASSUME NEW f \in Firms, firms'[f] # None
      PROVE  Cared(f)'
  <2>1. CASE firms[f] # None /\ ~(Adding(h) /\ task[h].read.id = f)
    <3>1. Settled(f) \/ \E g \in Handlers \ {h} : Adding(g) /\ task[g].read.id = f
      BY <1>1, <2>1 DEF Cared, Seeding
    <3>2. Settled(f) => Settled(f)'
      BY <2>1, SettledStays
    <3> QED
      BY <1>2, <3>1, <3>2 DEF Cared
  <2> QED
    BY <1>8, <2>1 DEF Cared
<1> QED
  BY <1>3, <1>4, <1>6, <1>7, <1>8 DEF FirmInv

\* The routes of the operator on tenants and users.
LEMMA FirmRoutes ==
    ASSUME TenantInv, FirmInv, [Next]_vars, NEW h \in Handlers, PlatformAction(h)
    PROVE  FirmInv'
<1>0. TaskType /\ PlatformType /\ ServedWhileUp /\ GatewayType /\ task[h] \in Task /\ TaskOK(task[h])
  BY DEF TenantInv, TaskType
<1>1. /\ Only(h) /\ UNCHANGED <<boot, workload>> /\ boot.at = "up" /\ KeysStay
      /\ UNCHANGED demo
  <2>1. UNCHANGED demo
    BY DEF PlatformAction, PlatformStep, AuthorizeOperator, PutTierLimits, ReloadTierLimits,
           CreateTenant, CreateFirstKey, CreateCredential, OnboardAdmin, PutUnconfirmed,
           platformVars
  <2> QED
    BY <1>0, <2>1, PlatformTasks, PlatformRoutes, RouteFrame, KeysAreKept, ActorsAt
    DEF RouteMove, ServedWhileUp
<1> SUFFICES ASSUME faults' = 0, Operating'
             PROVE  FirmInv'
  BY DEF FirmInv
<1>2. faults = 0 /\ ~Fault /\ Operating
  BY <1>1, NoFault DEF Operating
<1>3. /\ \A row \in creds : row.tenant \in Firms => firms[row.tenant] # None
      /\ \A g \in Handlers : Adding(g) => Underway(g) /\ task[g].read.id \in Firms
      /\ \A g, k \in Handlers : (Adding(g) /\ Adding(k) /\ task[g].read.id = task[k].read.id) => g = k
  BY <1>0, <1>2 DEF FirmInv, TaskType, TaskOK, Adding
<1>4. \A g \in Handlers : Adding(g) => firms[task[g].read.id] # None
  BY <1>3 DEF Underway
<1>5. None \notin Firms
  BY PlatformAssumption
<1>6. ASSUME NEW s \in HttpAnswers \ {"none"}, Respond(h, s), task[h].pc \notin {"idle", "auth"}
      PROVE  ~Adding(h)'
  BY <1>0, <1>6, RespondFacts, IdleFacts DEF Adding
<1>7. ASSUME ~Adding(h), ~Adding(h)', UNCHANGED <<firms, creds>>
      PROVE  FirmInv'
  <2>1. \A g \in Handlers : (Adding(g) \/ Adding(g)') => task'[g] = task[g]
    BY <1>1, <1>7 DEF Only
  <2> QED
    BY <1>1, <1>2, <1>7, <2>1, FirmElsewhere
<1>8. CASE AuthorizeOperator(h) \/ PutTierLimits(h) \/ ReloadTierLimits(h)
  <2>1. UNCHANGED <<firms, creds>> /\ task[h].pc \in {"auth", "serve", "reload"}
    BY <1>8 DEF AuthorizeOperator, PutTierLimits, ReloadTierLimits, Serving, platformVars
  <2>2. \/ \E step \in {"serve", "reload"} : Goto(h, step)
        \/ task[h].pc # "auth" /\ \E s \in HttpAnswers \ {"none"} : Respond(h, s)
    BY <1>8 DEF AuthorizeOperator, PutTierLimits, ReloadTierLimits, Serving, HttpAnswers
  <2>3. ASSUME NEW step \in {"serve", "reload"}, Goto(h, step)
        PROVE  ~Adding(h)'
    BY <1>0, <2>3, GotoFacts DEF Adding, HandlerSteps
  <2> QED
    BY <1>6, <1>7, <2>1, <2>2, <2>3 DEF Adding
<1>9. CASE CreateTenant(h)
  <2>0. task[h].pc = "serve" /\ task[h].req.op = "onboard" /\ task[h].req.arg \in Seq(Emails)
        /\ UNCHANGED creds
    BY <1>0, <1>9, BodyFacts DEF CreateTenant, Serving, TaskOK
  <2>1. CASE Respond(h, "400") /\ UNCHANGED firms
    BY <1>6, <1>7, <2>0, <2>1 DEF HttpAnswers, Adding
  <2>2. CASE /\ AddFirm(task[h].req.arg)
             /\ task' = [task EXCEPT ![h].pc = "add_key", ![h].read.id = NewFirm]
    <3> DEFINE f == NewFirm
    <3>1. /\ f \in Firms /\ firms[f] = None
          /\ firms'[f] # None /\ firms'[f].users = task[h].req.arg
          /\ \A g \in Firms \ {f} : firms'[g] = firms[g]
      BY <1>0, <2>0, <2>2, AddFirmFacts DEF PlatformType
    <3>2. task'[h].pc = "add_key" /\ task'[h].read.id = f /\ task'[h].req = task[h].req
      BY <1>0, <2>2 DEF TaskType, Task, Reading
    <3> HIDE DEF f
    <3>3. UsersStay
      BY <2>0, UserAdded
    <3>4. Adding(h)' /\ Underway(h)'
      BY <1>3, <2>0, <3>1, <3>2 DEF Adding, Underway
    <3>5. \A g \in Handlers \ {h} : Adding(g) => /\ task[g].read.id # None
                                                 /\ task[g].read.id # task'[h].read.id
      BY <1>3, <1>4, <1>5, <3>1, <3>2
    <3>6. ~Adding(h)
      BY <2>0 DEF Adding
    <3> QED
      BY <1>1, <1>2, <1>5, <2>0, <3>1, <3>2, <3>3, <3>4, <3>5, <3>6, FirmRoute
  <2> QED
    BY <1>9, <2>1, <2>2 DEF CreateTenant
<1>10. CASE CreateFirstKey(h)
  <2>0. PICK f : f = task[h].read.id
    OBVIOUS
  <2>1. /\ task[h].pc = "add_key" /\ AddKey(f) /\ UNCHANGED <<firms, creds>>
        /\ task' = [task EXCEPT ![h].pc = "add_user", ![h].read.was = task[h].req.arg]
    BY <1>10, <2>0 DEF CreateFirstKey, platformVars
  <2>2. task'[h].pc = "add_user" /\ task'[h].read.id = f /\ task'[h].read.was = task[h].req.arg
    BY <1>0, <2>0, <2>1 DEF TaskType, Task, Reading
  <2>3. Keyed(f)'
    BY <1>0, <2>1, KeyAdded
  <2>4. /\ firms[f] # None /\ task[h].req.arg = firms[f].users /\ f \in Firms
        /\ \A row \in creds : row.tenant # f
    BY <1>3, <2>0, <2>1 DEF Adding, Underway
  <2>5. UsersStay
    BY <2>1, UserAdded
  <2>6. \A e : ~HasUser(e, f)'
    BY <2>1, <2>4 DEF HasUser
  <2>7. PICK users : users = task[h].req.arg
    OBVIOUS
  <2>10. ToAdd(users, f)'
    BY <2>1, <2>4, <2>6, <2>7 DEF ToAdd
  <2>8. Adding(h)' /\ Underway(h)'
    BY <2>1, <2>2, <2>3, <2>4, <2>7, <2>10 DEF Adding, Underway
  <2>9. \A g \in Handlers \ {h} : Adding(g) => /\ task[g].read.id # None
                                               /\ task[g].read.id # task'[h].read.id
    BY <1>3, <1>5, <2>0, <2>1, <2>2 DEF Adding
  <2> QED
    BY <1>1, <1>2, <1>5, <2>0, <2>1, <2>2, <2>5, <2>8, <2>9, FirmRoute
<1>11. CASE OnboardAdmin(h)
  <2>1. task[h].pc = "serve" /\ UNCHANGED firms /\ \E s \in HttpAnswers \ {"none"} : Respond(h, s)
    BY <1>11 DEF OnboardAdmin, Serving, HttpAnswers
  <2>2. ~Adding(h) /\ ~Adding(h)'
    BY <1>6, <2>1 DEF Adding
  <2>3. UNCHANGED creds \/ (~EmailTaken(task[h].req.on) /\ AddUser(task[h].req.on, None))
    BY <1>11 DEF OnboardAdmin
  <2>4. UsersStay /\ \A row \in creds' : row \in creds \/ row.tenant = None
    BY <2>3, UserAdded
  <2>5. \A g \in Handlers \ {h} : Adding(g) => task[g].read.id # None
    BY <1>3, <1>5
  <2> QED
    BY <1>1, <1>2, <1>5, <2>1, <2>2, <2>4, <2>5, FirmRoute
<1>12. CASE CreateCredential(h)
  <2>a. PICK f : f = task[h].read.id
    OBVIOUS
  <2>b. PICK list : list = task[h].read.was
    OBVIOUS
  <2>c. PICK e : e = Head(list)
    OBVIOUS
  <2>1. task[h].pc = "add_user" /\ UNCHANGED firms
    BY <1>12 DEF CreateCredential
  <2>2. /\ f \in Firms /\ list \in Seq(Emails) /\ list # <<>>
        /\ Adding(h) /\ firms[f] # None /\ Keyed(f) /\ ToAdd(list, f)
    BY <1>0, <1>3, <2>1, <2>a, <2>b DEF Adding, Underway, TaskOK
  <2>3. /\ e \in ToSet(list) /\ ToSet(list) = {e} \cup ToSet(Tail(list))
        /\ Len(list) = 1 => ToSet(list) = {e}
        /\ IsInjective(list) => IsInjective(Tail(list)) /\ e \notin ToSet(Tail(list))
    BY <2>2, <2>c, ListFacts
  <2>4. CASE EmailTaken(e) /\ Respond(h, "500") /\ UNCHANGED creds
    <3>1. UsersStay
      BY <2>4, UserAdded
    <3>2. Settled(f)
      BY <2>2, <2>3, <2>4 DEF Settled, ToAdd
    <3>3. Settled(f)' /\ ~Adding(h)'
      BY <1>1, <1>6, <2>1, <2>4, <3>1, <3>2, SettledStays DEF HttpAnswers
    <3>4. \A g \in Handlers \ {h} : Adding(g) => task[g].read.id # None
      BY <1>3, <1>5
    <3> QED
      BY <1>1, <1>2, <1>5, <2>1, <2>4, <2>a, <3>1, <3>3, <3>4, FirmRoute
  <2>5. CASE /\ ~EmailTaken(e) /\ AddUser(e, f)
             /\ IF Len(list) = 1
                THEN Respond(h, "201")
                ELSE task' = [task EXCEPT ![h].read.was = Tail(list)]
    <3>1. /\ UsersStay /\ HasUser(e, f)'
          /\ \A x, g : HasUser(x, g)' => HasUser(x, g) \/ (x = e /\ g = f)
          /\ \A row \in creds' : row \in creds \/ row.tenant = f
      BY <2>5, UserAdded DEF AddUser, HasUser
    <3>2. Keyed(f)'
      BY <1>1, <2>1, <2>2, <3>1, SettledStays
    <3>3. \A g \in Handlers \ {h} : Adding(g) => task[g].read.id # f
      BY <1>3, <2>2, <2>a
    <3>4. CASE Len(list) = 1
      <4>1. \A x \in ToSet(firms[f].users) : HasUser(x, f)'
        BY <2>2, <2>3, <3>1, <3>4 DEF ToAdd, UsersStay
      <4>2. Settled(f)'
        BY <2>1, <3>2, <4>1 DEF Settled
      <4>3. ~Adding(h)'
        BY <1>6, <2>1, <2>5, <3>4 DEF HttpAnswers
      <4> QED
        BY <1>1, <1>2, <2>1, <2>2, <3>1, <3>3, <4>2, <4>3, <2>a, FirmRoute
    <3>5. CASE Len(list) # 1
      <4>1. task'[h].pc = "add_user" /\ task'[h].read.id = f /\ task'[h].read.was = Tail(list)
        <5>1. PICK rest : rest = Tail(list)
          OBVIOUS
        <5>2. task' = [task EXCEPT ![h].read.was = rest]
          BY <2>5, <3>5, <5>1
        <5> QED
          BY <1>0, <2>1, <2>a, <5>1, <5>2 DEF TaskType, Task, Reading
      <4>2. ToAdd(Tail(list), f)'
        <5>1. \A x \in ToSet(firms[f].users) : HasUser(x, f)' \/ x \in ToSet(Tail(list))
          BY <2>2, <2>3, <3>1 DEF ToAdd, UsersStay
        <5>2. ToSet(Tail(list)) \subseteq ToSet(firms[f].users)
          BY <2>2, <2>3 DEF ToAdd
        <5>3. ASSUME IsInjective(firms[f].users)
              PROVE  IsInjective(Tail(list)) /\ \A x \in ToSet(Tail(list)) : ~HasUser(x, f)'
          BY <2>2, <2>3, <3>1, <5>3 DEF ToAdd
        <5> QED
          BY <2>1, <5>1, <5>2, <5>3, <4>1 DEF ToAdd
      <4>3. Adding(h)' /\ Underway(h)'
        BY <2>1, <2>2, <3>2, <4>1, <4>2 DEF Adding, Underway
      <4> QED
        BY <1>1, <1>2, <2>1, <2>2, <3>1, <3>3, <4>1, <4>3, <2>a, FirmRoute
    <3> QED
      BY <3>4, <3>5
  <2> QED
    BY <1>12, <2>4, <2>5, <2>a, <2>b, <2>c DEF CreateCredential
<1> QED
  BY <1>2, <1>8, <1>9, <1>10, <1>11, <1>12
  DEF PlatformAction, PlatformStep, PutUnconfirmed, RouteCallFails

\* Start-up and a regular stop.
LEMMA FirmBoot ==
    ASSUME TenantInv, FirmInv, [Next]_vars, BootAction
    PROVE  FirmInv'
<1>0. PlatformType /\ ServedWhileUp /\ GatewayType /\ TaskType /\ PlatformType' /\ boot \in Booting
  BY TenantStep DEF TenantInv, PlatformType
<1>1. UNCHANGED <<task, workload>> /\ KeysStay
  BY <1>0, ElsewhereFrame, KeysAreKept
<1> SUFFICES ASSUME faults' = 0, Operating'
             PROVE  FirmInv'
  BY DEF FirmInv
<1>2. faults = 0 /\ ~Fault /\ Operating
  BY <1>1, NoFault DEF Operating
<1>3. /\ SeedStage
      /\ \A row \in creds : row.tenant \in Firms => firms[row.tenant] # None
      /\ \A f \in Firms : firms[f] # None => Cared(f)
  BY <1>2 DEF FirmInv
<1>4. \A g \in Handlers : ~Adding(g) /\ ~Adding(g)'
  <2>1. boot.at # "up" \/ \A h \in Handlers : ~Busy(h)
    BY DEF BootAction, Boot, Start, Migrate, RecordMigration, LoadSettings, SeedAdmin,
           SeedTenant, SeedKey, SeedDemoUser, SeedCustomer, Stop, BootCallFails
  <2> QED
    BY <1>0, <1>1, <2>1 DEF ServedWhileUp, Busy, Adding
<1>5. ASSUME SeedStage', \A row \in creds' : row.tenant \in Firms => firms'[row.tenant] # None,
             \A f \in Firms : firms'[f] # None => Settled(f)' \/ (Seeding' /\ f = boot'.firm)
      PROVE  FirmInv'
  BY <1>4, <1>5 DEF FirmInv, Cared
<1>6. \A f \in Firms : firms[f] # None => Settled(f) \/ (Seeding /\ f = boot.firm)
  BY <1>3, <1>4 DEF Cared
<1>7. None \notin Firms /\ Admin \notin ToSet(DemoUsers)
  <2>1. DemoUsers \in Seq(Emails \ {Admin})
    BY PlatformAssumption
  <2>2. \A i \in DOMAIN DemoUsers : DemoUsers[i] # Admin
    BY <2>1
  <2> QED
    BY <2>2, PlatformAssumption DEF ToSet
<1>8. Seeding => boot.firm \in Firms
  BY <1>0 DEF Seeding, PlatformType
<1>9. CASE Start \/ Stop \/ Migrate \/ RecordMigration \/ LoadSettings
  <2>1. UNCHANGED <<firms, creds, demo>>
    BY <1>9 DEF Start, Stop, Migrate, RecordMigration, LoadSettings
  <2>2. boot.at \in BeforeDemo \cup {"up"} /\ boot'.at \in BeforeDemo
    <3>1. CASE Start \/ Stop
      BY <3>1, AtFacts DEF Start, Stop, Running, BeforeDemo, BootSteps
    <3>2. CASE Migrate \/ RecordMigration \/ LoadSettings
      <4>1. \E step \in {"limits", "record", "refused", "migrate", "admin"} : BootTo(step)
        BY <3>2 DEF Migrate, RecordMigration, LoadSettings
      <4>2. boot'.at \in {"limits", "record", "refused", "migrate", "admin"}
        BY <1>0, <4>1, BootToFacts DEF BootSteps
      <4> QED
        BY <3>2, <4>2 DEF Migrate, RecordMigration, LoadSettings, BeforeDemo
    <3> QED
      BY <1>9, <3>1, <3>2
  <2>3. UsersStay
    BY <2>1, UserAdded
  <2>4. SeedStage'
    <3>1. Empty \/ \E f \in Firms : DemoDone(f)
      BY <1>3, <2>2 DEF SeedStage
    <3>2. Empty => Empty'
      BY <2>1 DEF Empty
    <3>3. \A f \in Firms : DemoDone(f) => DemoDone(f)'
      BY <2>1, <2>3, DemoStays
    <3> QED
      BY <2>2, <3>1, <3>2, <3>3 DEF SeedStage, Seeding, BeforeDemo
  <2>5. \A f \in Firms : firms'[f] # None => Settled(f)'
    BY <1>1, <1>6, <2>1, <2>2, <2>3, SettledStays DEF Seeding, BeforeDemo
  <2> QED
    BY <1>3, <1>5, <2>1, <2>4, <2>5
<1>10. CASE SeedAdmin
  <2>1. UNCHANGED <<firms, demo>> /\ boot.at = "admin" /\ SeedUser(Admin, None)
    BY <1>10 DEF SeedAdmin
  <2>2. boot'.at = "demo"
    BY <1>0, <1>10, BootToFacts DEF SeedAdmin, BootSteps
  <2>3. UNCHANGED creds \/ (~EmailTaken(Admin) /\ AddUser(Admin, None))
    BY <2>1 DEF SeedUser
  <2>4. UsersStay /\ \A row \in creds' : row \in creds \/ row.tenant = None
    BY <2>3, UserAdded
  <2>5. SeedStage'
    <3>1. Empty \/ \E f \in Firms : DemoDone(f)
      BY <1>3, <2>1 DEF SeedStage, BeforeDemo
    <3>2. Empty => Empty'
      BY <2>1, <2>3 DEF Empty, AddUser
    <3>3. \A f \in Firms : DemoDone(f) => DemoDone(f)'
      BY <2>1, <2>4, DemoStays
    <3> QED
      BY <2>2, <3>1, <3>2, <3>3 DEF SeedStage, Seeding, BeforeDemo
  <2>6. \A f \in Firms : firms'[f] # None => Settled(f)'
    BY <1>1, <1>6, <2>1, <2>4, SettledStays DEF Seeding
  <2>7. \A row \in creds' : row.tenant \in Firms => firms'[row.tenant] # None
    BY <1>3, <1>7, <2>1, <2>4
  <2> QED
    BY <1>5, <2>5, <2>6, <2>7
<1>11. CASE SeedTenant
  <2>0. UNCHANGED <<creds, demo>> /\ boot.at = "demo"
    BY <1>11 DEF SeedTenant
  <2>1. UsersStay
    BY <2>0, UserAdded
  <2>2. Head(DemoUsers) \in ToSet(DemoUsers)
    BY SeedLists, ListFacts
  <2>3. Empty \/ \E f \in Firms : DemoDone(f)
    BY <1>3, <2>0 DEF SeedStage, BeforeDemo
  <2>4. CASE DemoExists /\ BootTo("up") /\ UNCHANGED firms
    <3>1. boot'.at = "up"
      BY <1>0, <2>4, BootToFacts DEF BootSteps
    <3>2. PICK f \in Firms : DemoDone(f)
      BY <1>7, <2>2, <2>3, <2>4 DEF DemoExists, EmailTaken, Empty
    <3>3. DemoDone(f)'
      BY <2>0, <2>1, <2>4, <3>2, DemoStays
    <3>4. SeedStage'
      BY <3>1, <3>3 DEF SeedStage, Seeding, BeforeDemo
    <3>5. \A g \in Firms : firms'[g] # None => Settled(g)'
      BY <1>1, <1>6, <2>0, <2>1, <2>4, SettledStays DEF Seeding
    <3> QED
      BY <1>3, <1>5, <2>0, <2>4, <3>4, <3>5
  <2>5. CASE /\ ~DemoExists /\ AddFirm(DemoUsers)
             /\ boot' = [boot EXCEPT !.at = "demo_key", !.firm = NewFirm]
    <3>1. /\ NewFirm \in Firms /\ firms'[NewFirm] # None /\ firms'[NewFirm].users = DemoUsers
          /\ \A f \in Firms \ {NewFirm} : firms'[f] = firms[f]
      BY <1>0, <2>5, SeedLists, AddFirmFacts DEF PlatformType
    <3>2. boot'.at = "demo_key" /\ boot'.firm = NewFirm
      BY <1>0, <2>5 DEF Booting
    <3>3. Empty
      BY <2>2, <2>3, <2>5 DEF DemoExists, EmailTaken, DemoDone, HasUser
    <3>4. \A row \in creds : row.email = Admin /\ row.tenant = None
      BY <3>3 DEF Empty
    <3>5. SeedStage'
      BY <2>0, <3>1, <3>2, <3>3, <3>4 DEF SeedStage, Seeding, BeforeDemo, Empty
    <3>6. \A f \in Firms : firms'[f] # None => f = NewFirm
      BY <3>1, <3>3 DEF Empty
    <3> QED
      BY <1>5, <1>7, <2>0, <3>2, <3>4, <3>5, <3>6 DEF Seeding
  <2> QED
    BY <1>11, <2>4, <2>5 DEF SeedTenant
<1>12. CASE SeedKey
  <2>0. UNCHANGED <<firms, creds, demo>> /\ boot.at = "demo_key" /\ AddKey(boot.firm)
    BY <1>12 DEF SeedKey
  <2>1. boot'.at = "demo_users" /\ boot'.firm = boot.firm /\ boot'.left = DemoUsers
    BY <1>0, <1>12 DEF SeedKey, Booting
  <2>2. \E f : f = boot.firm /\ Keyed(f)'
    BY <1>0, <2>0, KeyAdded
  <2>3. Keyed(boot.firm)'
    BY <2>1, <2>2 DEF Keyed
  <2>4. SeedStage'
    BY <1>3, <2>0, <2>1, <2>3 DEF SeedStage, Seeding, BeforeDemo
  <2>5. \A f \in Firms : firms'[f] # None => f = boot'.firm
    BY <1>3, <2>0, <2>1 DEF SeedStage, Seeding
  <2> QED
    BY <1>3, <1>5, <2>0, <2>1, <2>4, <2>5 DEF Seeding
<1>13. CASE SeedDemoUser
  <2>a. PICK f : f = boot.firm
    OBVIOUS
  <2>b. PICK list : list = boot.left
    OBVIOUS
  <2>c. PICK e : e = Head(list)
    OBVIOUS
  <2>0. UNCHANGED <<firms, demo>> /\ boot.at = "demo_users" /\ SeedUser(e, f)
        /\ SeedNext("demo_customers", DemoCustomers)
    BY <1>13, <2>a, <2>b, <2>c DEF SeedDemoUser
  <2>1. f \in Firms /\ list \in Seq(Emails) /\ list # <<>>
    BY <1>0, <2>0, <2>a, <2>b DEF PlatformType
  <2>2. /\ boot'.firm = f
        /\ \/ boot'.at = "demo_users" /\ boot'.left = Tail(list)
           \/ boot'.at = "demo_customers" /\ boot'.left = DemoCustomers /\ Len(list) = 1
    BY <1>0, <2>0, <2>1, <2>a, <2>b, SeedNextFacts, SeedLists DEF BootSteps
  <2>3. /\ e \in ToSet(list) /\ ToSet(list) = {e} \cup ToSet(Tail(list))
        /\ Len(list) = 1 => ToSet(list) = {e}
    BY <2>1, <2>c, ListFacts
  <2>4. /\ firms[f] # None /\ firms[f].users = DemoUsers
        /\ \A g \in Firms \ {f} : firms[g] = None
        /\ \A row \in creds : (row.email = Admin /\ row.tenant = None) \/ row.tenant = f
        /\ demo \subseteq {f} \X ToSet(DemoCustomers)
        /\ Keyed(f)
        /\ ToSet(list) \subseteq ToSet(DemoUsers)
        /\ \A x \in ToSet(DemoUsers) : HasUser(x, f) \/ x \in ToSet(list)
    BY <1>3, <2>0, <2>a, <2>b DEF SeedStage, Seeding
  <2>5. UNCHANGED creds \/ (~EmailTaken(e) /\ AddUser(e, f))
    BY <2>0 DEF SeedUser
  <2>6. UsersStay /\ \A row \in creds' : row \in creds \/ row.tenant = f
    BY <2>5, UserAdded
  <2>7. HasUser(e, f)'
    <3>1. CASE EmailTaken(e)
      <4>1. PICK row \in creds : row.email = e
        BY <3>1 DEF EmailTaken
      <4>2. e # Admin
        BY <1>7, <2>3, <2>4
      <4>3. row.tenant = f /\ row \in Credential
        BY <1>0, <2>4, <4>1, <4>2 DEF PlatformType
      <4>4. row = [email |-> e, tenant |-> f]
        BY <4>1, <4>3 DEF Credential
      <4>5. UNCHANGED creds
        BY <2>5, <3>1
      <4> QED
        BY <4>4, <4>5 DEF HasUser
    <3>2. CASE ~EmailTaken(e)
      BY <2>0, <3>2 DEF SeedUser, AddUser, HasUser
    <3> QED
      BY <3>1, <3>2
  <2>8. Keyed(f)'
    BY <1>1, <2>0, <2>4, <2>6, SettledStays
  <2>9. \A x \in ToSet(DemoUsers) : HasUser(x, f)' \/ (x \in ToSet(list) /\ x # e)
    BY <2>4, <2>6, <2>7 DEF UsersStay
  <2>10. \A row \in creds' : (row.email = Admin /\ row.tenant = None) \/ row.tenant = f
    BY <2>4, <2>6
  <2>11. Keyed(boot.firm)' /\ \A x : HasUser(x, f)' <=> HasUser(x, boot.firm)'
    BY <2>2, <2>8 DEF Keyed, HasUser
  <2>12. CASE boot'.at = "demo_users" /\ boot'.left = Tail(list)
    <3>1. ToSet(boot'.left) \subseteq ToSet(DemoUsers)
      BY <2>3, <2>4, <2>12
    <3>2. \A x \in ToSet(DemoUsers) : HasUser(x, boot.firm)' \/ x \in ToSet(boot'.left)
      BY <2>3, <2>9, <2>11, <2>12
    <3>3. SeedStage'
      BY <2>0, <2>2, <2>4, <2>10, <2>11, <2>12, <3>1, <3>2 DEF SeedStage, Seeding, BeforeDemo
    <3> QED
      BY <1>5, <1>7, <2>0, <2>2, <2>4, <2>10, <2>12, <3>3 DEF Seeding
  <2>13. CASE boot'.at = "demo_customers" /\ boot'.left = DemoCustomers /\ Len(list) = 1
    <3>1. \A x \in ToSet(DemoUsers) : HasUser(x, boot.firm)'
      BY <2>3, <2>9, <2>11, <2>13
    <3>2. SeedStage'
      BY <2>0, <2>2, <2>4, <2>10, <2>11, <2>13, <3>1 DEF SeedStage, Seeding, BeforeDemo
    <3> QED
      BY <1>5, <1>7, <2>0, <2>2, <2>4, <2>10, <2>13, <3>2 DEF Seeding
  <2> QED
    BY <2>2, <2>12, <2>13
<1>14. CASE SeedCustomer
  <2>a. PICK f : f = boot.firm
    OBVIOUS
  <2>b. PICK list : list = boot.left
    OBVIOUS
  <2>c. PICK c : c = Head(list)
    OBVIOUS
  <2>0. UNCHANGED <<firms, creds>> /\ boot.at = "demo_customers" /\ demo' = demo \cup {<<f, c>>}
        /\ SeedNext("up", <<>>)
    BY <1>14, <2>a, <2>b, <2>c DEF SeedCustomer
  <2>1. f \in Firms /\ list \in Seq(ToSet(DemoCustomers)) /\ list # <<>>
    BY <1>0, <2>0, <2>a, <2>b DEF PlatformType
  <2>2. \/ /\ boot'.at = "demo_customers" /\ boot'.left = Tail(list) /\ boot'.firm = f
        \/ boot'.at = "up" /\ Len(list) = 1
    BY <1>0, <2>0, <2>1, <2>a, <2>b, SeedNextFacts, SeedLists DEF BootSteps
  <2>3. /\ c \in ToSet(list) /\ ToSet(list) = {c} \cup ToSet(Tail(list))
        /\ Len(list) = 1 => ToSet(list) = {c}
    BY <2>1, <2>c, ListFacts
  <2>4. /\ firms[f] # None /\ firms[f].users = DemoUsers
        /\ \A g \in Firms \ {f} : firms[g] = None
        /\ \A row \in creds : (row.email = Admin /\ row.tenant = None) \/ row.tenant = f
        /\ demo \subseteq {f} \X ToSet(DemoCustomers)
        /\ Keyed(f)
        /\ \A x \in ToSet(DemoUsers) : HasUser(x, f)
        /\ ToSet(list) \subseteq ToSet(DemoCustomers)
        /\ \A x \in ToSet(DemoCustomers) : <<f, x>> \in demo \/ x \in ToSet(list)
    BY <1>3, <2>0, <2>a, <2>b DEF SeedStage, Seeding
  <2>5. UsersStay
    BY <2>0, UserAdded
  <2>6. Keyed(f)' /\ \A x \in ToSet(DemoUsers) : HasUser(x, f)'
    BY <1>1, <2>0, <2>4, <2>5, SettledStays DEF UsersStay
  <2>7. demo' \subseteq {f} \X ToSet(DemoCustomers)
    BY <2>0, <2>3, <2>4
  <2>8. \A x \in ToSet(DemoCustomers) : <<f, x>> \in demo' \/ (x \in ToSet(list) /\ x # c)
    BY <2>0, <2>4
  <2>9. CASE boot'.at = "demo_customers" /\ boot'.left = Tail(list) /\ boot'.firm = f
    <3>1. Keyed(boot.firm)' /\ \A x \in ToSet(DemoUsers) : HasUser(x, boot.firm)'
      BY <2>6, <2>9 DEF Keyed, HasUser
    <3>2. /\ ToSet(boot'.left) \subseteq ToSet(DemoCustomers)
          /\ \A x \in ToSet(DemoCustomers) : <<boot'.firm, x>> \in demo' \/ x \in ToSet(boot'.left)
      BY <2>3, <2>4, <2>8, <2>9
    <3>3. SeedStage'
      BY <2>0, <2>4, <2>7, <2>9, <3>1, <3>2 DEF SeedStage, Seeding, BeforeDemo
    <3> QED
      BY <1>3, <1>5, <2>0, <2>4, <2>9, <3>3 DEF Seeding
  <2>10. CASE boot'.at = "up" /\ Len(list) = 1
    <3>1. demo' = {f} \X ToSet(DemoCustomers)
      BY <2>3, <2>7, <2>8, <2>10
    <3>2. DemoDone(f)'
      BY <2>0, <2>4, <2>6, <3>1 DEF DemoDone
    <3>3. SeedStage'
      BY <2>1, <2>10, <3>2 DEF SeedStage, Seeding, BeforeDemo
    <3>4. Settled(f)'
      BY <2>0, <2>4, <2>6 DEF Settled
    <3>5. \A g \in Firms : firms'[g] # None => Settled(g)'
      BY <2>0, <2>4, <3>4
    <3> QED
      BY <1>3, <1>5, <2>0, <3>3, <3>5
  <2> QED
    BY <2>2, <2>9, <2>10
<1> QED
  BY <1>2, <1>9, <1>10, <1>11, <1>12, <1>13, <1>14 DEF BootAction, Boot, BootCallFails

\* Every step takes care of the tenants.
LEMMA FirmStep ==
    ASSUME TenantInv, FirmInv, [Next]_vars
    PROVE  FirmInv'
<1>0. TaskType /\ GatewayType /\ AccountInv /\ RelayInv /\ FirmInv /\ KeysStay
  BY KeysAreKept DEF TenantInv
<1>1. faults' = 0 => faults = 0
  BY NoFault
<1>2. ASSUME NEW h \in Handlers, UNCHANGED platformVars, UNCHANGED workload, Only(h),
             ~Adding(h), ~Adding(h)'
      PROVE  FirmInv'
  <2>1. \A g \in Handlers : (Adding(g) \/ Adding(g)') => task'[g] = task[g]
    BY <1>2 DEF Only
  <2>2. UNCHANGED <<firms, creds, demo, boot>>
    BY <1>2 DEF platformVars
  <2> QED
    BY <1>0, <1>1, <1>2, <2>1, <2>2, FirmElsewhere
<1>3. ASSUME UNCHANGED platformVars, UNCHANGED <<workload, task>>
      PROVE  FirmInv'
  <2>1. UNCHANGED <<firms, creds, demo, boot>>
    BY <1>3 DEF platformVars
  <2> QED
    BY <1>0, <1>1, <1>3, <2>1, FirmElsewhere
<1>4. ASSUME NEW h \in Handlers, GatewayAction(h), UNCHANGED platformVars
      PROVE  FirmInv'
  <2>1. Only(h) /\ ~Adding(h) /\ ~Adding(h)'
    BY <1>0, <1>4, GatewayTasks, ActorsAt DEF Adding
  <2>2. UNCHANGED workload
    BY <1>4 DEF GatewayAction, GatewayStep, Accept, Authenticate, LookUp, MarkInFlight,
       StoreResponse, CreateAPIKey, RevokeAPIKey, MiddlewareCallFails, MarkUnconfirmed,
       RouteCallFails
  <2> QED
    BY <1>2, <1>4, <2>1, <2>2
<1>5. ASSUME NEW h \in Handlers, CustomerAction(h) \/ VAAction(h) \/ RelayAction(h),
             UNCHANGED platformVars
      PROVE  FirmInv'
  <2>1. \E steps \in SUBSET {"insert", "tier", "find", "bank", "write", "audit", "owner", "replay"} :
            RouteMove(h, steps)
    BY <1>0, <1>5, CustomerTasks, VATasks, RelayTasks
    DEF AccountInv, AccountTables, RelayInv, RelayTables
  <2>2. Only(h) /\ ~Adding(h)'
    BY <2>1, IdleFacts DEF RouteMove, Adding
  <2>3. ~Adding(h) /\ UNCHANGED workload
    BY <1>5, ActorsAt, RouteFrame DEF Adding
  <2> QED
    BY <1>2, <1>5, <2>2, <2>3
<1>6. CASE Crash
  <2>1. faults' # 0
    BY <1>6, NoFault DEF Crash
  <2> QED
    BY <2>1 DEF FirmInv
<1>7. RedisStep => UNCHANGED <<task, workload>>
  BY DEF RedisStep, LapseMark, ExpireAnswer
<1> QED
  BY <1>3, <1>4, <1>5, <1>6, <1>7, FirmRoutes, FirmBoot, StepKinds, ElsewhereFrame
  DEF vars, gatewayVars

\* TenantsComplete: without a failed call the demo data is there once the server is up,
\* however often it is started, and a tenant that was onboarded has its key and its
\* users, unless the list names one twice or one another tenant has.
THEOREM TenantsAreComplete == Spec => []TenantsComplete
<1>1. Init => FirmInv
  <2> SUFFICES ASSUME Init, Operating
               PROVE  FirmInv
    BY DEF FirmInv
  <2>1. /\ \A f \in Firms : firms[f] = None
        /\ creds = {} /\ demo = {} /\ boot = At("down")
    BY DEF Init, PlatformInit
  <2>2. boot.at = "down"
    BY <2>1 DEF At
  <2>3. \A h \in Handlers : ~Adding(h)
    BY IdleFacts DEF Init, GatewayInit, Adding
  <2>4. SeedStage
    BY <2>1, <2>2 DEF SeedStage, Seeding, BeforeDemo, Empty
  <2> QED
    BY <2>1, <2>3, <2>4 DEF FirmInv
<1>2. TenantInv /\ FirmInv /\ [Next]_vars => FirmInv'
  BY FirmStep
<1>3. FirmInv => TenantsComplete
  <2> SUFFICES ASSUME FirmInv, faults = 0, Running, Operating,
                      \A h \in Handlers : task[h].pc \notin {"add_key", "add_user"}
               PROVE  /\ \E f \in Firms : DemoDone(f)
                      /\ \A f \in Firms : firms[f] # None => Settled(f)
    BY DEF TenantsComplete, DemoDone, Settled, HasUser, Keyed
  <2> QED
    BY DEF FirmInv, SeedStage, Cared, Seeding, Adding, Running
<1> QED
  BY <1>1, <1>2, <1>3, TenantInvariant, PTL DEF Spec
=============================================================================
