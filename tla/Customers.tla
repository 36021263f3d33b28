------------------------------ MODULE Customers ------------------------------
(***************************************************************************)
(* Customers and their identities: CustomerService (service/customer.go),  *)
(* its routes and the customer repository, and the audit log.              *)
(*                                                                         *)
(*   create   serve -> insert -> audit                                     *)
(*   tier     serve -> tier   -> audit                                     *)
(***************************************************************************)
EXTENDS Gateway

CONSTANTS
    Customers,    \* customer ids, registered or still to be
    ExternalRefs, \* values of customers.external_ref
    Registered    \* the rows of customers and identities at the start

Tiers == 1..3

\* A row of customers with its row of identities; None before it is inserted.
Row == [tenant: Tenants, ref: ExternalRefs, tier: Tiers]

ASSUME CustomersAssumption ==
    /\ Registered \in [Customers -> Row \cup {None}]
    /\ None \notin Row
    /\ \A load \in Workloads : \A r \in load :
           /\ r.op \in {"create_customer", "kyc_tier_change"} =>
                  r.arg \in [identity: BOOLEAN, tier: Nat]
           /\ r.op = "create_customer" => r.on \in ExternalRefs
           /\ r.op = "kyc_tier_change" => r.on \in Customers

VARIABLES
    customers,  \* customers[c]: the row of customer c
    audit,      \* what audit_log says: a set of <<entity, state it was given>>
    newest      \* the entries of audit that no later one of their entity follows;
                \* a rename, which gives no state, follows none

\* The audit log at the start tells of the rows at the start.
CustomersInit ==
    /\ customers = Registered
    /\ audit = {<<c, Registered[c].tier>> : c \in {d \in Customers : Registered[d] # None}}
    /\ newest = audit

customerVars == <<customers, audit, newest>>

-----------------------------------------------------------------------------
\* Mutant of GetCustomer: GetCustomerByID, without the tenant.
GetCustomerByID(tenant, c) == customers[c]

GetCustomer(tenant, c) ==
    IF customers[c] # None /\ customers[c].tenant = tenant THEN customers[c] ELSE None

Named(tenant, ref) ==
    {c \in Customers : customers[c] # None /\ customers[c].tenant = tenant
                                           /\ customers[c].ref = ref}

\* IdentityInput.Validate: a BVN or a NIN, and a tier there is.
Validate(input) == input.identity /\ input.tier \in Tiers

Read(h, step, id, was) ==
    task' = [task EXCEPT ![h].pc = step, ![h].read = [id |-> id, was |-> was]]

\* What the route answers once it has written.
Answer(op) ==
    CASE op \in {"create_customer", "provision_va"} -> "201"
      [] op \in {"kyc_tier_change", "rename_va"} -> "200"
      [] OTHER -> "204"

-----------------------------------------------------------------------------
(* POST /v1/customers.                                                     *)

\* An external_ref that is taken is answered with its customer, and 201.
CreateCustomer(h) ==
    LET r == task[h].req
    IN  /\ Serving(h, "create_customer")
        /\ CASE ~Validate(r.arg) -> Respond(h, "422")
             [] Validate(r.arg) /\ Named(task[h].tenant, r.on) # {} -> Respond(h, "201")
             [] OTHER -> Goto(h, "insert")
        /\ UNCHANGED <<issued, redis, workload, executed, lapsed, faults, customerVars>>

\* UNIQUE (tenant_id, external_ref).
Taken(tenant, ref) == Named(tenant, ref) # {}

UnusedCustomers == {c \in Customers : customers[c] = None}

NewCustomer == Fresh(UnusedCustomers)

Insert(h) ==
    /\ UnusedCustomers # {}
    /\ customers' = [customers EXCEPT ![NewCustomer] =
                        [tenant |-> task[h].tenant, ref |-> task[h].req.on,
                         tier |-> task[h].req.arg.tier]]

\* Both rows in one database transaction; the loser of a race gets a 500.
InsertCustomer(h) ==
    /\ task[h].pc = "insert"
    /\ IF Taken(task[h].tenant, task[h].req.on)
       THEN Respond(h, "500") /\ UNCHANGED customers
       ELSE Insert(h) /\ Read(h, "audit", NewCustomer, task[h].req.arg.tier)
    /\ UNCHANGED <<issued, redis, workload, executed, lapsed, faults, audit, newest>>

-----------------------------------------------------------------------------
(* PATCH /v1/customers/{customerID}/identity.                              *)

UpdateKYCTier(h) ==
    LET r == task[h].req
        row == GetCustomer(task[h].tenant, r.on)
    IN  /\ Serving(h, "kyc_tier_change")
        /\ CASE r.arg.tier \notin Tiers -> Respond(h, "422")
             [] r.arg.tier \in Tiers /\ row = None -> Respond(h, "404")
             [] OTHER -> Read(h, "tier", r.on, row.tier)
        /\ UNCHANGED <<issued, redis, workload, executed, lapsed, faults, customerVars>>

WriteTier(h) ==
    /\ task[h].pc = "tier"
    /\ customers' = [customers EXCEPT ![task[h].req.on].tier = task[h].req.arg.tier]
    /\ Goto(h, "audit")
    /\ UNCHANGED <<issued, redis, workload, executed, lapsed, faults, audit, newest>>

-----------------------------------------------------------------------------
\* What the entry says has become of the entity.
Outcome(req) ==
    CASE req.op \in {"create_customer", "kyc_tier_change"} -> req.arg.tier
      [] req.op = "rename_va" -> req.arg
      [] req.op \in {"provision_va", "unsuspend_va"} -> "ACTIVE"
      [] req.op = "suspend_va" -> "SUSPENDED"
      [] req.op = "close_va" -> "CLOSED"

\* Mutant of Appended: an entry that is in the log already is not appended again.
AppendedOnce(req, entry) ==
    IF entry \in audit THEN newest ELSE {e \in newest : e[1] # entry[1]} \cup {entry}

\* The newest entries once this one is appended.
Appended(req, entry) ==
    IF req.op = "rename_va" THEN newest ELSE {e \in newest : e[1] # entry[1]} \cup {entry}

\* AuditStore.Append, whose error every route ignores.
AppendAudit(h) ==
    LET entry == <<task[h].read.id, Outcome(task[h].req)>>
    IN  /\ task[h].pc = "audit"
        /\ audit' = audit \cup {entry}
        /\ newest' = Appended(task[h].req, entry)
        /\ Respond(h, Answer(task[h].req.op))
        /\ UNCHANGED <<issued, redis, workload, executed, lapsed, faults, customers>>

AppendAuditFails(h) ==
    /\ Fault
    /\ task[h].pc = "audit"
    /\ Respond(h, Answer(task[h].req.op))
    /\ UNCHANGED <<issued, redis, workload, executed, lapsed, customerVars>>

\* The rows are there, the caller sees an error: no entry, and a 500.
InsertUnconfirmed(h) ==
    /\ Fault
    /\ task[h].pc = "insert"
    /\ ~Taken(task[h].tenant, task[h].req.on)
    /\ Insert(h)
    /\ Respond(h, "500")
    /\ UNCHANGED <<issued, redis, workload, executed, lapsed, audit, newest>>

CustomerStep(h) ==
    \/ CreateCustomer(h)
    \/ InsertCustomer(h)
    \/ UpdateKYCTier(h)
    \/ WriteTier(h)
    \/ AppendAudit(h)

CustomerFault ==
    \E h \in Handlers :
        \/ AppendAuditFails(h)
        \/ InsertUnconfirmed(h)
        \/ RouteCallFails(h, {"insert", "tier"}) /\ UNCHANGED customerVars

-----------------------------------------------------------------------------
\* The entry of a route that has written and not yet reported.
Reporting(id) == \E h \in Handlers : task[h].pc = "audit" /\ task[h].read.id = id
=============================================================================
