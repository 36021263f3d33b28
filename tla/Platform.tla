------------------------------ MODULE Platform ------------------------------
(***************************************************************************)
(* The operator's side of the server: start-up (cmd/server/main.go), the   *)
(* demo accounts (cmd/server/seed.go), the tier limits with their cache in *)
(* the process (handlers/settings.go) and onboarding (handlers/auth.go).   *)
(*                                                                         *)
(*   down -> migrate <-> record -> limits -> demo -> ... -> up             *)
(*                                                                         *)
(* The routes of the operator go through SweepTokenAuth instead of Auth    *)
(* and Idempotency; their requests have no API key.  A route is several    *)
(* statements without a transaction: put_limits stores and reloads, and    *)
(* onboard inserts a tenant, a key and one user after the other.           *)
(***************************************************************************)
EXTENDS Gateway, Sequences, SequencesExt

CONSTANTS
    Firms,         \* ids of the tenants that are onboarded or seeded
    Migrations,    \* number of files in store/migrations
    Limits,        \* values of the setting tier_limits that can be parsed
    Malformed,     \* values with a key that is not an integer
    DefaultLimits, \* config.DefaultTierLimitsJSON
    Emails,
    Admin,         \* operator@systyn.io
    DemoUsers,     \* ada@acme.io, then bisi@acme.io
    DemoCustomers

OperatorOps == {"put_limits", "onboard", "onboard_admin"}

\* A row of tenants, with the users it is meant for.
Firm == [users: Seq(Emails)]

ASSUME PlatformAssumption ==
    /\ Firms \cap Tenants = {}
    /\ Migrations \in Nat
    /\ DefaultLimits \in Limits
    /\ None \notin Limits \cup Malformed \cup Firms \cup Emails \cup Firm
    /\ Admin \in Emails
    /\ DemoUsers \in Seq(Emails \ {Admin}) /\ Len(DemoUsers) > 0
    /\ DemoCustomers \in Seq(ToSet(DemoCustomers)) /\ Len(DemoCustomers) > 0
    /\ \A load \in Workloads : \A r \in load :
           /\ r.op \in OperatorOps <=> r.key = None
           /\ r.op \in OperatorOps => r.idem = None
           /\ r.op = "put_limits" => r.arg \in Limits \cup Malformed \cup {None}
           /\ r.op = "onboard" => r.arg \in Seq(Emails)
           /\ r.op = "onboard_admin" => r.on \in Emails

VARIABLES
    boot,       \* how far the process is, and the tenant it is seeding
    schema,     \* migrations applied, and recorded in schema_migrations
    setting,    \* settings.tier_limits, None before the first start
    cache,      \* TierLimitsCache.limits, None before Load
    disturbed,  \* history: the last PUT overlapped another or went unanswered
    firms,      \* rows of tenants, None before they are inserted
    creds,      \* user_credentials: email and tenant, None for an admin
    demo        \* the customers seeding has created, by tenant

platformVars == <<boot, schema, setting, cache, disturbed, firms, creds, demo>>

\* Behaviours with an operator start with an empty database; in the others the
\* platform is in place.
Operating == \E r \in workload : r.op \in OperatorOps

At(step) == [at |-> step, firm |-> None, left |-> <<>>]

PlatformInit ==
    /\ boot = At(IF Operating THEN "down" ELSE "up")
    /\ schema = IF Operating THEN [applied |-> 0, recorded |-> 0]
                             ELSE [applied |-> Migrations, recorded |-> Migrations]
    /\ setting = IF Operating THEN None ELSE DefaultLimits
    /\ cache = setting
    /\ disturbed = FALSE
    /\ firms = [f \in Firms |-> None]
    /\ creds = IF Operating
               THEN {}
               ELSE {[email |-> Admin, tenant |-> None]}
                    \cup [email : ToSet(DemoUsers), tenant : {CHOOSE t \in Tenants : TRUE}]
    /\ demo = {}

Running == boot.at = "up"

-----------------------------------------------------------------------------
(* Tables.                                                                 *)

EmailTaken(e) == \E row \in creds : row.email = e

UnusedFirms == {f \in Firms : firms[f] = None}

NewFirm == Fresh(UnusedFirms)

\* CreateTenant: an INSERT, names are not unique.
AddFirm(users) ==
    /\ UnusedFirms # {}
    /\ firms' = [firms EXCEPT ![NewFirm] = [users |-> users]]

\* An INSERT into user_credentials, where email is UNIQUE.
AddUser(e, f) == creds' = creds \cup {[email |-> e, tenant |-> f]}

-----------------------------------------------------------------------------
(* Start-up.                                                               *)

BootTo(step) == boot' = [boot EXCEPT !.at = step]

\* The process is started, for the first time or again.
Start ==
    /\ boot.at \in {"down", "refused"}
    /\ boot' = At("migrate")
    /\ UNCHANGED <<gatewayVars, schema, setting, cache, disturbed, firms, creds, demo>>

\* RunMigrations: a version that is not recorded is applied; CREATE TABLE of one
\* that was applied and not recorded is an error.
Migrate ==
    /\ boot.at = "migrate"
    /\ \/ /\ schema.recorded = Migrations
          /\ BootTo("limits")
          /\ UNCHANGED schema
       \/ /\ schema.recorded < Migrations
          /\ schema.applied = schema.recorded
          /\ schema' = [schema EXCEPT !.applied = @ + 1]
          /\ BootTo("record")
       \/ /\ schema.recorded < schema.applied
          /\ BootTo("refused")
          /\ UNCHANGED schema
    /\ UNCHANGED <<gatewayVars, setting, cache, disturbed, firms, creds, demo>>

RecordMigration ==
    /\ boot.at = "record"
    /\ schema' = [schema EXCEPT !.recorded = schema.applied]
    /\ BootTo("migrate")
    /\ UNCHANGED <<gatewayVars, setting, cache, disturbed, firms, creds, demo>>

\* SeedSetting inserts the default unless there is a value; then what is stored is
\* loaded, and a value that cannot be parsed ends the process.
LoadSettings ==
    /\ boot.at = "limits"
    /\ setting' = IF setting = None THEN DefaultLimits ELSE setting
    /\ IF setting' \in Malformed
       THEN BootTo("refused") /\ UNCHANGED cache
       ELSE BootTo("admin") /\ cache' = setting'
    /\ disturbed' = FALSE
    /\ UNCHANGED <<gatewayVars, schema, firms, creds, demo>>

-----------------------------------------------------------------------------
(* seedDemoData.                                                           *)

\* Mutant of DemoExists: the demo accounts are created at every start.
DemoExistsNever == FALSE

\* One credential stands for all demo data.
DemoExists == EmailTaken(Head(DemoUsers))

\* SeedCredential: ON CONFLICT (email) DO NOTHING.
SeedUser(e, f) == IF EmailTaken(e) THEN UNCHANGED creds ELSE AddUser(e, f)

SeedAdmin ==
    /\ boot.at = "admin"
    /\ SeedUser(Admin, None)
    /\ BootTo("demo")
    /\ UNCHANGED <<gatewayVars, schema, setting, cache, disturbed, firms, demo>>

SeedTenant ==
    /\ boot.at = "demo"
    /\ IF DemoExists
       THEN BootTo("up") /\ UNCHANGED firms
       ELSE /\ AddFirm(DemoUsers)
            /\ boot' = [boot EXCEPT !.at = "demo_key", !.firm = NewFirm]
    /\ UNCHANGED <<gatewayVars, schema, setting, cache, disturbed, creds, demo>>

SeedKey ==
    /\ boot.at = "demo_key"
    /\ AddKey(boot.firm)
    /\ boot' = [boot EXCEPT !.at = "demo_users", !.left = DemoUsers]
    /\ UNCHANGED <<redis, task, workload, executed, lapsed, faults,
                   schema, setting, cache, disturbed, firms, creds, demo>>

\* On to the next of the list, or to the next part when it is done.
SeedNext(step, list) ==
    boot' = IF Len(boot.left) > 1
            THEN [boot EXCEPT !.left = Tail(@)]
            ELSE [boot EXCEPT !.at = step, !.left = list]

SeedDemoUser ==
    /\ boot.at = "demo_users"
    /\ SeedUser(Head(boot.left), boot.firm)
    /\ SeedNext("demo_customers", DemoCustomers)
    /\ UNCHANGED <<gatewayVars, schema, setting, cache, disturbed, firms, demo>>

\* CustomerService.CreateCustomer; in a new tenant no reference is taken.
SeedCustomer ==
    /\ boot.at = "demo_customers"
    /\ demo' = demo \cup {<<boot.firm, Head(boot.left)>>}
    /\ SeedNext("up", <<>>)
    /\ UNCHANGED <<gatewayVars, schema, setting, cache, disturbed, firms, creds>>

-----------------------------------------------------------------------------
(* The routes of the operator.                                             *)

\* SweepTokenAuth: no call, and no idempotency key.
AuthorizeOperator(h) ==
    /\ task[h].pc = "auth"
    /\ task[h].req.op \in OperatorOps
    /\ Goto(h, "serve")
    /\ UNCHANGED <<issued, redis, workload, executed, lapsed, faults, platformVars>>

\* UpsertSetting.  The body is JSON; nothing looks at its keys yet.
PutTierLimits(h) ==
    /\ Serving(h, "put_limits")
    /\ IF task[h].req.arg = None
       THEN Respond(h, "422") /\ UNCHANGED <<setting, disturbed>>
       ELSE /\ setting' = task[h].req.arg
            /\ disturbed' = \E g \in Handlers : task[g].pc = "reload"
            /\ Goto(h, "reload")
    /\ UNCHANGED <<issued, redis, workload, executed, lapsed, faults,
                   boot, schema, cache, firms, creds, demo>>

\* Mutant of Loaded: the reload is left to the next start.
LoadedLater(value) == cache

\* TierLimitsCache.Load: a value with a malformed key leaves the limits as they are.
Loaded(value) == IF value \in Malformed THEN cache ELSE value

ReloadTierLimits(h) ==
    /\ task[h].pc = "reload"
    /\ cache' = Loaded(task[h].req.arg)
    /\ Respond(h, IF task[h].req.arg \in Malformed THEN "500" ELSE "200")
    /\ UNCHANGED <<issued, redis, workload, executed, lapsed, faults,
                   boot, schema, setting, disturbed, firms, creds, demo>>

\* Onboard: the tenant, then its key, then its users one by one.  An insert whose
\* answer is lost ends like an error of the insert after it.
CreateTenant(h) ==
    /\ Serving(h, "onboard")
    /\ IF task[h].req.arg = <<>>
       THEN Respond(h, "400") /\ UNCHANGED firms
       ELSE /\ AddFirm(task[h].req.arg)
            /\ task' = [task EXCEPT ![h].pc = "add_key", ![h].read.id = NewFirm]
    /\ UNCHANGED <<issued, redis, workload, executed, lapsed, faults,
                   boot, schema, setting, cache, disturbed, creds, demo>>

CreateFirstKey(h) ==
    /\ task[h].pc = "add_key"
    /\ AddKey(task[h].read.id)
    /\ task' = [task EXCEPT ![h].pc = "add_user", ![h].read.was = task[h].req.arg]
    /\ UNCHANGED <<redis, workload, executed, lapsed, faults, platformVars>>

\* CreateCredential: an email that is taken ends the request, and what was inserted
\* before it stays.
CreateCredential(h) ==
    LET users == task[h].read.was
    IN  /\ task[h].pc = "add_user"
        /\ IF EmailTaken(Head(users))
           THEN Respond(h, "500") /\ UNCHANGED creds
           ELSE /\ AddUser(Head(users), task[h].read.id)
                /\ IF Len(users) = 1
                   THEN Respond(h, "201")
                   ELSE task' = [task EXCEPT ![h].read.was = Tail(users)]
        /\ UNCHANGED <<issued, redis, workload, executed, lapsed, faults,
                       boot, schema, setting, cache, disturbed, firms, demo>>

OnboardAdmin(h) ==
    /\ Serving(h, "onboard_admin")
    /\ IF EmailTaken(task[h].req.on)
       THEN Respond(h, "500") /\ UNCHANGED creds
       ELSE Respond(h, "201") /\ AddUser(task[h].req.on, None)
    /\ UNCHANGED <<issued, redis, workload, executed, lapsed, faults,
                   boot, schema, setting, cache, disturbed, firms, demo>>

-----------------------------------------------------------------------------
(* What can go wrong, and a regular stop.                                  *)

\* SIGTERM: Shutdown waits for the requests that are being served.  One that takes
\* longer than its 10 seconds is cut off: that is a crash.
Stop ==
    /\ Running
    /\ \A h \in Handlers : ~Busy(h)
    /\ boot' = At("down")
    /\ cache' = None
    /\ UNCHANGED <<gatewayVars, schema, setting, disturbed, firms, creds, demo>>

\* An error of a migration or of the settings ends the process; seeding logs it
\* and goes on with the next user or customer, or gives up before there are any.
BootCallFails ==
    /\ Fault
    /\ \/ boot.at \in {"migrate", "record", "limits"} /\ boot' = At("down")
       \/ boot.at = "admin" /\ BootTo("demo")
       \/ boot.at \in {"demo", "demo_key"} /\ boot' = At("up")
       \/ boot.at = "demo_users" /\ SeedNext("demo_customers", DemoCustomers)
       \/ boot.at = "demo_customers" /\ SeedNext("up", <<>>)
    /\ UNCHANGED <<issued, redis, task, workload, executed, lapsed,
                   schema, setting, cache, disturbed, firms, creds, demo>>

\* The value is stored and the caller sees an error: no reload, and a 500.
PutUnconfirmed(h) ==
    /\ Fault
    /\ Serving(h, "put_limits") /\ task[h].req.arg # None
    /\ setting' = task[h].req.arg
    /\ disturbed' = TRUE
    /\ Respond(h, "500")
    /\ UNCHANGED <<issued, redis, workload, executed, lapsed,
                   boot, schema, cache, firms, creds, demo>>

PlatformStep(h) ==
    \/ AuthorizeOperator(h)
    \/ PutTierLimits(h)
    \/ ReloadTierLimits(h)
    \/ CreateTenant(h)
    \/ CreateFirstKey(h)
    \/ CreateCredential(h)
    \/ OnboardAdmin(h)

Boot ==
    \/ Start
    \/ Migrate
    \/ RecordMigration
    \/ LoadSettings
    \/ SeedAdmin
    \/ SeedTenant
    \/ SeedKey
    \/ SeedDemoUser
    \/ SeedCustomer

PlatformFault ==
    \/ BootCallFails
    \/ \E h \in Handlers :
           \/ PutUnconfirmed(h)
           \/ RouteCallFails(h, {"add_key", "add_user"}) /\ UNCHANGED platformVars

-----------------------------------------------------------------------------
\* "Hot-reload the in-process cache so changes take effect immediately without
\* restart": when no PUT is under way, the limits the matcher checks are the stored
\* ones, unless the last PUT overlapped another, went unanswered or was malformed;
\* and a start is refused only over a malformed value or over a migration that was
\* applied and not recorded, for which a call failed or the process died in between.
LimitsInForce ==
    /\ (/\ Running
        /\ \A h \in Handlers : task[h].pc # "reload"
        /\ ~disturbed
        /\ setting \notin Malformed) => cache = setting
    /\ boot.at = "refused" => \/ setting \in Malformed
                              \/ schema.applied > schema.recorded /\ faults > 0

\* seedDemoData "ensures the demo accounts exist on every startup (idempotent)", and
\* Onboard "creates a tenant with credentials for its users and a shared API key":
\* without a fault, however often the server is started, the demo customers exist
\* once, in a tenant that has all demo users, and a tenant has its key and all its
\* users unless the list names one twice or one that belongs to another tenant.
TenantsComplete ==
    (/\ faults = 0
     /\ Running /\ Operating
     /\ \A h \in Handlers : task[h].pc \notin {"add_key", "add_user"}) =>
        /\ \E f \in Firms :
               /\ firms[f] # None
               /\ \A e \in ToSet(DemoUsers) : [email |-> e, tenant |-> f] \in creds
               /\ demo = {f} \X ToSet(DemoCustomers)
        /\ \A f \in Firms : firms[f] # None =>
               /\ \E k \in ApiKeys : KeyOwner[k] = f /\ issued[k] # "no"
               /\ \/ \A e \in ToSet(firms[f].users) : [email |-> e, tenant |-> f] \in creds
                  \/ ~IsInjective(firms[f].users)
                  \/ \E e \in ToSet(firms[f].users) :
                         EmailTaken(e) /\ [email |-> e, tenant |-> f] \notin creds
=============================================================================
