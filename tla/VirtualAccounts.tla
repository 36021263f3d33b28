--------------------------- MODULE VirtualAccounts ---------------------------
(***************************************************************************)
(* The life of virtual accounts: ProvisioningService                       *)
(* (service/provisioning.go), its routes and the repository, one step per  *)
(* call on the database or the provider.                                   *)
(*                                                                         *)
(*   provision        serve -> find -> bank -> write -> audit              *)
(*   rename           serve -> find -> bank -> write -> audit              *)
(*   close, suspend   serve -> find -> bank -> write -> audit              *)
(*   unsuspend        serve -> find -> write -> audit                      *)
(*                                                                         *)
(* The status is read in "find" and written, without a condition, in       *)
(* "write"; between them other requests for the customer do the same.      *)
(***************************************************************************)
EXTENDS Customers

CONSTANTS
    Accounts,  \* accounts at the provider and rows of virtual_accounts
    Names      \* values of account_name

VAStatus == {"ACTIVE", "SUSPENDED", "CLOSED"}

VARow == [customer: Customers, status: VAStatus, name: Names \cup {None}]

\* At the provider an account has a status too: the last one it was told of.
BankRow == [customer: Customers, status: VAStatus, name: Names \cup {None}]

VAOps == {"provision_va", "get_va", "rename_va", "close_va", "suspend_va", "unsuspend_va"}

ASSUME VAAssumption ==
    /\ None \notin VARow \cup BankRow \cup VAStatus
    /\ \A load \in Workloads : \A r \in load :
           /\ r.op \in VAOps => r.on \in Customers
           /\ r.op = "rename_va" => r.arg \in Names

VARIABLES
    va,     \* va[v]: customer, status and name of a row; None without one
    bank,   \* bank[v]: the account at the provider; None without one
    raced   \* history: customers two routes worked on at the same time

VAInit ==
    /\ va = [v \in Accounts |-> None]
    /\ bank = [v \in Accounts |-> None]
    /\ raced = {}

accountVars == <<customerVars, va, bank, raced>>

-----------------------------------------------------------------------------
(* The repository.                                                         *)

\* GetActiveVA, GetVAByCustomerAndStatus.
GetVAs(c, status) == {v \in Accounts : va[v] # None /\ va[v].customer = c /\ va[v].status = status}

ValidTransition(current, target) ==
    CASE current = "ACTIVE"    -> target \in {"SUSPENDED", "CLOSED"}
      [] current = "SUSPENDED" -> target \in {"ACTIVE", "CLOSED"}
      [] OTHER -> FALSE

\* One ACTIVE account per customer: idx_va_one_active_per_customer.
OneActive(table) ==
    \A v, w \in Accounts :
        (v # w /\ table[v] # None /\ table[w] # None /\ table[v].customer = table[w].customer)
            => ~(table[v].status = "ACTIVE" /\ table[w].status = "ACTIVE")

\* Mutant of UpdateVAStatus: WHERE customer_id instead of WHERE id.
UpdateVAStatusOfCustomer(v, status) ==
    [w \in Accounts |-> IF va[w] # None /\ va[w].customer = va[v].customer
                        THEN [va[w] EXCEPT !.status = status]
                        ELSE va[w]]

UpdateVAStatus(v, status) == [va EXCEPT ![v].status = status]

-----------------------------------------------------------------------------
\* Mutant of AnswerNone: the customer of another tenant is forbidden.
AnswerNoneForbidden(op) == "403"

\* What a route answers when there is no such customer, or no such account:
\* the services return nil, which the lifecycle routes take for success.
AnswerNone(op) == IF op \in {"provision_va", "get_va", "rename_va"} THEN "404" ELSE "204"

FindCustomer(h) ==
    LET r == task[h].req
    IN  /\ task[h].pc = "serve" /\ r.op \in VAOps
        /\ IF GetCustomer(task[h].tenant, r.on) = None
           THEN Respond(h, AnswerNone(r.op))
           ELSE Goto(h, "find")
        /\ UNCHANGED <<issued, redis, workload, executed, lapsed, faults, accountVars>>

\* A route works on its customer from here until it answers.
WorksOn(h, c) == task[h].pc \in {"bank", "write", "audit"} /\ task[h].req.on = c

Racing(h, c) ==
    raced' = IF \E g \in Handlers \ {h} : WorksOn(g, c) THEN raced \cup {c} ELSE raced

Begin(h, step, id, was) == Read(h, step, id, was) /\ Racing(h, task[h].req.on)

\* Mutant of FindForProvision: FR-3.3 is left out.
FindForProvisionUnchecked(h) == Begin(h, "bank", None, None)

FindForProvision(h) ==
    IF GetVAs(task[h].req.on, "ACTIVE") # {}
    THEN Respond(h, "200") /\ UNCHANGED raced
    ELSE Begin(h, "bank", None, None)

FindToChange(h) ==
    LET op == task[h].req.op
        found == GetVAs(task[h].req.on, IF op = "unsuspend_va" THEN "SUSPENDED" ELSE "ACTIVE")
    IN  CASE found = {} -> Respond(h, AnswerNone(op)) /\ UNCHANGED raced
          [] found # {} /\ op = "get_va" -> Respond(h, "200") /\ UNCHANGED raced
          [] found # {} /\ op = "rename_va" ->
                 \E v \in found : Begin(h, "bank", v, va[v].status)
          [] OTHER ->
                 \E v \in found :
                     IF ValidTransition(va[v].status, Outcome(task[h].req))
                     THEN Begin(h, IF op = "unsuspend_va" THEN "write" ELSE "bank",
                                v, va[v].status)
                     ELSE Respond(h, "409") /\ UNCHANGED raced

FindVA(h) ==
    /\ task[h].pc = "find"
    /\ IF task[h].req.op = "provision_va" THEN FindForProvision(h) ELSE FindToChange(h)
    /\ UNCHANGED <<issued, redis, workload, executed, lapsed, faults, customerVars, va, bank>>

-----------------------------------------------------------------------------
(* The calls on the provider.                                              *)

\* Every account reference is new: a random suffix.
UnusedAccounts == {v \in Accounts : bank[v] = None}

NewAccount == Fresh(UnusedAccounts)

Opened(h) ==
    /\ UnusedAccounts # {}
    /\ bank' = [bank EXCEPT ![NewAccount] =
                    [customer |-> task[h].req.on, status |-> "ACTIVE", name |-> None]]

CreateVA(h) ==
    /\ task[h].pc = "bank" /\ task[h].req.op = "provision_va"
    /\ Opened(h)
    /\ Read(h, "write", NewAccount, None)
    /\ UNCHANGED <<issued, redis, workload, executed, lapsed, faults, customerVars, va, raced>>

UpdateVA(h) ==
    /\ task[h].pc = "bank" /\ task[h].req.op = "rename_va"
    /\ bank' = [bank EXCEPT ![task[h].read.id].name = task[h].req.arg]
    /\ Goto(h, "write")
    /\ UNCHANGED <<issued, redis, workload, executed, lapsed, faults, customerVars, va, raced>>

\* CloseVA and SuspendVA of the provider; there is no call that undoes them.
BestEffort(h) ==
    /\ task[h].pc = "bank" /\ task[h].req.op \in {"close_va", "suspend_va"}
    /\ bank' = [bank EXCEPT ![task[h].read.id].status = Outcome(task[h].req)]
    /\ Goto(h, "write")
    /\ UNCHANGED <<issued, redis, workload, executed, lapsed, faults, customerVars, va, raced>>

-----------------------------------------------------------------------------
(* The statement that changes virtual_accounts.                            *)

Written(h) ==
    LET v == task[h].read.id
        op == task[h].req.op
    IN  CASE op = "provision_va" ->
                 [va EXCEPT ![v] = [customer |-> task[h].req.on, status |-> "ACTIVE",
                                    name |-> bank[v].name]]
          [] op = "rename_va" -> [va EXCEPT ![v].name = task[h].req.arg]
          [] OTHER -> UpdateVAStatus(v, Outcome(task[h].req))

\* Mutant of WriteVA: the statuses are changed without an entry.
WriteVAUnaudited(h) ==
    /\ task[h].pc = "write"
    /\ IF OneActive(Written(h))
       THEN va' = Written(h) /\ Respond(h, Answer(task[h].req.op))
       ELSE UNCHANGED va /\ Respond(h, "500")
    /\ UNCHANGED <<issued, redis, workload, executed, lapsed, faults, customerVars, bank, raced>>

WriteVA(h) ==
    /\ task[h].pc = "write"
    /\ IF OneActive(Written(h))
       THEN va' = Written(h) /\ Goto(h, "audit")
       ELSE UNCHANGED va /\ Respond(h, "500")
    /\ UNCHANGED <<issued, redis, workload, executed, lapsed, faults, customerVars, bank, raced>>

-----------------------------------------------------------------------------
(* Failures.                                                               *)

\* The provider refuses, or does it and the answer is lost.
BankFails(h) ==
    /\ task[h].req.op \in {"provision_va", "rename_va"}
    /\ RouteCallFails(h, {"bank"})
    /\ UNCHANGED accountVars

BankUnconfirmed(h) ==
    /\ Fault
    /\ task[h].pc = "bank"
    /\ \/ /\ task[h].req.op = "provision_va"
          /\ Opened(h)
       \/ /\ task[h].req.op = "rename_va"
          /\ bank' = [bank EXCEPT ![task[h].read.id].name = task[h].req.arg]
    /\ Respond(h, "500")
    /\ UNCHANGED <<issued, redis, workload, executed, lapsed, customerVars, va, raced>>

\* An error of CloseVA or SuspendVA is ignored: the account stays open there and is
\* closed or suspended here.
BestEffortFails(h) ==
    /\ Fault
    /\ task[h].pc = "bank" /\ task[h].req.op \in {"close_va", "suspend_va"}
    /\ Goto(h, "write")
    /\ UNCHANGED <<issued, redis, workload, executed, lapsed, accountVars>>

WriteUnconfirmed(h) ==
    /\ Fault
    /\ task[h].pc = "write"
    /\ OneActive(Written(h))
    /\ va' = Written(h)
    /\ Respond(h, "500")
    /\ UNCHANGED <<issued, redis, workload, executed, lapsed, customerVars, bank, raced>>

VAStep(h) ==
    \/ FindCustomer(h)
    \/ FindVA(h)
    \/ CreateVA(h)
    \/ UpdateVA(h)
    \/ BestEffort(h)
    \/ WriteVA(h)

VAFault ==
    \E h \in Handlers :
        \/ Busy(h) /\ BankFails(h)
        \/ BankUnconfirmed(h)
        \/ BestEffortFails(h)
        \/ WriteUnconfirmed(h)
        \/ RouteCallFails(h, {"find", "write"}) /\ UNCHANGED accountVars

-----------------------------------------------------------------------------
\* A closed account comes back only by a lost update: a request that read the row
\* when it was not closed writes its own status over the CLOSED, and the request that
\* closed it worked on the customer at the same time.  A request made afterwards does
\* not reopen it, nor does one for another account of the customer.
ReopenedOnlyByStaleRead ==
    [][\A v \in Accounts :
           (va[v] # None /\ va[v].status = "CLOSED" /\ va'[v].status # "CLOSED") =>
               /\ va[v].customer \in raced
               /\ \E h \in Handlers : /\ task[h].read.id = v
                                      /\ task[h].read.was # "CLOSED"
                                      /\ task'[h] # task[h]]_<<gatewayVars, accountVars>>

\* README: "Close (irreversible)"; and "CloseVA transitions the VA to CLOSED
\* (terminal)".
ClosedIsTerminal ==
    [][\A v \in Accounts :
           (va[v] # None /\ va[v].status = "CLOSED") =>
               va'[v].status = "CLOSED"]_<<gatewayVars, accountVars>>

\* FR-3.3 and FR-8.1: what the provider has and what is recorded here agree.  An
\* account is opened at the provider and not recorded, or has another name or status
\* there, only while the request is under way, if a call failed, or if two requests
\* for the customer overlapped; but the provider is not told that an account is
\* ACTIVE again.
BankAgrees ==
    \A v \in Accounts : (bank[v] # None /\ faults = 0 /\ bank[v].customer \notin raced) =>
        \/ \E h \in Handlers : task[h].pc = "write" /\ task[h].read.id = v
        \/ /\ va[v] # None
           /\ va[v].name = bank[v].name
           /\ va[v].status \in {bank[v].status, "ACTIVE"}
           /\ bank[v].status = "CLOSED" => va[v].status = "CLOSED"

\* The audit log explains the status of every account and, as FR-8.4 asks, the tier
\* of every customer: whichever of two concurrent requests wrote last, its entry is
\* there or about to be appended, unless a call failed.
ChangesAudited ==
    faults = 0 =>
        /\ \A c \in Customers : customers[c] # None =>
               Reporting(c) \/ <<c, customers[c].tier>> \in audit
        /\ \A v \in Accounts : va[v] # None =>
               Reporting(v) \/ <<v, va[v].status>> \in audit

\* Read in its order, the audit log ends with the status an account has: the newest
\* entry on it is of the request that wrote last, unless two requests for the customer
\* overlapped, of which the second to write may be the first to append, or a call
\* failed.
LogEndsWithStatus ==
    \A v \in Accounts :
        (va[v] # None /\ faults = 0 /\ va[v].customer \notin raced) =>
            Reporting(v) \/ <<v, va[v].status>> \in newest
=============================================================================
