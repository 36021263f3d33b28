------------------------- MODULE SuspenseResolution -------------------------
(***************************************************************************)
(* The resolution of suspense items: PATCH /v1/suspense/{id}, the handler  *)
(* around SuspenseService.Resolve (service/suspense.go).                   *)
(*                                                                         *)
(* A request reads the item, posts the compensating entries of a           *)
(* reassignment, updates the status and writes an audit entry, each with a *)
(* call of its own, so several requests for one item interleave.  A client *)
(* whose request failed may send it again.                                 *)
(***************************************************************************)
EXTENDS Ledger

CONSTANTS
    Items,       \* ids of suspense items
    Original,    \* Original[i]: the transaction that put the money in suspense
    Resolution,  \* Resolution[i]: the id "vn:res:" + i
    Amount,      \* Amount[i]: amount_kobo of the original transaction
    Requests,    \* requests to resolve an item
    Asked,       \* Asked[r]: what request r asks for
    NoCustomer,  \* a target_customer_id the tenant does not have
    MaxFaults    \* bound on database errors and crashes

Resolutions == {"reassigned", "refund_flagged"}

ResolveRequest == [item: Items, resolution: Resolutions, target: Customers \cup {NoCustomer}]

ASSUME SuspenseAssumption ==
    /\ Original \in [Items -> TxIds]
    /\ Resolution \in [Items -> TxIds]
    /\ \A i, j \in Items : i # j => /\ Original[i] # Original[j]
                                    /\ Resolution[i] # Resolution[j]
    /\ \A i, j \in Items : Original[i] # Resolution[j]
    /\ Amount \in [Items -> Nat \ {0}]
    /\ Asked \in [Requests -> ResolveRequest]
    /\ NoCustomer \notin Customers
    /\ MaxFaults \in Nat

VARIABLES
    ledger,  \* transactions and ledger_entries
    status,  \* suspense_items.status
    audit,   \* the audit entries of action suspense_resolve, as requests
    pc,      \* the next call of each request, or its answer
    faults   \* database errors and crashes so far

vars == <<ledger, status, audit, pc, faults>>

\* The answers are refused (4xx), error (5xx or no answer) and resolved (200).
Answers == {"refused", "error", "resolved"}

\* Type invariant: suspense_items.status keeps to its CHECK constraint, and every
\* request has a step or an answer.
TypeOK ==
    /\ ledger \in [TxIds -> Transaction]
    /\ status \in [Items -> {"open"} \cup Resolutions]
    /\ audit \subseteq Requests
    /\ pc \in [Requests -> {"get", "post", "update", "audit"} \cup Answers]
    /\ faults \in 0..MaxFaults

\* The recon worker has posted the originals and created their items.
Init ==
    /\ ledger = [t \in TxIds |->
                    IF \E i \in Items : t = Original[i]
                    THEN LET i == CHOOSE i \in Items : t = Original[i]
                         IN  [source |-> "webhook", direction |-> "credit",
                              entries |-> CreditSuspense(Amount[i])]
                    ELSE Absent]
    /\ status = [i \in Items |-> "open"]
    /\ audit = {}
    /\ pc = [r \in Requests |-> "get"]
    /\ faults = 0

-----------------------------------------------------------------------------
Goto(r, step) == pc' = [pc EXCEPT ![r] = step]

\* Resolve reads the item; resolveByReassign then checks the target customer and
\* reads the original transaction, which never changes.
Resolve(r) ==
    LET q == Asked[r]
    IN  /\ pc[r] = "get"
        /\ \/ /\ status[q.item] # "open"
              /\ Goto(r, "refused")
           \/ /\ status[q.item] = "open"
              /\ q.resolution = "reassigned"
              /\ Goto(r, IF q.target = NoCustomer THEN "refused" ELSE "post")
           \/ /\ status[q.item] = "open"
              /\ q.resolution = "refund_flagged"
              /\ Goto(r, "update")
        /\ UNCHANGED <<ledger, status, audit, faults>>

\* Mutant of ResolutionTxID: the id of the transaction that is resolved.
OriginalTxID(i) == Original[i]

ResolutionTxID(i) == Resolution[i]

\* The transaction of a reassignment.
ResTx(q) == [source |-> "internal", direction |-> "credit",
             entries |-> SuspenseToCustomer(q.target, Amount[q.item])]

Moved(r) == PostTransaction(ledger, ResolutionTxID(Asked[r].item), ResTx(Asked[r]))

\* Mutant of PostResolution: a resolution that exists is an error.
PostResolutionOnce(r) ==
    /\ pc[r] = "post"
    /\ ledger' = Moved(r)
    /\ Goto(r, IF ledger' = ledger THEN "error" ELSE "update")
    /\ UNCHANGED <<status, audit, faults>>

\* Whether the row was created, or some earlier request had posted it, is not
\* looked at.
PostResolution(r) ==
    /\ pc[r] = "post"
    /\ ledger' = Moved(r)
    /\ Goto(r, "update")
    /\ UNCHANGED <<status, audit, faults>>

\* Mutant of Updated: the UPDATE lacks its condition on the status.
UpdatedAlways(q) == [status EXCEPT ![q.item] = q.resolution]

\* Mutant of Updated: the status written is that of the answer.
UpdatedToAnswer(q) ==
    IF status[q.item] = "open" THEN [status EXCEPT ![q.item] = "resolved"] ELSE status

\* UPDATE suspense_items ... WHERE id = i AND status = 'open'.
Updated(q) ==
    IF status[q.item] = "open" THEN [status EXCEPT ![q.item] = q.resolution] ELSE status

\* No row updated is no error.
ResolveSuspenseItem(r) ==
    /\ pc[r] = "update"
    /\ status' = Updated(Asked[r])
    /\ Goto(r, "audit")
    /\ UNCHANGED <<ledger, audit, faults>>

Append(r) ==
    /\ pc[r] = "audit"
    /\ audit' = audit \cup {r}
    /\ Goto(r, "resolved")
    /\ UNCHANGED <<ledger, status, faults>>

-----------------------------------------------------------------------------
Fault == faults < MaxFaults /\ faults' = faults + 1

\* A call fails with nothing done, or the process crashes before it.
CallFails(r) ==
    /\ Fault
    /\ pc[r] \in {"get", "post", "update"}
    /\ Goto(r, "error")
    /\ UNCHANGED <<ledger, status, audit>>

\* The connection breaks after the commit, or the process crashes after it.
PostUnconfirmed(r) ==
    /\ Fault
    /\ pc[r] = "post"
    /\ ledger' = Moved(r)
    /\ Goto(r, "error")
    /\ UNCHANGED <<status, audit>>

UpdateUnconfirmed(r) ==
    /\ Fault
    /\ pc[r] = "update"
    /\ status' = Updated(Asked[r])
    /\ Goto(r, "error")
    /\ UNCHANGED <<ledger, audit>>

\* The error of the audit entry is discarded.
AuditFails(r) ==
    /\ Fault
    /\ pc[r] = "audit"
    /\ Goto(r, "resolved")
    /\ UNCHANGED <<ledger, status, audit>>

\* The client sends a request without a proper answer again.
Retry(r) ==
    /\ pc[r] = "error"
    /\ Goto(r, "get")
    /\ UNCHANGED <<ledger, status, audit, faults>>

-----------------------------------------------------------------------------
Step(r) == Resolve(r) \/ PostResolution(r) \/ ResolveSuspenseItem(r) \/ Append(r)

Failure(r) ==
    CallFails(r) \/ PostUnconfirmed(r) \/ UpdateUnconfirmed(r) \/ AuditFails(r)

Next ==
    \/ \E r \in Requests : Step(r)
    \/ \E r \in Requests : Failure(r)
    \/ \E r \in Requests : Retry(r)

Spec == Init /\ [][Next]_vars

\* Handlers run to their end.  An operator left without an answer does not give
\* up: the list of open items still shows the item.
Fairness == \A r \in Requests : WF_vars(Step(r)) /\ WF_vars(Retry(r))

FairSpec == Spec /\ Fairness

-----------------------------------------------------------------------------
\* An item that says reassigned has left suspense, for a customer one of its
\* reassignments named, whoever of several requests set the status.
ReassignedMoved ==
    \A i \in Items : status[i] = "reassigned" =>
        \E r \in Requests :
            /\ Asked[r].item = i
            /\ Asked[r].resolution = "reassigned"
            /\ Credited(ledger[Resolution[i]]) = {Asked[r].target}

\* Money leaves suspense once per item, however often and by whomever its
\* reassignment is posted: the balance of suspense is what has not been moved.
SuspenseHoldsTheRest ==
    GetBalance(ledger, Suspense) =
        SumFunction([i \in {x \in Items : ~Exists(ledger, Resolution[x])} |-> Amount[i]])

\* The customers the reassignments of item i name.
Claimants == [i \in Items |->
                 {c \in Customers : \E r \in Requests :
                     Asked[r] = [item |-> i, resolution |-> "reassigned", target |-> c]}]

\* Whose account holds the money of item i, by the ledger.
Holder(i) ==
    IF Exists(ledger, Resolution[i])
    THEN CHOOSE c \in Customers : Credited(ledger[Resolution[i]]) = {c}
    ELSE Suspense

Life == INSTANCE SuspenseLife WITH
            Held <- Suspense,
            holder <- [i \in Items |-> Holder(i)]

\* The calls of all requests together, in every order and with every failure, do
\* what SuspenseLife promises of an item: its money makes at most one move, to a
\* customer it was claimed for, no resolution says reassigned before that move,
\* and a resolution is final.
ImplementsSuspenseLife == Life!Spec

\* A reassignment that moved the money but did not get to the status is finished
\* by its retry, which finds its own entries posted and carries on.
MovedItemsClose ==
    \A i \in Items : Exists(ledger, Resolution[i]) ~> status[i] # "open"

\* README on refund_flagged: "Funds remain in suspense."
RefundFlaggedStays ==
    \A i \in Items : status[i] = "refund_flagged" => ~Exists(ledger, Resolution[i])
=============================================================================
