-------------------------------- MODULE Recon --------------------------------
(***************************************************************************)
(* Reconciliation: how a payment event of the provider becomes a posted    *)
(* ledger transaction.                                                     *)
(*                                                                         *)
(*   - HTTP handlers store a webhook event under its dedupe key and        *)
(*     enqueue it (api/handlers/webhook.go);                               *)
(*   - one worker goroutine drains the in-process queue (recon/worker.go); *)
(*   - any number of sweeps, each the goroutine of one HTTP request, post  *)
(*     what the provider's Transactions API lists (recon/sweep.go).        *)
(*                                                                         *)
(* Worker and sweeps run the same pipeline.  Every call on the database is *)
(* one step of a process, so the calls of different processes interleave   *)
(* in every order: what one step has read may be stale in the next.  The   *)
(* statuses of virtual accounts, the collections and the arrival of        *)
(* webhooks are changed by other handlers in between.                      *)
(*                                                                         *)
(* Step by step, pc[p] names the call that process p makes next:           *)
(*                                                                         *)
(*   check -> match -> tier -> daily -> post -> suspend           -> mark  *)
(*   (sweep)                                 -> find -> fulfill   -> mark  *)
(*                                                                         *)
(* The pending MarkWebhookProcessed(status) of the worker is written as    *)
(* the status itself: pc[Worker] \in {"processed", "ignored", "failed"}.   *)
(***************************************************************************)
EXTENDS Ledger, Sequences

CONSTANTS
    VAs,              \* rows virtual_accounts can come to have
    Owner,            \* Owner[v]: virtual_accounts.customer_id
    StatusUpdates,    \* statuses the lifecycle handlers give to accounts
    NoVA,             \* no row: an unknown or missing account reference
    Events,           \* what the provider may emit, a set of EventRecords
    NoEvent,          \* the item of a process that has none
    Worker,           \* the goroutine of Worker.Run
    Sweeps,           \* concurrent requests to /internal/sweep
    Collections,      \* collection ids: 1..n in the order of created_at
    Request,          \* Request[c]: virtual account and amount asked for
    QueueSize,        \* capacity of Worker.queue
    MaxBalance,       \* MaxBalanceKobo of a customer's tier, 0 if uncapped
    DailyCredit,      \* DailyCreditKobo of a customer's tier, 0 if uncapped
    OccurredOn,       \* OccurredOn[t]: the UTC day of transactions.occurred_at
    TenantlessLookup, \* does GetCustomer("", id) find the customer?
    MaxDay,           \* bound on the days that pass
    MaxCrashes,       \* bound on process crashes
    MaxFaults         \* bound on database errors

Procs == Sweeps \cup {Worker}

VAStatus == {"PENDING", "ACTIVE", "SUSPENDED", "CLOSED"}

\* A virtual account whose row is not in the database.
Missing == "absent"

\* payment_failed stands for every type other than the first two: process marks
\* such an event ignored.
EventTypes == {"payment_success", "payment_reversal", "payment_failed"}

(***************************************************************************)
(* A provider event.  The accountRef of a webhook and the NUBAN of a       *)
(* listing name the same row, va.  listed: does the Transactions API show  *)
(* it; bare: without account fields, so that the sweep has to requery;     *)
(* original: the transaction a reversal takes back, which the payload does *)
(* not carry and the code cannot see.                                      *)
(***************************************************************************)
EventRecord == [tx: TxIds, type: EventTypes, va: VAs \cup {NoVA}, amount: Int,
                listed: BOOLEAN, bare: BOOLEAN, original: TxIds]

DedupeKey(e) == <<e.tx, e.type>>

DedupeKeys == TxIds \X EventTypes

Reasons == {"unmatched", "closed_account", "suspended_account", "tier_limit"}

\* Where an event is posted: the wallet of a customer, or suspense for a reason.
Route == [account: Accounts, reason: Reasons \cup {"none"}]

NoRoute == [account |-> Settlement, reason |-> "none"]

Verdicts == {"processed", "ignored", "failed"}

Steps == {"idle", "check", "match", "tier", "daily", "post", "suspend", "find",
          "fulfill", "relay"} \cup Verdicts

NoCollection == 0

ASSUME ReconAssumption ==
    /\ Owner \in [VAs -> Customers]
    /\ StatusUpdates \subseteq {"ACTIVE", "SUSPENDED", "CLOSED"}
    /\ NoVA \notin VAs
    /\ Events \subseteq EventRecord
    /\ \A e, f \in Events : DedupeKey(e) = DedupeKey(f) => e = f
    /\ NoEvent \notin EventRecord \cup TxIds
    /\ Worker \notin Sweeps
    /\ Collections \subseteq Nat \ {0}
    /\ Request \in [Collections -> [va: VAs, amount: Nat]]
    /\ QueueSize \in Nat
    /\ MaxBalance \in [Customers -> Nat]
    /\ DailyCredit \in [Customers -> Nat]
    /\ OccurredOn \in [TxIds -> Nat]
    /\ TenantlessLookup \in BOOLEAN
    /\ MaxDay \in Nat
    /\ MaxCrashes \in Nat
    /\ MaxFaults \in Nat

VARIABLES
    made,          \* events the provider has emitted
    since,         \* history: statuses the VA of an event had since it was made
    today,         \* the UTC day of time.Now
    vaStatus,      \* virtual_accounts.status, Missing before the row exists
    webhookEvents, \* webhook_events.status by dedupe key, "none" if no row
    handlers,      \* webhook handlers between the insert and Enqueue
    queue,         \* Worker.queue
    ledger,        \* transactions and ledger_entries
    suspenseItems, \* suspense_items: the reasons of the rows of a transaction
    collections,   \* collections: status and fulfilled_by_txn_id
    relayed,       \* events handed to Dispatcher.Dispatch
    pc,            \* the next call of each process
    item,          \* the event each process works on
    route,         \* MatchResult of each process
    found,         \* the collection TryFulfill has found
    todo,          \* listed events a sweep has still to process
    crashes,       \* crashes so far
    faults         \* database errors so far

provider == <<made, since, today>>
ingest == <<webhookEvents, handlers, queue>>
posted == <<ledger, suspenseItems, collections, relayed>>
local == <<pc, item, route, found, todo>>
vars == <<provider, vaStatus, ingest, posted, local, crashes, faults>>

\* by is fulfilled_by_txn_id; expired says that expires_at has passed, which
\* leaves the status alone.
Collection == [status: {"none", "open", "fulfilled", "cancelled"},
               by: TxIds \cup {NoEvent}, expired: BOOLEAN]

\* Type invariant: the tables hold only values their columns admit (every item has
\* a reason of the schema), and every process a step, an item and a route.
TypeOK ==
    /\ made \subseteq Events
    /\ since \in [Events -> SUBSET (VAStatus \cup {Missing})]
    /\ today \in 0..MaxDay
    /\ vaStatus \in [VAs -> VAStatus \cup {Missing}]
    /\ webhookEvents \in [DedupeKeys -> {"none", "received"} \cup Verdicts]
    /\ handlers \subseteq Events
    /\ queue \in Seq(Events)
    /\ ledger \in [TxIds -> Transaction]
    /\ suspenseItems \in [TxIds -> Seq(Reasons)]
    /\ collections \in [Collections -> Collection]
    /\ relayed \subseteq EventRecord
    /\ pc \in [Procs -> Steps]
    /\ item \in [Procs -> EventRecord \cup {NoEvent}]
    /\ route \in [Procs -> Route]
    /\ found \in [Procs -> Collections \cup {NoCollection}]
    /\ todo \in [Sweeps -> SUBSET Events]
    /\ crashes \in 0..MaxCrashes
    /\ faults \in 0..MaxFaults

Init ==
    /\ made = {}
    /\ since = [e \in Events |-> {}]
    /\ today = 0
    /\ vaStatus = [v \in VAs |-> Missing]
    /\ webhookEvents = [k \in DedupeKeys |-> "none"]
    /\ handlers = {}
    /\ queue = <<>>
    /\ ledger = EmptyLedger
    /\ suspenseItems = [t \in TxIds |-> <<>>]
    /\ collections = [c \in Collections |->
                       [status |-> "none", by |-> NoEvent, expired |-> FALSE]]
    /\ relayed = {}
    /\ pc = [p \in Procs |-> "idle"]
    /\ item = [p \in Procs |-> NoEvent]
    /\ route = [p \in Procs |-> NoRoute]
    /\ found = [p \in Procs |-> NoCollection]
    /\ todo = [s \in Sweeps |-> {}]
    /\ crashes = 0
    /\ faults = 0

-----------------------------------------------------------------------------
(* The provider and the other handlers.                                    *)

\* The status of the row an event names, as GetVAByAccountRef and GetVAByNUBAN
\* find it.
StatusOf(e) == IF e.va = NoVA THEN Missing ELSE vaStatus[e.va]

\* The provider emits an event.  It takes back only a payment it has made.
MakePayment(e) ==
    /\ e \notin made
    /\ OccurredOn[e.tx] = today
    /\ e.type = "payment_reversal" =>
           \E o \in made : o.tx = e.original /\ o.type = "payment_success"
    /\ made' = made \cup {e}
    /\ since' = [since EXCEPT ![e] = {StatusOf(e)}]
    /\ UNCHANGED <<today, vaStatus, ingest, posted, local, crashes, faults>>

SetStatus(v, status) ==
    /\ vaStatus' = [vaStatus EXCEPT ![v] = status]
    /\ since' = [e \in Events |-> IF e \in made /\ e.va = v
                                  THEN since[e] \cup {status}
                                  ELSE since[e]]
    /\ UNCHANGED <<made, today, ingest, posted, local, crashes, faults>>

\* Midnight.
NextDay ==
    /\ today < MaxDay
    /\ today' = today + 1
    /\ UNCHANGED <<made, since, vaStatus, ingest, posted, local, crashes, faults>>

\* The unique index on the ACTIVE accounts of a customer.
OneActive(v) == \A w \in VAs \ {v} : Owner[w] = Owner[v] => vaStatus[w] # "ACTIVE"

CreateVirtualAccount(v) ==
    /\ vaStatus[v] = Missing
    /\ OneActive(v)
    /\ SetStatus(v, "ACTIVE")

\* The UPDATE is unconditional: the service has checked the transition against
\* a row it read earlier.
UpdateVAStatus(v, status) ==
    /\ vaStatus[v] \notin {Missing, status}
    /\ status = "ACTIVE" => OneActive(v)
    /\ SetStatus(v, status)

SetCollection(c, row) ==
    /\ collections' = [collections EXCEPT ![c] = row]
    /\ UNCHANGED <<provider, vaStatus, ingest, ledger, suspenseItems, relayed,
                   local, crashes, faults>>

\* The service has seen the account ACTIVE; it may have another status by now.
CreateCollection(c) ==
    /\ collections[c].status = "none"
    /\ \A d \in Collections : d < c => collections[d].status # "none"
    /\ vaStatus[Request[c].va] # Missing
    /\ SetCollection(c, [collections[c] EXCEPT !.status = "open"])

CancelCollection(c) ==
    /\ collections[c].status = "open"
    /\ SetCollection(c, [collections[c] EXCEPT !.status = "cancelled"])

\* expires_at passes.
ExpireCollection(c) ==
    /\ collections[c].status = "open"
    /\ ~collections[c].expired
    /\ SetCollection(c, [collections[c] EXCEPT !.expired = TRUE])

-----------------------------------------------------------------------------
(* Webhook ingestion.  The provider delivers an event any number of times, *)
(* or never.  Rejected deliveries (signature, age, parse error, failed     *)
(* insert) change nothing, and neither does a duplicate.                   *)

\* Mutant of Inserted: the conflict on dedupe_key is not noticed.
InsertedAlways(key) == TRUE

\* InsertWebhookEvent: ON CONFLICT (dedupe_key) DO NOTHING.
Inserted(key) == webhookEvents[key] = "none"

HandleNombaWebhook(e) ==
    /\ e \in made
    /\ Inserted(DedupeKey(e))
    /\ webhookEvents' = [webhookEvents EXCEPT ![DedupeKey(e)] = "received"]
    /\ handlers' = handlers \cup {e}
    /\ UNCHANGED <<provider, vaStatus, queue, posted, local, crashes, faults>>

\* After the acknowledgement.  A full queue drops the event.
Enqueue(e) ==
    /\ e \in handlers
    /\ handlers' = handlers \ {e}
    /\ queue' = IF Len(queue) < QueueSize THEN Append(queue, e) ELSE queue
    /\ UNCHANGED <<provider, vaStatus, webhookEvents, posted, local, crashes, faults>>

-----------------------------------------------------------------------------
(* The pipeline of a process.                                              *)

Goto(p, step) == pc' = [pc EXCEPT ![p] = step]

\* The process is done with its item.
Release(p) ==
    /\ Goto(p, "idle")
    /\ item' = [item EXCEPT ![p] = NoEvent]
    /\ route' = [route EXCEPT ![p] = NoRoute]
    /\ found' = [found EXCEPT ![p] = NoCollection]

\* The item has been dealt with.  The worker still has to mark its webhook
\* event; a sweep's item has none.
Conclude(p, verdict) ==
    IF p = Worker
    THEN /\ Goto(p, verdict)
         /\ found' = [found EXCEPT ![p] = NoCollection]
         /\ UNCHANGED <<item, route>>
    ELSE Release(p)

\* Mutant of Abandon: the error of process is swallowed.
AbandonSilently(p) == Conclude(p, "processed")

\* An error ends the item: the worker marks the event failed, a sweep logs it.
Abandon(p) == Conclude(p, "failed")

IsReversal(e) == e.type = "payment_reversal"

\* Mutant of Dequeue: process returns on a payment_failed before the mark.
DequeueUnmarked ==
    /\ pc[Worker] = "idle"
    /\ queue # <<>>
    /\ queue' = Tail(queue)
    /\ IF Head(queue).type = "payment_failed"
       THEN UNCHANGED <<pc, item>>
       ELSE /\ item' = [item EXCEPT ![Worker] = Head(queue)]
            /\ Goto(Worker, "match")
    /\ UNCHANGED <<provider, vaStatus, webhookEvents, handlers, posted,
                   route, found, todo, crashes, faults>>

\* Worker.Run takes the next item; process ignores all but two event types.
Dequeue ==
    /\ pc[Worker] = "idle"
    /\ queue # <<>>
    /\ queue' = Tail(queue)
    /\ item' = [item EXCEPT ![Worker] = Head(queue)]
    /\ Goto(Worker, IF Head(queue).type = "payment_failed" THEN "ignored" ELSE "match")
    /\ UNCHANGED <<provider, vaStatus, webhookEvents, handlers, posted,
                   route, found, todo, crashes, faults>>

\* SweepRunner.Run fetches its pages.  Which of the listed events the window
\* and the pages that could be fetched contain is left open.
ListTransactions(s) ==
    /\ pc[s] = "idle"
    /\ todo[s] = {}
    /\ \E page \in SUBSET {e \in made : e.listed} \ {{}} :
           todo' = [todo EXCEPT ![s] = page]
    /\ UNCHANGED <<provider, vaStatus, ingest, posted, pc, item, route, found,
                   crashes, faults>>

\* Every listed transaction becomes a payment_success item.  A listing without
\* account fields is requeried; if that fails it stays without them.
BuildWorkItem(e, identified) ==
    [e EXCEPT !.type = "payment_success", !.va = IF identified THEN @ ELSE NoVA]

SweepItem(s) ==
    /\ pc[s] = "idle"
    /\ \E e \in todo[s], identified \in BOOLEAN :
           /\ ~identified => e.bare
           /\ item' = [item EXCEPT ![s] = BuildWorkItem(e, identified)]
           /\ todo' = [todo EXCEPT ![s] = @ \ {e}]
    /\ Goto(s, "check")
    /\ UNCHANGED <<provider, vaStatus, ingest, posted, route, found, crashes, faults>>

\* ProcessDirect skips a transaction that exists.
CheckExisting(s) ==
    /\ pc[s] = "check"
    /\ IF Exists(ledger, item[s].tx)
       THEN Release(s)
       ELSE Goto(s, "match") /\ UNCHANGED <<item, route, found>>
    /\ UNCHANGED <<provider, vaStatus, ingest, posted, todo, crashes, faults>>

ToWallet(customer) == [account |-> customer, reason |-> "none"]

\* Mutant of ToSuspense: the suspense item is built without its reason.
ToSuspenseUnexplained(reason) == [account |-> Suspense, reason |-> "none"]

ToSuspense(reason) == [account |-> Suspense, reason |-> reason]

\* Mutant of Match: no case for a suspended account.
MatchSuspended(e) ==
    CASE StatusOf(e) = Missing  -> ToSuspense("unmatched")
      [] StatusOf(e) = "CLOSED" -> ToSuspense("closed_account")
      [] OTHER                  -> ToWallet(Owner[e.va])

Match(e) ==
    CASE StatusOf(e) = Missing     -> ToSuspense("unmatched")
      [] StatusOf(e) = "CLOSED"    -> ToSuspense("closed_account")
      [] StatusOf(e) = "SUSPENDED" -> ToSuspense("suspended_account")
      [] OTHER                     -> ToWallet(Owner[e.va])

MatchReversal(e) ==
    IF StatusOf(e) = Missing THEN ToSuspense("none") ELSE ToWallet(Owner[e.va])

\* The entries for an event posted along route r; none if the amount is refused.
Entries(e, r) ==
    CASE IsReversal(e) /\ r.account = Suspense  -> ReversalToSuspense(e.amount)
      [] IsReversal(e) /\ r.account # Suspense  -> ReversalEntries(r.account, e.amount)
      [] ~IsReversal(e) /\ r.account = Suspense -> CreditSuspense(e.amount)
      [] OTHER                                  -> CreditCustomer(r.account, e.amount)

MatchItem(p) ==
    LET e == item[p]
        r == IF IsReversal(e) THEN MatchReversal(e) ELSE Match(e)
    IN  /\ pc[p] = "match"
        /\ IF Entries(e, r) = {}
           THEN Abandon(p)
           ELSE /\ route' = [route EXCEPT ![p] = r]
                /\ Goto(p, IF IsReversal(e) \/ r.account = Suspense THEN "post" ELSE "tier")
                /\ UNCHANGED <<item, found>>
        /\ UNCHANGED <<provider, vaStatus, ingest, posted, todo, crashes, faults>>

\* A cap of zero, like a tier without limits, is no cap.
Breaches(total, amount, cap) == cap > 0 /\ total + amount > cap

\* One of the two reads of CheckTierLimitsForCustomer: over the cap, the credit
\* is routed to suspense; otherwise the process goes on to the next step.
CheckLimit(p, breach, next) ==
    /\ IF breach
       THEN /\ route' = [route EXCEPT ![p] = ToSuspense("tier_limit")]
            /\ Goto(p, "post")
       ELSE Goto(p, next) /\ UNCHANGED route
    /\ UNCHANGED <<provider, vaStatus, ingest, posted, item, found, todo, crashes, faults>>

\* The limits are checked only if the customer is found without its tenant.  A
\* customer that is found has its identity: both rows are inserted together.
CheckMaxBalance(p) ==
    LET c == route[p].account
    IN  /\ pc[p] = "tier"
        /\ CheckLimit(p,
               /\ TenantlessLookup
               /\ Breaches(GetBalance(ledger, c), item[p].amount, MaxBalance[c]),
               IF TenantlessLookup THEN "daily" ELSE "post")

\* The ids of the transactions that occurred on a day.
On(day) == {t \in TxIds : OccurredOn[t] = day}

\* The day is the present one, whenever the credit at hand occurred.
CheckDailyCredit(p) ==
    LET c == route[p].account
    IN  /\ pc[p] = "daily"
        /\ CheckLimit(p,
               Breaches(GetDailyCredits(ledger, c, On(today)), item[p].amount, DailyCredit[c]),
               "post")

Row(p) == [source |-> IF p = Worker THEN "webhook" ELSE "sweep",
           direction |-> IF IsReversal(item[p]) THEN "debit" ELSE "credit",
           entries |-> Entries(item[p], route[p])]

\* Mutants of AfterPost: the result created is ignored; a credit to suspense is
\* concluded without its item.
AfterPostUnchecked(p, created) ==
    IF IsReversal(item[p])
    THEN Conclude(p, "processed")
    ELSE /\ Goto(p, IF route[p].account = Suspense THEN "suspend" ELSE "find")
         /\ UNCHANGED <<item, route, found>>

AfterPostUnlisted(p, created) ==
    CASE IsReversal(item[p]) \/ (created /\ route[p].account = Suspense) ->
             Conclude(p, "processed")
      [] ~IsReversal(item[p]) /\ ~created -> Conclude(p, "ignored")
      [] OTHER -> Goto(p, "find") /\ UNCHANGED <<item, route, found>>

\* What follows a PostTransaction that inserted the row, and one that did not.
AfterPost(p, created) ==
    CASE IsReversal(item[p])      -> Conclude(p, "processed")
      [] ~IsReversal(item[p]) /\ ~created -> Conclude(p, "ignored")
      [] OTHER -> /\ Goto(p, IF route[p].account = Suspense THEN "suspend" ELSE "find")
                  /\ UNCHANGED <<item, route, found>>

\* PostTransaction refuses entries that do not balance.
Post(p) ==
    /\ pc[p] = "post"
    /\ IF AssertBalanced(Row(p).entries)
       THEN /\ ledger' = PostTransaction(ledger, item[p].tx, Row(p))
            /\ AfterPost(p, ~Exists(ledger, item[p].tx))
       ELSE Abandon(p) /\ UNCHANGED ledger
    /\ UNCHANGED <<provider, vaStatus, ingest, suspenseItems, collections, relayed,
                   todo, crashes, faults>>

CreateSuspenseItem(p) ==
    /\ pc[p] = "suspend"
    /\ suspenseItems' = [suspenseItems EXCEPT ![item[p].tx] = Append(@, route[p].reason)]
    /\ Conclude(p, "processed")
    /\ UNCHANGED <<provider, vaStatus, ingest, ledger, collections, relayed, todo,
                   crashes, faults>>

\* Mutant of FindOpenCollectionForVA: the amount asked for is not compared.
FindAnyOpenCollection(e) ==
    {c \in Collections : /\ collections[c].status = "open"
                         /\ ~collections[c].expired
                         /\ Request[c].va = e.va}

\* TryFulfill, first call: the oldest open collection the payment fits.
FindOpenCollectionForVA(e) ==
    {c \in Collections : /\ collections[c].status = "open"
                         /\ ~collections[c].expired
                         /\ Request[c].va = e.va
                         /\ Request[c].amount \in {0, e.amount}}

FindCollection(p) ==
    LET open == FindOpenCollectionForVA(item[p])
    IN  /\ pc[p] = "find"
        /\ IF open = {}
           THEN Conclude(p, "processed")
           ELSE /\ \E c \in open : /\ \A d \in open : c <= d
                                   /\ found' = [found EXCEPT ![p] = c]
                /\ Goto(p, "fulfill")
                /\ UNCHANGED <<item, route>>
        /\ UNCHANGED <<provider, vaStatus, ingest, posted, todo, crashes, faults>>

\* Mutant of Fulfilled: the UPDATE lacks its condition on the status.
FulfilledAlways(c, tx) ==
    [collections EXCEPT ![c] = [@ EXCEPT !.status = "fulfilled", !.by = tx]]

\* UPDATE collections ... WHERE id = c AND status = 'open'.
Fulfilled(c, tx) ==
    IF collections[c].status = "open"
    THEN [collections EXCEPT ![c] = [@ EXCEPT !.status = "fulfilled", !.by = tx]]
    ELSE collections

\* TryFulfill, second call.
FulfillCollection(p) ==
    /\ pc[p] = "fulfill"
    /\ collections' = Fulfilled(found[p], item[p].tx)
    /\ Conclude(p, "processed")
    /\ UNCHANGED <<provider, vaStatus, ingest, ledger, suspenseItems, relayed, todo,
                   crashes, faults>>

\* After the mark a credit that has an account, result.VA, goes on to the relay,
\* wherever it was posted.
AfterMark ==
    IF /\ pc[Worker] = "processed"
       /\ ~IsReversal(item[Worker])
       /\ route[Worker].reason # "unmatched"
    THEN Goto(Worker, "relay") /\ UNCHANGED <<item, route, found>>
    ELSE Release(Worker)

MarkWebhookProcessed ==
    /\ pc[Worker] \in Verdicts
    /\ webhookEvents' = [webhookEvents EXCEPT ![DedupeKey(item[Worker])] = pc[Worker]]
    /\ AfterMark
    /\ UNCHANGED <<provider, vaStatus, handlers, queue, posted, todo, crashes, faults>>

\* Mutant of CustomerID: the owner of the account, wherever the credit went.
CustomerIDOfVA(p) == {Owner[item[p].va]}

\* MatchResult.CustomerID, which every route to suspense leaves empty.
CustomerID(p) == {route[p].account} \ {Suspense}

\* dispatchRelay looks the customer up without its tenant, as the limits do; the
\* empty id finds nobody.
DispatchRelay ==
    /\ pc[Worker] = "relay"
    /\ relayed' = IF TenantlessLookup /\ CustomerID(Worker) # {}
                  THEN relayed \cup {item[Worker]}
                  ELSE relayed
    /\ Release(Worker)
    /\ UNCHANGED <<provider, vaStatus, ingest, ledger, suspenseItems, collections,
                   todo, crashes, faults>>

-----------------------------------------------------------------------------
(* Database errors and crashes.                                            *)

Fault == faults < MaxFaults /\ faults' = faults + 1

\* A call before the post fails, or the post itself with nothing committed.  The
\* totals of a customer are read only for a cap.
CallFails(p) ==
    /\ Fault
    /\ \/ pc[p] \in {"check", "match", "post"}
       \/ pc[p] = "tier" /\ TenantlessLookup /\ MaxBalance[route[p].account] > 0
       \/ pc[p] = "daily" /\ DailyCredit[route[p].account] > 0
    /\ Abandon(p)
    /\ UNCHANGED <<provider, vaStatus, ingest, posted, todo, crashes>>

\* An error of GetCustomer is taken for an unknown customer: the credit is posted
\* without a check of its limits, or not relayed.
LookupFails(p) ==
    /\ Fault
    /\ \/ /\ pc[p] = "tier"
          /\ Goto(p, "post")
          /\ UNCHANGED <<item, route, found>>
       \/ pc[p] = "relay" /\ Release(p)
    /\ UNCHANGED <<provider, vaStatus, ingest, posted, todo, crashes>>

\* The connection breaks after the commit: the row is there, the caller sees an
\* error.
CommitUnconfirmed(p) ==
    /\ Fault
    /\ pc[p] = "post"
    /\ AssertBalanced(Row(p).entries)
    /\ ledger' = PostTransaction(ledger, item[p].tx, Row(p))
    /\ Abandon(p)
    /\ UNCHANGED <<provider, vaStatus, ingest, suspenseItems, collections, relayed,
                   todo, crashes>>

\* The same happens to InsertWebhookEvent: the handler answers with an error and
\* enqueues nothing, and every redelivery will be taken for a duplicate.
InsertUnconfirmed(e) ==
    /\ Fault
    /\ e \in made
    /\ Inserted(DedupeKey(e))
    /\ webhookEvents' = [webhookEvents EXCEPT ![DedupeKey(e)] = "received"]
    /\ UNCHANGED <<provider, vaStatus, handlers, queue, posted, local, crashes>>

\* Errors of CreateSuspenseItem and TryFulfill are logged, nothing more.
SideEffectFails(p) ==
    /\ Fault
    /\ pc[p] \in {"suspend", "find", "fulfill"}
    /\ Conclude(p, "processed")
    /\ UNCHANGED <<provider, vaStatus, ingest, posted, todo, crashes>>

\* Errors of MarkWebhookProcessed are discarded.
MarkFails ==
    /\ Fault
    /\ pc[Worker] \in Verdicts
    /\ AfterMark
    /\ UNCHANGED <<provider, vaStatus, ingest, posted, todo, crashes>>

\* Queue, handlers and goroutines are gone; the database stays.
Crash ==
    /\ crashes < MaxCrashes
    /\ crashes' = crashes + 1
    /\ handlers' = {}
    /\ queue' = <<>>
    /\ pc' = [p \in Procs |-> "idle"]
    /\ item' = [p \in Procs |-> NoEvent]
    /\ route' = [p \in Procs |-> NoRoute]
    /\ found' = [p \in Procs |-> NoCollection]
    /\ todo' = [s \in Sweeps |-> {}]
    /\ UNCHANGED <<provider, vaStatus, webhookEvents, posted, faults>>

-----------------------------------------------------------------------------
Environment ==
    \/ \E e \in Events : MakePayment(e)
    \/ NextDay
    \/ \E v \in VAs : CreateVirtualAccount(v)
    \/ \E v \in VAs, status \in StatusUpdates : UpdateVAStatus(v, status)
    \/ \E c \in Collections : CreateCollection(c)
    \/ \E c \in Collections : CancelCollection(c)
    \/ \E c \in Collections : ExpireCollection(c)

\* The steps worker and sweeps share.
Pipeline(p) ==
    \/ MatchItem(p)
    \/ CheckMaxBalance(p)
    \/ CheckDailyCredit(p)
    \/ Post(p)
    \/ CreateSuspenseItem(p)
    \/ FindCollection(p)
    \/ FulfillCollection(p)

WorkerStep ==
    \/ Dequeue
    \/ Pipeline(Worker)
    \/ MarkWebhookProcessed
    \/ DispatchRelay

SweepStep(s) ==
    \/ SweepItem(s)
    \/ CheckExisting(s)
    \/ Pipeline(s)

Failure ==
    \/ \E p \in Procs : CallFails(p)
    \/ \E p \in Procs : LookupFails(p)
    \/ \E p \in Procs : CommitUnconfirmed(p)
    \/ \E e \in Events : InsertUnconfirmed(e)
    \/ \E p \in Procs : SideEffectFails(p)
    \/ MarkFails
    \/ Crash

Next ==
    \/ Environment
    \/ \E e \in Events : HandleNombaWebhook(e)
    \/ \E e \in Events : Enqueue(e)
    \/ WorkerStep
    \/ \E s \in Sweeps : ListTransactions(s)
    \/ \E s \in Sweeps : SweepStep(s)
    \/ Failure

Spec == Init /\ [][Next]_vars

-----------------------------------------------------------------------------
(* Safety.                                                                 *)

\* Ledger rows are never changed or removed, whoever posts an id a second time:
\* redelivered webhook, sweep against worker, sweep against sweep (README:
\* "the first writer wins, all subsequent attempts are no-ops").
LedgerAppendOnly ==
    [][\A t \in TxIds : Exists(ledger, t) => ledger'[t] = ledger[t]]_vars

\* A transaction has at most one suspense item, and only if its money is in
\* suspense: of all processes that race to post it, only the one whose insert
\* created the row goes on to CreateSuspenseItem.
AtMostOneSuspenseItem ==
    \A t \in TxIds :
        /\ Len(suspenseItems[t]) <= 1
        /\ suspenseItems[t] # <<>> => Credited(ledger[t]) = {Suspense}

\* As long as nothing crashed or failed, money in suspense can be resolved: it
\* has its suspense item, or the process that posted it is about to create it.
SuspenseFundsListed ==
    \A t \in TxIds :
        (Credited(ledger[t]) = {Suspense} /\ crashes = 0 /\ faults = 0) =>
            \/ suspenseItems[t] # <<>>
            \/ \E p \in Procs : pc[p] = "suspend" /\ item[p].tx = t

\* The status of a webhook event tells the truth about the ledger: a processed
\* credit is the worker's own posting, an ignored one was posted by somebody
\* else, and a processed reversal has its row.
VerdictTruthful ==
    \A e \in Events :
        LET verdict == webhookEvents[DedupeKey(e)]
        IN  /\ (e.type = "payment_success" /\ verdict = "processed") =>
                   /\ Exists(ledger, e.tx)
                   /\ ledger[e.tx].source = "webhook"
                   /\ ledger[e.tx].direction = "credit"
            /\ (e.type = "payment_success" /\ verdict = "ignored") =>
                   Exists(ledger, e.tx)
            /\ (IsReversal(e) /\ verdict = "processed") => Exists(ledger, e.tx)

\* The worker decides about a stored event once: redeliveries never reopen it.
VerdictFinal ==
    [][\A k \in DedupeKeys :
           webhookEvents[k] \in Verdicts => webhookEvents'[k] = webhookEvents[k]]_vars

\* A status at which the matcher credits the wallet.
Open == {"PENDING", "ACTIVE"}

\* Did the account of event e have, at some moment since the payment was made,
\* a status that explains the reason?
Explains(e, reason) ==
    CASE reason = "closed_account"    -> "CLOSED" \in since[e]
      [] reason = "suspended_account" -> "SUSPENDED" \in since[e]
      [] reason = "unmatched"         -> Missing \in since[e] \/ e.bare
      [] OTHER                        -> since[e] \cap Open # {}

\* A credit goes where the account's status sent it, at a status the account
\* had after the payment was made: never to a wallet whose account was closed
\* or suspended all the time since, never to suspense for a reason that did not
\* exist, never to another customer.
RoutingJustified ==
    \A t \in TxIds : ledger[t].direction = "credit" =>
        \E e \in made :
            /\ e.tx = t
            /\ \/ ledger[t].entries = CreditSuspense(e.amount)
               \/ /\ e.va # NoVA
                  /\ ledger[t].entries = CreditCustomer(Owner[e.va], e.amount)
                  /\ since[e] \cap Open # {}
            /\ \A i \in DOMAIN suspenseItems[t] : Explains(e, suspenseItems[t][i])

\* The settlement account owes the customers and suspense what the provider
\* holds for the posted events, and the books balance over all accounts.
SettlementMirrorsProvider ==
    LET signed(e) == IF IsReversal(e) THEN e.amount ELSE -e.amount
    IN  /\ GetBalance(ledger, Settlement) =
               SumFunction([e \in {x \in made : Exists(ledger, x.tx)} |-> signed(e)])
        /\ SumFunction([a \in Accounts |-> GetBalance(ledger, a)]) = 0

\* A collection is fulfilled by a payment into its own account for the amount
\* asked, and one payment fulfils one collection at most.
FulfilledByOwnPayment ==
    \A c \in Collections : collections[c].status = "fulfilled" =>
        /\ \E e \in made :
               /\ e.tx = collections[c].by
               /\ e.va = Request[c].va
               /\ Request[c].amount \in {0, e.amount}
               /\ Credited(ledger[e.tx]) = {Owner[e.va]}
        /\ \A d \in Collections \ {c} : collections[d].by # collections[c].by

\* A cancelled or fulfilled collection stays as it is, although TryFulfill acts
\* on a row it read one call earlier.
CollectionTerminal ==
    [][\A c \in Collections : collections[c].status \in {"fulfilled", "cancelled"} =>
           collections'[c] = collections[c]]_vars

\* The tenant is told only of credits the worker itself posted to a wallet: not of
\* what a sweep posted first, and not of what went to suspense although its account
\* and owner are known, because it is closed, suspended or over its limit.
RelayedWereCredited ==
    \A e \in relayed :
        /\ ledger[e.tx].source = "webhook"
        /\ Credited(ledger[e.tx]) \subseteq Customers

\* No credit takes a wallet over the limits of its customer's tier (README:
\* "A credit that would breach either limit is routed to suspense").
TierLimitsHold ==
    \A c \in Customers :
        /\ MaxBalance[c] > 0 => GetBalance(ledger, c) <= MaxBalance[c]
        /\ DailyCredit[c] > 0 => \A day \in 0..MaxDay :
               GetDailyCredits(ledger, c, On(day)) <= DailyCredit[c]

\* A reversal takes the money back from the account its credit was posted to
\* before (ledger.go on ReversalToSuspense: "used when a reversal arrives but
\* the original credit went to suspense").
ReversalFollowsOriginal ==
    [][\A e \in Events :
           (/\ IsReversal(e)
            /\ ledger[e.original].direction = "credit"
            /\ ~Exists(ledger, e.tx)
            /\ ledger'[e.tx].direction = "debit") =>
               Debited(ledger'[e.tx]) = Credited(ledger[e.original])]_vars

-----------------------------------------------------------------------------
(* Liveness.  The goroutines of a live process run: the worker loop, every *)
(* webhook handler up to its end, every sweep that has started.  Nothing   *)
(* obliges the provider, the tenants or whoever starts sweeps.             *)

Fairness ==
    /\ WF_vars(WorkerStep)
    /\ \A e \in Events : WF_vars(Enqueue(e))
    /\ \A s \in Sweeps : WF_vars(SweepStep(s))

FairSpec == Spec /\ Fairness

\* With a monitor that keeps calling /internal/sweep.
SweptSpec == FairSpec /\ \A s \in Sweeps : WF_vars(ListTransactions(s))

Queued(e) == \E i \in DOMAIN queue : queue[i] = e

\* Every event that made it into the queue is decided, and unless it reports a
\* failed payment, or one the ledger refuses, it is posted.  The worker has no
\* way of losing an item it has taken.
QueuedEventsSettle ==
    \A e \in Events :
        Queued(e) ~> /\ webhookEvents[DedupeKey(e)] \in Verdicts
                     /\ \/ Exists(ledger, e.tx)
                        \/ e.type = "payment_failed" \/ e.amount <= 0

\* Stored and acknowledged, but nobody works on it any more.
Dropped(e) ==
    /\ webhookEvents[DedupeKey(e)] = "received"
    /\ e \notin handlers
    /\ ~Queued(e)
    /\ item[Worker] # e

\* worker.go on Enqueue: "the sweep recovers any dropped items on the next run".
DroppedEventsRecovered ==
    \A e \in Events : Dropped(e) ~> Exists(ledger, e.tx)
=============================================================================
