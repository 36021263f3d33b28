# VaultNUBAN: TLA+ specifications

VaultNUBAN gives the customers of its tenants dedicated bank account numbers
(virtual accounts, NUBANs) at a provider (Nomba) and keeps a double-entry ledger
of what is paid into them. These modules model how a payment event becomes a
ledger transaction, how money that could not be attributed leaves the suspense
account, how customers withdraw, how the sweep finds what webhooks missed, and how
the API server starts, authenticates, deduplicates and serves the requests of
tenants and operator. TLC checks them on small instances; TLAPS proves nearly
all their safety properties for instances of any size.

## 1. Inventory

| Component | State | Operations | Interacts with | Hard because |
|---|---|---|---|---|
| Ledger (`ledger/`, `postgres/transaction_repo.go`) | tables `transactions`, `ledger_entries` | entry constructors, `PostTransaction`, balances | everything that posts | idempotence by primary key is the only arbiter between racing posters |
| Webhook ingestion (`handlers/webhook.go`, `webhook_repo.go`) | table `webhook_events` | dedupe insert, ack, `Enqueue` | worker queue | redelivery, full queue, lost answers, crash between insert and enqueue |
| Recon worker (`recon/worker.go`) | in-memory queue, one goroutine | `process`, `processCredit`, `processReversal` | matcher, ledger, suspense, collections, relay | each database call is separate; errors end in several different ways |
| Matcher, tier limits (`recon/matcher.go`, `config/tier_limits.go`) | none; cached limits | `Match`, `MatchReversal`, `CheckTierLimitsForCustomer` | virtual accounts, ledger | acts on statuses and totals that may be stale at the post |
| Sweep (`recon/sweep.go`, `handlers/sweep.go`) | table `sweep_runs` | `Run`, `ProcessDirect` | provider listing, same pipeline as the worker | concurrent with worker and with other sweeps; window arithmetic |
| Collections (`service/collection.go`) | table `collections` | create, cancel, `TryFulfill` | worker, sweeps | find and fulfil are two calls |
| Suspense (`service/suspense.go`) | table `suspense_items` | reassign, refund flag | ledger | read, post, update, audit are four calls |
| Virtual accounts (`service/provisioning.go`) | table `virtual_accounts` | provision, rename, suspend, unsuspend, close | provider, matcher | provider and table change in two calls; unconditional status update after an earlier read |
| Withdrawals (`service/withdrawal.go`) | table `withdrawals` | `Initiate` | provider, ledger | balance check, payout and debit are not atomic; ambiguous timeouts |
| Customers, KYC (`service/customer.go`) | `customers`, `identities`, `audit_log` | create, tier change | limits | tenant filter; the audit entry follows the write |
| Relay (`relay/relay.go`) | `relay_deliveries` | dispatch, deliver, retry, replay | tenants | retries, back-off, duplicates |
| Provider client (`nomba/client.go`) | token cache | single-flight refresh | all provider calls | waiters of a failed refresh |
| Provider adapter (`nomba/adapter.go`) | none | JSON mapping, naira to kobo | ingestion, sweep | two different conversions of one amount |
| Idempotency (`middleware/idempotency.go`) | Redis keys | in-flight mark, replay | all POSTs | 30 s mark against slow handlers |
| Keys, logins (`middleware/auth.go`, `handlers/apikeys.go`) | `api_keys` | authenticate, create, revoke | all tenant routes | a key is revoked while its request is served |
| Settings (`handlers/settings.go`, `config/tier_limits.go`) | `settings`, cache in the process | `PutTierLimits`, hot reload | matcher | store and reload are two steps; a value is parsed after it is stored |
| Start-up, tenants (`cmd/server`, `store/db.go`, `handlers/auth.go`) | `schema_migrations`, `tenants`, `user_credentials` | migrate, load limits, seed, onboard | everything | several statements without a transaction, crash and restart |
| Reports, health, logging | - | queries | - | not modelled, see 7 |

What makes them correct: an event is posted at most once and never changed; it is
posted where its account's status sends it; money in suspense can always be found
by an operator; the status of a webhook event tells the truth about the ledger;
a wallet stays within its tier limits; a reversal takes money from where it went;
collections and suspense items close once; what was acknowledged is eventually
posted; a retried request is executed once; a tenant reaches only its own rows;
provider, tables and audit log agree; the sweep's windows leave nothing out; the
limits in force are the stored ones. `PROJECT.json` lists the hazards line by line.

## 2. Modules

* `Ledger` - a module of operators, no variables. The ledger is a function from
  transaction ids to rows `[source, direction, entries]`; an id that was never
  inserted maps to `Absent`, whose entries are empty. Constructors refuse an
  amount that is not positive by returning no entries. `PostTransaction` is
  `INSERT ... ON CONFLICT DO NOTHING`.
* `Recon` - ingestion, worker, sweeps, matcher, limits, fulfilment, relay
  hand-over. Worker and sweeps are processes with a program counter; every call
  on the database is one step. Virtual accounts, collections, provider and
  webhook deliveries change independently between any two steps.
* `SuspenseResolution` - concurrent `PATCH /v1/suspense/{id}` requests, one step
  per call, with errors, lost answers and retries.
* `Withdrawals` - concurrent `POST .../withdrawals` requests, one step per call on
  database or provider, beside the postings of reconciliation. The provider's
  transfer is done, pending or rejected, and the status it answers is not looked
  at by the code; a lost answer is recorded as failed.
* `SuspenseLife` - what `SuspenseResolution` promises: for each item who has its
  money and how it is resolved. `SuspenseResolution` instantiates it with `holder`
  computed from the ledger (`Holder`), so that posting the resolution is `Move`,
  the status update is `Reassign` or `FlagRefund`, and everything else stutters.
* `TokenCache` - `Client.accessToken`: the cached token, the channel in flight, and
  callers that refresh, wait or give up.
* `Sweep` (extends `TokenCache`) - the windows of the sweep over time: `ran_at`,
  interval, overlap, backfill, pages, the run log, concurrent runs, the moment the
  provider lists a payment, and the amount each source posts.
* `Gateway` - the way of a request through authentication and the idempotency
  middleware on Redis to a route and back; the routes on API keys.
* `Customers` (extends `Gateway`), `VirtualAccounts` (extends `Customers`), `Relay`
  and `Platform` (extend `Gateway`) - the routes, one step per call on database or
  provider. `Platform` also has start-up, seeding, shutdown and the tier limits.
* `TenantAPI` - the composition: all of them in one server, with crashes that take
  every handler, goroutine and cache and leave database and Redis.
* `Sums`, `LedgerProofs`, `ReconProofs`, `BooksProofs` (extends `ReconProofs`),
  `SuspenseProofs`, `WithdrawalProofs`, `SweepProofs`, `TenantProofs` - theorems and
  their proofs.
* `MCRecon`, `MCSuspenseResolution`, `MCWithdrawals`, `MCTenantAPI`, `MCSweep` - the
  instances TLC checks.

The modules meet in the tables: `Recon` and `SuspenseResolution` and `Withdrawals`
share `Ledger`; the statuses `VirtualAccounts` writes are what `Recon` admits as
`vaStatus` (every status change of the repository, stale ones included); `Relay`
begins where `Recon` hands an event to `Dispatch`; the limits `Platform` keeps are
the constants `MaxBalance` and `DailyCredit` of `Recon`; `Sweep` takes as one step
what `Recon` does with a listed payment.

Definitions carry the names of the functions they model; `PROJECT.json` ("map")
gives the lines. Definitions whose comment begins with "Mutant of" are plausible
bugs; put in place of the original, TLC finds the property violated.

### State of `Recon` and the code

| Variable | Code |
|---|---|
| `webhookEvents` | `webhook_events.status` by `dedupe_key`; `"none"` if there is no row |
| `handlers` | handlers that have inserted and not yet called `Enqueue` |
| `queue` | `Worker.queue` |
| `ledger`, `suspenseItems`, `collections` | the tables; `suspenseItems[t]` lists the reasons of all items of `t` |
| `relayed` | events given to `Dispatcher.Dispatch` |
| `pc`, `item`, `route`, `found`, `todo` | local variables of worker and sweeps |
| `vaStatus` | `virtual_accounts.status` |
| `today` | the UTC date of the server |
| `made`, `since` | the provider's events; the statuses an event's account has had since the payment (history, used by properties only) |
| `crashes`, `faults` | bounded counters of crashes and database errors |

Abstractions. `accountRef` and NUBAN of an event name one row, `va`. A payment
occurred on `OccurredOn[tx]` and may be processed on a later day: the daily cap adds up
the credits that occurred `today`, whatever the day of the credit at hand, as the code
does. Signature, age and
parse failures are deliveries that change nothing and are left out. The sweep's
window and pages are any non-empty subset of the listed events. `payment_failed`
stands for every event type that is not posted. A listing without account fields
whose requery fails is an event without account. `GetCustomer` with an empty
tenant is the constant `TenantlessLookup`: TRUE for the in-memory store, FALSE
for PostgreSQL. The status of an account changes by the repository's
unconditional UPDATE under the unique index on ACTIVE accounts: this admits every
status change the services can make, stale ones included.

### State of the API modules and the code

| Variable | Code |
|---|---|
| `issued` | `api_keys.active`; `"no"` for a row that does not exist yet |
| `redis` | `idem:{tenant}:{key}`: unset, the in-flight mark, or a stored answer |
| `task` | what a goroutine of the HTTP server has: request, tenant, the row read |
| `workload` | the requests the clients of a behaviour make (one part of the API each) |
| `executed`, `lapsed` | history: keys a route ran under; keys whose mark expired |
| `customers`, `audit`, `va` | the tables |
| `newest` | the newest entry of `audit_log` on each customer and account: the order of `at`, as far as a property needs it |
| `bank` | the provider's accounts with their name and status (external) |
| `raced` | history: customers with two overlapping requests on their account |
| `endpoints`, `deliveries`, `dispatched` | relay tables, with the attempts still under way, and those that a fault (`lost`) or a regular stop (`killed`) ended without a row; events handed over |
| `boot` | how far the process is in `main` and `seedDemoData` |
| `schema`, `setting`, `firms`, `creds`, `demo` | `schema_migrations`, `settings`, `tenants`, `user_credentials`, customers created by seeding |
| `cache` | `TierLimitsCache.limits` |
| `disturbed` | history: the last PUT overlapped another or went unanswered |

In `Sweep`, `last` is the newest `ran_at` without error, `run` what each sweep is
at, `pay` when a payment was made and listed, `posted` source and amount of its
transaction; `floor`, `longest` and `missed` (what a run was sent, and skipped as
malformed or failed to process) are history. In `TokenCache`, `token`
is cached, `call` is what each caller is at. Amounts are kobo; `Error[p]` is the sign
of the rounding error of `amount * 100` in floating point, which is all that the two
conversions (truncation in the webhook, rounding in the listing) tell apart.

## 3. Runs

| Run | Specification | States | Shows |
|---|---|---|---|
| `race` (`ReconRace.cfg`) | `Spec` | 466 k | one worker and one sweep race for a payment whose account comes, is suspended, reopened and closed; a second payment has no account; queue of 1, one crash, one database error |
| `limits` (`ReconLimits.cfg`) | `FairSpec` | 48 k | one worker, four events on two days, caps of 2 kobo: every queued event is decided and posted on every path, the diverted ones included |
| `collections` (`ReconCollections.cfg`) | `Spec` | 2.6 M | worker and sweep, two payments, two collections (exact amount, any amount), cancel, expiry, a suspension, a cap that diverts, one database error |
| `suspense` (`SuspenseResolution.cfg`) | `FairSpec` | 59 k | two items, five requests (three compete for one item, one names an unknown customer), two faults |
| `withdrawals` (`Withdrawals.cfg`) | `FairSpec` | 13 k | three requests (two that fit the balance one at a time, one for an unknown customer), a credit and a reversal of the same wallet, two faults |
| `tenant_api` (`TenantAPI.cfg`) | `FairSpec` | 1.5 M | two handlers, two tenants and the operator; seven workloads: retried keys, account lifecycle, renames, enrolment, relay, settings, onboarding; one fault or crash, regular stops, restarts |
| `sweep` (`Sweep.cfg`) | `Spec` | 2.7 M | two sweeps and another caller share the token for two payments at one moment, or two sweeps make three runs over a time longer than interval and overlap; one fault |

Five more runs are violations: each checks one sentence of a document or a comment
that the code does not keep (below).

Properties of `race`: `AtMostOneSuspenseItem`, `SuspenseFundsListed`,
`VerdictTruthful` (section 5), `RoutingJustified` (every credit went where a
status of its account since the payment sent it), `SettlementMirrorsProvider`
(the settlement account is the mirror of the posted provider events and all
accounts sum to zero), `LedgerAppendOnly`, `VerdictFinal` (redeliveries never
reopen a verdict). Of `limits`: `QueuedEventsSettle`. Of `collections`:
`FulfilledByOwnPayment`, `CollectionTerminal`, `RelayedWereCredited` (credits of a
closed or suspended account and credits over a limit do enter `dispatchRelay`, with
an empty customer id; none is handed to a tenant. The run has the store that finds
customers, because with PostgreSQL nothing is handed over at all). Of `suspense`:
`ReassignedMoved`, `SuspenseHoldsTheRest`, `ImplementsSuspenseLife` (the refinement),
`MovedItemsClose`. Of `withdrawals`: `OverdraftNeedsRace` (a withdrawal overdraws a
wallet only if the wallet was debited after its balance check),
`StatusMatchesLedger`, `PaidIsDebited`, `WithdrawalsSettle`.

Of `tenant_api`: `ExecutedOnce` (a route runs again under a key, and an answer is
overwritten, only after the mark of the key expired), `TenantIsolation` (rows,
accounts and replays), `DeadLetterEarned`, `EveryAttemptRecorded` (an attempt ends in
a row as long as the server runs and nothing fails), `LimitsInForce` (cache and
table agree outside a PUT unless the last one was disturbed or malformed, and a
start is refused only for a malformed value or a torn migration), `TenantsComplete`
(seeding is idempotent over restarts, and tenants are complete unless an email was
taken or named twice), `BankAgrees` (name and status at the provider
and in the table differ only through a fault or overlapping requests, except that the
provider does not learn of an unsuspend), `ReopenedOnlyByStaleRead` (the only way out
of CLOSED is a lost update: a request that read another status and overlapped the
close), `ChangesAudited` (the log explains tiers and statuses whoever wrote last),
`LogEndsWithStatus` (its newest entry does, where no two requests overlapped). Of
`sweep`: `OneRefresh`, `NobodyStranded`, `SentTokensFresh`, `NothingSkipped` (an
unposted payment is in the next window if the time to list it and the longest run fit
in the overlap), `PostedAmounts`.

### The disagreements

Each is a run with `expect: violation`; `findings` quotes the sentence.

| Run | Property | What the code does |
|---|---|---|
| `limits_postgres` | `TierLimitsHold` | `worker.go:126` looks the customer up with an empty tenant; `customer_repo.go` filters by tenant, finds nobody and the limits are skipped. The in-memory store of the tests treats the empty tenant as a wildcard, so no test can notice. |
| `reversal` | `ReversalFollowsOriginal` | `MatchReversal` debits the wallet whenever the account exists, also when the credit had gone to suspense, which `ledger.go:58` reserves `ReversalToSuspense` for. |
| `dropped` | `DroppedEventsRecovered` | `Enqueue` promises that the sweep recovers what a full queue drops; the sweep lists incoming transfers only and makes credits of them. |
| `refund` | `RefundFlaggedStays` | `reassign` posts before it updates the status, so a `refund_flagged` that read the item open can come between. "Funds remain in suspense" fails. |
| `va_closed` | `ClosedIsTerminal` | `UpdateVAStatus` is unconditional; a request that read the account before a close writes over the CLOSED. |

### Bounds

Two processes, two or three transaction ids and one customer suffice for every
race over one id, over one account and over one collection; a third process only
repeats what the second can do to the first, and `ReconProofs` covers any number.
One fault and one crash reach each point between two calls; `suspense` has two
faults, so that a retry can fail as well, and `withdrawals` two, so that the call
after a lost answer can fail as well (a client that disconnects cancels both). The queue of one overflows with two
events. Amounts 1 and 2 against a cap of 2 give credits below, at and above it. Two days
(`MaxDay` = 1) give a credit processed on its own day and one processed late.
`MaxCrashes`, `MaxFaults`, `MaxDay` and `QueueSize` are constants named in the guards.
The violation runs have no fault: each sentence fails without one.

In `tenant_api` two handlers give every race between two requests; requests come
back without limit, so long sequences are covered. A behaviour draws its requests
from one workload, because the parts of the API share only authentication,
idempotency and crashes; each workload has requests of the wrong tenant. Four
deliveries reach `dead_letter` by replays; four tenants allow the demo tenant, one
that is seeded again after a fault, and two that are onboarded. Two migrations have
one before and one after a crash. Operator workloads start with an empty database,
the others with the platform in place. In `sweep` a clock of 0 to 3 with interval
and overlap of 1 has windows that touch, overlap and leave a gap; `Focuses` separates
calls at one moment from runs over time; sweeps are interchangeable (symmetry, only
invariants are checked).
Deadlock is not checked: when all events are made and processed the model has
nothing left to do, as has the idle server.

### Fairness

`Fairness` of `Recon`: the worker goroutine, each webhook handler that has
inserted its event and each started sweep keep running while the process lives -
Go's scheduler and the time limits on calls give that. Nothing is assumed of
provider, tenants or whoever triggers sweeps; `SweptSpec` adds the cron job that
calls `/internal/sweep` again and again, which makes the violation of `dropped`
stronger. In `SuspenseResolution` handlers end, and an operator who got no answer
asks again; `MovedItemsClose` depends on that. In `Withdrawals` only the handlers
are fair; the provider need not settle a pending transfer. In `TenantAPI` some
delivery goroutine moves on while one can (the HTTP client and the pool have time
limits), which is enough because attempts are bounded; handlers, clients, Redis and whoever restarts the process are not.

## 4. What the passing runs do not say

No passing run says anything of the tier limits: in production they are not checked
(`limits_postgres`), and where they would be, two checks can pass before either post,
an error of `GetCustomer` skips the check (`LookupFails`), and a late credit is checked
against the wrong day. `SuspenseFundsListed` is stated
for runs without error and crash: after one, money can be in suspense without an
item (`SideEffectFails`, `CommitUnconfirmed`, `Crash` after `Post`), and nothing
in the code finds it again. In `suspense`, a second reassignment to another
customer is answered "resolved" though the money went to the first. In
`withdrawals`, `OverdraftNeedsRace` names the race that does overdraw a wallet;
`PaidIsDebited` is stated for runs without error (a lost answer of the provider is
recorded as failed and nothing debits the wallet), and its converse does not hold:
a transfer the provider answers as failed is debited and completed.

A `failed` event says nothing of its row: after a lost answer of the commit it can be
there. A listing without account whose requery failed is posted to suspense for good;
`RoutingJustified` has it as a reason.

In `tenant_api` several properties name the race or failure they exclude, and each of
these is reachable: two provisioning requests open two accounts at the provider, of
which one is recorded; renames that overlap leave different names; of two overlapping
changes the second to write may be the first in the log; a best-effort call to the
provider that fails leaves the account open there. A PUT with a key that is not an
integer is answered 500 but stored, and the next start exits. One failed insert while
seeding can leave the demo data incomplete for good. Onboarding that meets a taken
email leaves a tenant without all its users, and the ones created cannot be created
again.

Some of the cases a property excludes contradict a sentence of the repository. They
have no run of their own; the passing property names the case, the model reaches it:

| Excluded by | What the code does | What is said |
|---|---|---|
| `RelayedWereCredited` (needs `TenantlessLookup`) | `worker.go:210` finds no customer in PostgreSQL: no wallet credit is handed to the relay | `relay.go:3-4`: posted credits are fanned out |
| no action | `RetryPending` has no caller: a failed delivery is sent again only by a replay | `README.md:337`, `relay.go:91`: retried periodically |
| `EveryAttemptRecorded` (`Killed`) | a regular stop waits for handlers, not for delivery goroutines (`main.go:191-201`) | `relay.go:4-5`: each delivery is logged |
| `BankAgrees` (ACTIVE here, suspended there) | the provider has no call that lifts a suspension | `openapi.yaml:1104`: restores a suspended account |
| `ExecutedOnce` (`lapsed`) | the mark lives 30 s, as long as one provider call may take; a retry runs a slow route again | `README.md:257`: not executed again |
| `SentTokensFresh` (`faults`) | a waiter of a failed refresh gets the old or empty token and no error | `client.go:48`: returns a valid token |
| `NothingSkipped` (`missed`) | an entry skipped as malformed and older than the overlap is not in the next window | `adapter.go:258`: the next window retries it |
| `LimitsInForce` (`disturbed`) | two PUTs are stored in one order and loaded in the other | `settings.go:43`: changes take effect immediately |
| `LimitsInForce` (torn migration) | a migration applied and not recorded refuses every later start | `README.md:472`: applied idempotently |
| `TenantsComplete` (`faults`) | seeding that ends between tenant and first user starts again with a second tenant | `seed.go:17`: idempotent |
| `WithdrawalsSettle` (`faults`) | paid, and the posting fails: the record stays in processing | `README.md:360`: ends completed or failed |

Observed while modelling, and part of the model without being a property: close,
suspend and unsuspend of a customer that is not there, or is another tenant's, are
answered 204; answers of 5xx are stored under the idempotency key for 24 hours like any other, and a key is
not bound to a path; the loser of a race for an `external_ref` is answered 500.
`NothingSkipped` excludes entries that were skipped as malformed, items that failed in a
run and runs that last longer than the overlap: those payments may not be listed again.
`GetLastSweepTime` takes every error for an empty table.

## 5. Proofs

Every theorem holds for all values of the constants that satisfy the named
assumptions of the modules: any sets of events, accounts, processes, requests,
sweepers and callers, any bounds on crashes and faults. `FiniteAssumption` (finitely
many transactions and customers) is there because balances are sums over them; that
`NoEvent`, `None` and the like differ from the real values is what NULL means in
the tables.

`Sums` has the facts about finite sums that balances need: what a sum is when an
element is added, changed or moved. The library's induction theorems cannot be
instantiated by the provers, so the predicate of an induction is given as a set, and
a set that misses a subset of a finite set misses a smallest one (`SubsetInduction`).

`LedgerProofs` has the lemmas about posting that the proofs of `Recon`,
`SuspenseResolution` and `Withdrawals` share: what `PostTransaction` keeps, the
entries of the constructors, what a posted transfer does to a balance and that it
leaves the sum over all accounts alone.

### The reconciliation pipeline (`ReconProofs`, `BooksProofs`)

| Theorem | Statement |
|---|---|
| `TypeCorrect` | `Spec => []TypeOK` |
| `LedgerIsAppendOnly` | `Spec => LedgerAppendOnly` |
| `SafetyInvariant` | `Spec => [](TypeInv /\ SafetyInv)` |
| `SuspenseItemUnique` | `Spec => []AtMostOneSuspenseItem` |
| `SuspenseComplete` | `Spec => []SuspenseFundsListed` |
| `VerdictsTrue` | `Spec => []VerdictTruthful` |
| `OriginInvariant` | `Spec => []OriginInv` |
| `RoutingAlwaysJustified` | `Spec => []RoutingJustified` |
| `CollectionsPaidFor` | `Spec => []FulfilledByOwnPayment` |
| `CollectionsTerminal` | `Spec => CollectionTerminal` |
| `RelaysAreCredits` | `Spec => []RelayedWereCredited` |
| `VerdictsFinal` | `Spec => VerdictFinal` |
| `BooksMirrorProvider` | `OwnTransactions => (Spec => []SettlementMirrorsProvider)` |

`TypeOK` is not inductive: a process indexes tables by its `item` and writes its
`route`. `TypeInv` adds `ItemsPresent` (a process that is not idle has an item)
and `RoutesExplained` (a credit routed to suspense has a reason).

`AtMostOneSuspenseItem` is not inductive either: nothing in it says that the
process about to create an item is the only one. `SafetyInv` adds a `Claim` for
each process - what its program counter says about the row of its transaction:
at `suspend` the row is a credit to suspense without an item yet, a pending
verdict of the worker is true of the ledger - and `Exclusive`: two processes past
the post never work on the same transaction. Both rest on `PostTransaction`
telling exactly one poster that it created the row.

`OriginInv` says where the item of a process comes from: a payment the provider has
made (`Source`), with a route that a status of the account justified at some moment
since (`Routed`), and, past the post, the row the process itself has written
(`Written`). `RoutingJustified`, the collections and the relays follow from it: a credit that reaches
`dispatchRelay` with a customer id went to that customer's wallet.
The actions are first sorted into a few shapes of steps - a process moves on, posts,
creates an item, fulfils a collection, ends - so that the later invariants look at
the shapes and not at every action again.

`VerdictFinal` needs `DeliveredOnce`: between the insert under its dedupe key and the
mark, an event is in one place only (with a handler, once in the queue, or with the
worker), and its row says received.

`BooksMirrorProvider` has a hypothesis. `OwnTransactions` says that two events do
not share a transaction id and that no listed event is a reversal. Without it the
statement is false: a reversal under the id of its credit is never posted (see
`hazards`), and a reversal that the sweep finds listed is posted as a credit.

### Suspense resolution (`SuspenseProofs`)

| Theorem | Statement |
|---|---|
| `SuspenseInvariant` | `Spec => []` of the inductive invariant |
| `SuspenseTypeCorrect` | `Spec => []TypeOK` |
| `ReassignedMovedAlways` | `Spec => []ReassignedMoved` |
| `SuspenseHoldsTheRestAlways` | `Spec => []SuspenseHoldsTheRest` |
| `SuspenseRefines` | `Spec => ImplementsSuspenseLife` |

`ReassignedMoved` needs to know that a request about to write `reassigned` has seen
the resolution in the ledger, and that a resolution row, once there, is a transfer
from suspense to one customer and stays. With that, `Holder` changes only when
`PostTransaction` inserts the row, from suspense to a claimant, and the refinement
follows step by step: one lemma per action, a step of `SuspenseLife` or a stutter.
`SuspenseHoldsTheRest` adds the sums: the row that is inserted takes from the balance
of suspense what leaves the sum over the items.

### Withdrawals (`WithdrawalProofs`)

| Theorem | Statement |
|---|---|
| `WithdrawalInvariant` | `Spec => []WithdrawalInv` |
| `TypeCorrect` | `Spec => []TypeOK` |
| `StatusAgreesWithLedger` | `Spec => []StatusMatchesLedger` |
| `PaidMoneyIsDebited` | `Spec => []PaidIsDebited` |
| `OverdraftsAreRaces` | `Spec => OverdraftNeedsRace` |

`WithdrawalInv` has, for each request, what its step says of its record, its transfer
and its row (`Progress`): no row before `post`, a row of exactly this debit at
`complete`, a request past the balance check had enough when it looked. The overdraft
theorem then is arithmetic on the balance after one posting.

### Sweeps and the token cache (`SweepProofs`)

| Theorem | Statement |
|---|---|
| `TokenInvariant` | `Spec => []TokenInv` |
| `SingleFlight` | `Spec => []OneRefresh` |
| `WaitersAreServed` | `Spec => []NobodyStranded` |
| `TokensValid` | `Spec => []SentTokensFresh` |
| `SweepInvariant` | `Spec => []SweepInv` |
| `TypeCorrect` | `Spec => []TypeOK` |
| `OverlapSuffices` | `Spec => []NothingSkipped` |
| `AmountsExact` | `Spec => []PostedAmounts` |

`TokenInv` adds that the channel in flight is that of the one caller who fetches
(so nobody else can start), and that a refresh that did not fail has stored its
token before it closes the channel. Steps of the sweep that are not calls leave the
token cache alone (`SweepSteps`).

`NothingSkipped` speaks of the time in the run log; when a run writes it, every
payment in its window must be accounted for. `RunInv` carries that through a run: its
window reaches back to where the next one would start, and once it has a listing,
every payment that was listed in time is posted, missed, or on the pages ahead.

### The API server (`TenantProofs`)

| Theorem | Statement |
|---|---|
| `TenantInvariant` | `Spec => []TenantInv` |
| `TenantTypeCorrect` | `Spec => []TypeOK` |
| `TenantsAreIsolated` | `Spec => TenantIsolation` |
| `RoutesExecuteOnce` | `Spec => ExecutedOnce` |
| `BankAndTableAgree` | `Spec => []BankAgrees` |
| `OnlyStaleReadsReopen` | `Spec => ReopenedOnlyByStaleRead` |
| `ChangesAreAudited` | `Spec => []ChangesAudited` |
| `DeadLettersAreEarned` | `Spec => []DeadLetterEarned` |
| `LimitsAreInForce` | `Spec => []LimitsInForce` |
| `TenantsAreComplete` | `Spec => []TenantsComplete` |

`TypeOK` says nothing of what a handler has read, and every route goes on with it.
`TenantInv` adds `TaskOK` (the step of a handler says which request it has, for which
tenant it was authenticated and what it has read), `AccountInv` (an account and the
customer a handler works on belong to the tenant of the handler, and rows keep their
owner), `RelayInv` (all attempts before one that is under way are recorded, on the
same endpoint and event) and `ServedWhileUp`. `TenantIsolation` and `DeadLetterEarned`
follow from it. `StepKinds` sorts
the steps into those of the gateway, of Redis, of each group of routes, of the
delivery goroutines and of the process, and each invariant below is shown once for
the routes it is about and once for all others (`RelayElsewhere`, `BankElsewhere`,
`FirmElsewhere`).

* `MarkInv`, for `ExecutedOnce`: as long as the mark of a key has not expired, the
  handler that set it is the only one between the mark and the stored answer.
* `AuditInv`, for `ChangesAudited`: the value in force is in the log or a handler is
  about to append it.
* `LimitInv`, for `LimitsInForce`: an undisturbed PUT is alone between storing and
  reloading; a migration is applied and not recorded only in between or after a fault.
* `BankInv`, for `BankAgrees` and `ReopenedOnlyByStaleRead`. With faults or without: the
  unique index holds (`OneActive`), without a race a handler is alone with its customer
  (`Alone`) and the account it works on still has the status it read (`ReadStill`). A
  closed account therefore changes only in a step of a handler that read another status
  and was raced. Without a fault also: a handler that provisions still finds no ACTIVE
  account when it writes (`NoneActive`), so the index does not refuse the row of an
  account the provider has opened; the provider has the new name and status before the
  table does (`RenamedAtBank`, `ToldBank`), and otherwise they agree (`Agrees`,
  `StatusAgrees`).
* `FirmInv`, for `TenantsComplete`: how far seeding is (`SeedStage`), that the server
  is not up before it is done, and for each tenant that is not complete the one
  request that is still adding to it (`Underway`), with what is left to add.

The exception for lists that name an email twice is needed: such a request fails on
its second insert and leaves the users after it out. The run has one in its workload,
and one that names exactly the demo users.

The assumptions are those of the modules: requests name ids of the right kind
(`RequestAssumption`), operators' requests have no API key, `None` is no id. Ids for
new rows come from the sets of unused ones; that one is left is a guard.

### Only model-checked

`QueuedEventsSettle`, `EveryAttemptRecorded`, `MovedItemsClose` and
`WithdrawalsSettle`: temporal under fairness, which the provers do not handle.
`LogEndsWithStatus`: not yet proved; its invariant would be that of `AuditInv` with the
order, for handlers that are alone. Every other invariant and every action property of a
passing run is a theorem; `SettlementMirrorsProvider` under a hypothesis that is
necessary.

## 6. Plan

Done: `Ledger`, `Recon`, `SuspenseResolution` with its abstract specification,
`Withdrawals`, `TokenCache`, `Sweep`, `Gateway`, `Customers`, `VirtualAccounts`,
`Relay`, `Platform` and their composition; proofs of every safety property that a
passing run checks but `LogEndsWithStatus`.

Next, in this order:

1. A proof of `LogEndsWithStatus`.
2. An abstract ledger - each provider event is posted at most once, to one account -
   refined by `Recon`.
3. An abstract idempotent service that the gateway implements as long as no mark
   expires.
4. A second instance of the server in `Platform` (two processes that migrate, seed
   and cache at the same time).

## 7. Not modelled

* Reports, health, statements, lists and their cursors: read-only queries. (The
  cursors order by `occurred_at` alone, so rows of one instant can be skipped; no
  state depends on it.)
* `ReprocessSuspense`: it reads `session_id` from the stored JSON of the
  transaction, which does not contain one, so every item ends at `no_session_id`
  before anything is changed.
* `RetryPending`: not called.
* Login: reads one credential and one active key of its tenant.
* Customers without identity (`worker.go:127`), whose limits are skipped: only rows
  made outside the API are such; and with PostgreSQL every check is skipped anyway.
* What the provider does for an account that is suspended or closed there.
* The field mapping of the provider's JSON, HTTP, routing, CORS, static pages,
  configuration, logging, and the test doubles (`memstore`, `fakeprov`); where the
  in-memory store differs from PostgreSQL it is the constant `TenantlessLookup`.
* Cryptography (webhook and relay signatures, hashes of keys and passwords): a
  delivery, a key or a token is accepted or it is not.
* Several instances of the server at the same time.
