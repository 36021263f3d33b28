------------------------------- MODULE Ledger -------------------------------
(***************************************************************************)
(* The double-entry ledger: the entry constructors of                      *)
(* internal/ledger/ledger.go and the operations of the transaction         *)
(* repository on the tables transactions and ledger_entries.               *)
(*                                                                         *)
(* The two tables are one value, a function from transaction ids to rows.  *)
(* A row holds the entries written with it; the row Absent, which has no   *)
(* entries, stands for an id that was never inserted.  The module has no   *)
(* variables: every module that posts owns a variable of this type.        *)
(***************************************************************************)
EXTENDS Integers, FiniteSets, Functions

CONSTANTS
    Customers,   \* customer ids; account customer_wallet:{c} is written c
    Settlement,  \* account nomba_settlement
    Suspense,    \* account suspense
    TxIds        \* values of the primary key transactions.id

ASSUME AccountsAssumption ==
    /\ Settlement # Suspense
    /\ Settlement \notin Customers
    /\ Suspense \notin Customers

\* There are finitely many rows and finitely many wallets to sum over.
ASSUME FiniteAssumption == IsFiniteSet(TxIds) /\ IsFiniteSet(Customers)

Accounts == Customers \cup {Settlement, Suspense}

LedgerEntry == [account: Accounts, direction: {"debit", "credit"}, amount: Int]

\* transactions.source and transactions.direction of a row that does not exist
\* are "none".
Transaction == [source: {"none", "webhook", "sweep", "internal"},
                direction: {"none", "credit", "debit"},
                entries: SUBSET LedgerEntry]

Absent == [source |-> "none", direction |-> "none", entries |-> {}]

EmptyLedger == [t \in TxIds |-> Absent]

-----------------------------------------------------------------------------
(* Entry constructors.  Every one of them refuses an amount that is not    *)
(* positive; the error is the empty set of entries.                        *)

Transfer(dr, cr, amount) ==
    IF amount <= 0
    THEN {}
    ELSE {[account |-> dr, direction |-> "debit",  amount |-> amount],
          [account |-> cr, direction |-> "credit", amount |-> amount]}

CreditCustomer(customer, amount) == Transfer(Settlement, customer, amount)

\* Mutant of CreditSuspense: debit and credit are swapped.
CreditSuspenseSwapped(amount) == Transfer(Suspense, Settlement, amount)

CreditSuspense(amount) == Transfer(Settlement, Suspense, amount)

ReversalEntries(customer, amount) == Transfer(customer, Settlement, amount)

ReversalToSuspense(amount) == Transfer(Suspense, Settlement, amount)

WithdrawCustomer(customer, amount) == Transfer(customer, Settlement, amount)

\* Mutant of SuspenseToCustomer: the settlement account is debited.
SuspenseToCustomerFromSettlement(customer, amount) ==
    Transfer(Settlement, customer, amount)

SuspenseToCustomer(customer, amount) == Transfer(Suspense, customer, amount)

-----------------------------------------------------------------------------
(* The transaction repository.                                             *)

Total(entries, direction) ==
    SumFunction([e \in {x \in entries : x.direction = direction} |-> e.amount])

AssertBalanced(entries) == Total(entries, "debit") = Total(entries, "credit")

GetTransaction(ledger, id) == ledger[id]

Exists(ledger, id) == GetTransaction(ledger, id).entries # {}

\* Mutant of PostTransaction: ON CONFLICT DO UPDATE, the last writer wins.
PostTransactionOver(ledger, id, row) == [ledger EXCEPT ![id] = row]

\* INSERT ... ON CONFLICT (id) DO NOTHING together with the entries, in one
\* database transaction: the first writer of an id wins.
PostTransaction(ledger, id, row) ==
    IF Exists(ledger, id) THEN ledger ELSE [ledger EXCEPT ![id] = row]

\* What one row adds to the balance of an account: credits minus debits.
Movement(row, account) ==
    LET own == {e \in row.entries : e.account = account}
    IN  Total(own, "credit") - Total(own, "debit")

GetBalance(ledger, account) ==
    SumFunction([t \in DOMAIN ledger |-> Movement(ledger[t], account)])

\* The credits of the rows whose occurred_at lies on the date asked for; day is the
\* set of their ids.
GetDailyCredits(ledger, account, day) ==
    SumFunction([t \in day \cap DOMAIN ledger |->
                    Total({e \in ledger[t].entries : e.account = account}, "credit")])

\* The account a row credits, and the one it debits.
Credited(row) == {e.account : e \in {x \in row.entries : x.direction = "credit"}}
Debited(row) == {e.account : e \in {x \in row.entries : x.direction = "debit"}}
=============================================================================
