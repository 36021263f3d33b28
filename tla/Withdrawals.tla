----------------------------- MODULE Withdrawals -----------------------------
(***************************************************************************)
(* Outbound transfers: WithdrawalService.Initiate (service/withdrawal.go), *)
(* one step per call on the database or the provider.                      *)
(*                                                                         *)
(*   start -> balance -> create -> transfer -> post -> complete -> created *)
(*                                          -> fail -> error               *)
(*                                                                         *)
(* Requests of the same customer interleave with one another and with what *)
(* reconciliation posts to the wallet.  A repeated request is a request of *)
(* its own: it gets a row, and a reference at the provider, of its own.    *)
(* A client that disconnects cancels the context of every later call: one  *)
(* unconfirmed or failed call, then a crash or another error.              *)
(***************************************************************************)
EXTENDS Ledger

CONSTANTS
    Withdrawals,  \* ids of withdrawals, one for each request
    WithdrawalTx, \* WithdrawalTx[w]: the id "vn:wd:" + w
    Asked,        \* Asked[w]: customer and amount_kobo of the request
    NoCustomer,   \* a customer id the tenant does not have
    Incoming,     \* ids of the transactions reconciliation posts meanwhile
    Posting,      \* Posting[t]: their rows
    MaxFaults     \* bound on errors of the database and of the connection

WithdrawalRequest == [customer: Customers \cup {NoCustomer}, amount: Int]

ASSUME WithdrawalsAssumption ==
    /\ WithdrawalTx \in [Withdrawals -> TxIds]
    /\ \A v, w \in Withdrawals : v # w => WithdrawalTx[v] # WithdrawalTx[w]
    /\ Asked \in [Withdrawals -> WithdrawalRequest]
    /\ NoCustomer \notin Customers
    /\ Incoming \subseteq TxIds \ {WithdrawalTx[w] : w \in Withdrawals}
    /\ Posting \in [Incoming -> Transaction]
    /\ \A t \in Incoming : IsFiniteSet(Posting[t].entries)
    /\ MaxFaults \in Nat

VARIABLES
    ledger,   \* transactions and ledger_entries
    status,   \* withdrawals.status, "none" before the row exists
    payout,   \* what has become of the transfer at the provider
    balance,  \* the local variable of each request
    pc,       \* the next call of each request, or its answer
    faults    \* errors so far

vars == <<ledger, status, payout, balance, pc, faults>>

Payouts == {"none", "pending", "paid", "rejected"}

\* The answers are refused (4xx), error (5xx, or none) and created (201).
Answers == {"refused", "error", "created"}

\* Type invariant: withdrawals.status is one of the documented statuses, and every
\* request has a step or an answer.
TypeOK ==
    /\ ledger \in [TxIds -> Transaction]
    /\ status \in [Withdrawals -> {"none", "processing", "completed", "failed"}]
    /\ payout \in [Withdrawals -> Payouts]
    /\ balance \in [Withdrawals -> Int]
    /\ pc \in [Withdrawals -> {"start", "balance", "create", "transfer", "post",
                               "complete", "fail"} \cup Answers]
    /\ faults \in 0..MaxFaults

Init ==
    /\ ledger = EmptyLedger
    /\ status = [w \in Withdrawals |-> "none"]
    /\ payout = [w \in Withdrawals |-> "none"]
    /\ balance = [w \in Withdrawals |-> 0]
    /\ pc = [w \in Withdrawals |-> "start"]
    /\ faults = 0

-----------------------------------------------------------------------------
Goto(w, step) == pc' = [pc EXCEPT ![w] = step]

Customer(w) == Asked[w].customer

\* Validation, and the lookup of the customer.
Initiate(w) ==
    /\ pc[w] = "start"
    /\ Goto(w, IF Asked[w].amount <= 0 \/ Customer(w) = NoCustomer
               THEN "refused"
               ELSE "balance")
    /\ UNCHANGED <<ledger, status, payout, balance, faults>>

\* Mutant of Insufficient: any money will do.
InsufficientEmpty(have, amount) == have <= 0

Insufficient(have, amount) == have < amount

CheckBalance(w) ==
    LET have == GetBalance(ledger, Customer(w))
    IN  /\ pc[w] = "balance"
        /\ balance' = [balance EXCEPT ![w] = have]
        /\ Goto(w, IF Insufficient(have, Asked[w].amount) THEN "refused" ELSE "create")
        /\ UNCHANGED <<ledger, status, payout, faults>>

CreateWithdrawal(w) ==
    /\ pc[w] = "create"
    /\ status' = [status EXCEPT ![w] = "processing"]
    /\ Goto(w, "transfer")
    /\ UNCHANGED <<ledger, payout, balance, faults>>

\* Mutant of AfterTransfer: a transfer that is pending counts as an error.
AfterTransferUnsettled(outcome) == IF outcome = "pending" THEN "fail" ELSE "post"

\* The status in the provider's response is not looked at.
AfterTransfer(outcome) == "post"

\* The provider answers with a transfer that is done, pending or failed.
SendTransfer(w) ==
    /\ pc[w] = "transfer"
    /\ \E outcome \in {"paid", "pending", "rejected"} :
           /\ payout' = [payout EXCEPT ![w] = outcome]
           /\ Goto(w, AfterTransfer(outcome))
    /\ UNCHANGED <<ledger, status, balance, faults>>

\* The provider refuses the request with an HTTP error.
TransferRefused(w) ==
    /\ pc[w] = "transfer"
    /\ payout' = [payout EXCEPT ![w] = "rejected"]
    /\ Goto(w, "fail")
    /\ UNCHANGED <<ledger, status, balance, faults>>

\* Mutant of RecordFailure: the return is missing.
RecordFailureGoesOn(w) ==
    /\ pc[w] = "fail"
    /\ status' = [status EXCEPT ![w] = "failed"]
    /\ Goto(w, "post")
    /\ UNCHANGED <<ledger, payout, balance, faults>>

\* UpdateWithdrawalStatus(failed).
RecordFailure(w) ==
    /\ pc[w] = "fail"
    /\ status' = [status EXCEPT ![w] = "failed"]
    /\ Goto(w, "error")
    /\ UNCHANGED <<ledger, payout, balance, faults>>

Debit(w) ==
    PostTransaction(ledger, WithdrawalTx[w],
        [source |-> "internal", direction |-> "debit",
         entries |-> WithdrawCustomer(Customer(w), Asked[w].amount)])

\* Mutant of Post: the record is not updated after the posting.
PostAndAnswer(w) ==
    /\ pc[w] = "post"
    /\ ledger' = Debit(w)
    /\ Goto(w, "created")
    /\ UNCHANGED <<status, payout, balance, faults>>

Post(w) ==
    /\ pc[w] = "post"
    /\ ledger' = Debit(w)
    /\ Goto(w, "complete")
    /\ UNCHANGED <<status, payout, balance, faults>>

\* Mutant of Complete: the provider's status is stored.
CompleteWithStatus(w) ==
    /\ pc[w] = "complete"
    /\ status' = [status EXCEPT ![w] = payout[w]]
    /\ Goto(w, "created")
    /\ UNCHANGED <<ledger, payout, balance, faults>>

\* UpdateWithdrawalStatus(completed).
Complete(w) ==
    /\ pc[w] = "complete"
    /\ status' = [status EXCEPT ![w] = "completed"]
    /\ Goto(w, "created")
    /\ UNCHANGED <<ledger, payout, balance, faults>>

-----------------------------------------------------------------------------
(* The surroundings.                                                       *)

\* The provider settles a pending transfer, one way or the other.
Settle(w) ==
    /\ payout[w] = "pending"
    /\ \E outcome \in {"paid", "rejected"} : payout' = [payout EXCEPT ![w] = outcome]
    /\ UNCHANGED <<ledger, status, balance, pc, faults>>

\* Reconciliation posts a credit or a reversal.
ReconPosts(t) ==
    /\ ~Exists(ledger, t)
    /\ ledger' = PostTransaction(ledger, t, Posting[t])
    /\ UNCHANGED <<status, payout, balance, pc, faults>>

Fault == faults < MaxFaults /\ faults' = faults + 1

\* A call fails with nothing done.  An error of the customer lookup is answered
\* as an unknown customer.
CallFails(w) ==
    /\ Fault
    /\ pc[w] \in {"start", "balance", "create", "post"}
    /\ Goto(w, IF pc[w] = "start" THEN "refused" ELSE "error")
    /\ UNCHANGED <<ledger, status, payout, balance>>

\* The row is there, the caller sees an error.
CreateUnconfirmed(w) ==
    /\ Fault
    /\ pc[w] = "create"
    /\ status' = [status EXCEPT ![w] = "processing"]
    /\ Goto(w, "error")
    /\ UNCHANGED <<ledger, payout, balance>>

\* The transfer request times out or its answer is unreadable: the provider may
\* have executed it, or never have seen it.
TransferUnconfirmed(w) ==
    /\ Fault
    /\ pc[w] = "transfer"
    /\ \E outcome \in {"none", "paid", "pending"} :
           payout' = [payout EXCEPT ![w] = outcome]
    /\ Goto(w, "fail")
    /\ UNCHANGED <<ledger, status, balance>>

PostUnconfirmed(w) ==
    /\ Fault
    /\ pc[w] = "post"
    /\ ledger' = Debit(w)
    /\ Goto(w, "error")
    /\ UNCHANGED <<status, payout, balance>>

\* Errors of UpdateWithdrawalStatus are discarded.
UpdateFails(w) ==
    /\ Fault
    /\ pc[w] \in {"fail", "complete"}
    /\ Goto(w, IF pc[w] = "fail" THEN "error" ELSE "created")
    /\ UNCHANGED <<ledger, status, payout, balance>>

\* The process dies with all its handlers.
Crash ==
    /\ Fault
    /\ pc' = [w \in Withdrawals |-> IF pc[w] \in Answers THEN pc[w] ELSE "error"]
    /\ UNCHANGED <<ledger, status, payout, balance>>

-----------------------------------------------------------------------------
Step(w) ==
    \/ Initiate(w)
    \/ CheckBalance(w)
    \/ CreateWithdrawal(w)
    \/ SendTransfer(w)
    \/ TransferRefused(w)
    \/ RecordFailure(w)
    \/ Post(w)
    \/ Complete(w)

Failure ==
    \/ \E w \in Withdrawals : CallFails(w)
    \/ \E w \in Withdrawals : CreateUnconfirmed(w)
    \/ \E w \in Withdrawals : TransferUnconfirmed(w)
    \/ \E w \in Withdrawals : PostUnconfirmed(w)
    \/ \E w \in Withdrawals : UpdateFails(w)
    \/ Crash

Next ==
    \/ \E w \in Withdrawals : Step(w)
    \/ \E w \in Withdrawals : Settle(w)
    \/ \E t \in Incoming : ReconPosts(t)
    \/ Failure

Spec == Init /\ [][Next]_vars

\* Handlers run to their end: every call has a time limit.
FairSpec == Spec /\ \A w \in Withdrawals : WF_vars(Step(w))

-----------------------------------------------------------------------------
\* A withdrawal overdraws a wallet only if the wallet was debited between its
\* balance check and its posting: alone, it never does.
OverdraftNeedsRace ==
    [][\A w \in Withdrawals :
           (/\ ~Exists(ledger, WithdrawalTx[w])
            /\ Exists(ledger', WithdrawalTx[w])
            /\ GetBalance(ledger', Customer(w)) < 0) =>
               GetBalance(ledger, Customer(w)) < balance[w]]_vars

\* The record agrees with the ledger whatever failed on the way: a completed
\* withdrawal has debited its customer, a failed one has debited nobody.
StatusMatchesLedger ==
    \A w \in Withdrawals :
        /\ status[w] = "completed" => Debited(ledger[WithdrawalTx[w]]) = {Customer(w)}
        /\ status[w] = "failed" => ~Exists(ledger, WithdrawalTx[w])

\* As long as nothing failed, money the provider has paid out, at once or after
\* a while, is debited or about to be.
PaidIsDebited ==
    \A w \in Withdrawals : (payout[w] = "paid" /\ faults = 0) =>
        Exists(ledger, WithdrawalTx[w]) \/ pc[w] = "post"

\* README: "Status lifecycle: `pending -> processing -> completed | failed`".
\* Without an error no record stays in processing.
WithdrawalsSettle ==
    \A w \in Withdrawals :
        status[w] = "processing" ~> (status[w] \in {"completed", "failed"} \/ faults > 0)
=============================================================================
