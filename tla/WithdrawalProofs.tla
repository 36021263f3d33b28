-------------------------- MODULE WithdrawalProofs --------------------------
(***************************************************************************)
(* The withdrawal record, the transfer at the provider and the ledger, for *)
(* any set of requests, any interleaving of their calls, and any number of *)
(* failures.                                                               *)
(***************************************************************************)
EXTENDS Withdrawals, LedgerProofs

\* The row a withdrawal posts.
DebitRow(w) == [source |-> "internal", direction |-> "debit",
                entries |-> WithdrawCustomer(Customer(w), Asked[w].amount)]

\* A request that got past its validation asks a positive amount of a customer
\* the tenant has.
Valid(w) == Customer(w) \in Customers /\ Asked[w].amount > 0

\* One that got past the balance check was covered when it looked.
Covered(w) == Valid(w) /\ balance[w] >= Asked[w].amount

Posted(w) == Exists(ledger, WithdrawalTx[w])

\* Where a request stands, and what of it is in the tables by then.
Progress(w) ==
    /\ pc[w] \in {"balance", "fail", "complete"} => Valid(w)
    /\ pc[w] \in {"create", "transfer", "post"} => Covered(w)
    /\ pc[w] \in {"start", "balance", "create"} => status[w] = "none"
    /\ pc[w] \in {"transfer", "post", "fail", "complete"} => status[w] = "processing"
    /\ pc[w] \in {"start", "balance", "create", "transfer"} => payout[w] = "none"
    /\ pc[w] \in {"start", "balance", "create", "transfer", "post", "fail"} => ~Posted(w)
    /\ pc[w] = "complete" => Posted(w)
    /\ status[w] = "completed" => Posted(w)
    /\ status[w] = "failed" => pc[w] = "error" /\ ~Posted(w)
    /\ Posted(w) => Valid(w) /\ ledger[WithdrawalTx[w]] = DebitRow(w)
    /\ (payout[w] \in {"paid", "pending"} /\ faults = 0) => Posted(w) \/ pc[w] = "post"

\* The inductive invariant.
WithdrawalInv ==
    /\ TypeOK
    /\ FiniteRows(ledger)
    /\ \A w \in Withdrawals : Progress(w)

USE WithdrawalsAssumption, AccountsAssumption DEF Customer

-----------------------------------------------------------------------------
\* What a debit is: a row of the ledger that takes the amount from the wallet.
LEMMA DebitRowFacts ==
    ASSUME NEW w \in Withdrawals, Valid(w)
    PROVE  /\ DebitRow(w) \in Transaction
           /\ IsFiniteSet(DebitRow(w).entries)
           /\ DebitRow(w).entries # {}
           /\ Debited(DebitRow(w)) = {Customer(w)}
           /\ Movement(DebitRow(w), Customer(w)) = -Asked[w].amount
<1> DEFINE row == DebitRow(w)
           c == Customer(w)
           amount == Asked[w].amount
<1>1. /\ c \in Accounts /\ Settlement \in Accounts /\ c # Settlement
      /\ amount \in Int /\ amount > 0
      /\ row.entries = Transfer(c, Settlement, amount)
  BY DEF Valid, WithdrawalRequest, Accounts, DebitRow, WithdrawCustomer
<1>2. row \in Transaction
  BY <1>1, TransferType DEF DebitRow, WithdrawCustomer, Transaction
<1> HIDE DEF row, c, amount
<1>3. row.entries # {} /\ Debited(row) = {c}
  BY <1>1, TransferCredits
<1>4. IsFiniteSet(row.entries) /\ Movement(row, c) = -amount
  BY <1>1, TransferMovement
<1> QED
  BY <1>2, <1>3, <1>4 DEF row, c, amount

\* Posting it adds that row and touches no other.
LEMMA DebitFacts ==
    ASSUME WithdrawalInv, NEW w \in Withdrawals, Valid(w), ~Posted(w), ledger' = Debit(w)
    PROVE  /\ ledger' \in [TxIds -> Transaction]
           /\ FiniteRows(ledger')
           /\ Posted(w)'
           /\ ledger'[WithdrawalTx[w]] = DebitRow(w)
           /\ \A t \in TxIds \ {WithdrawalTx[w]} : ledger'[t] = ledger[t]
           /\ GetBalance(ledger', Customer(w)) =
                  GetBalance(ledger, Customer(w)) - Asked[w].amount
           /\ GetBalance(ledger, Customer(w)) \in Int
<1> DEFINE row == DebitRow(w)
           id == WithdrawalTx[w]
<1>1. /\ row \in Transaction /\ IsFiniteSet(row.entries) /\ row.entries # {}
      /\ Movement(row, Customer(w)) = -Asked[w].amount
  BY DebitRowFacts
<1>2. id \in TxIds /\ ~Exists(ledger, id) /\ ledger' = PostTransaction(ledger, id, row)
  BY DEF Debit, DebitRow, Posted
<1>3. ledger \in [TxIds -> Transaction] /\ FiniteRows(ledger)
  BY DEF WithdrawalInv, TypeOK
<1> HIDE DEF row, id
<1>4. /\ ledger' \in [TxIds -> Transaction]
      /\ ledger'[id] = row
      /\ \A t \in TxIds \ {id} : ledger'[t] = ledger[t]
  BY <1>1, <1>2, <1>3, PostKeeps
<1>5. /\ FiniteRows(ledger')
      /\ GetBalance(ledger', Customer(w)) =
             GetBalance(ledger, Customer(w)) + Movement(row, Customer(w))
  BY <1>1, <1>2, <1>3, BalanceAfterPost
<1>6. Exists(ledger', id)
  BY <1>1, <1>4 DEF Exists, GetTransaction
<1>7. Asked[w].amount \in Int /\ GetBalance(ledger, Customer(w)) \in Int
  BY <1>3, BalanceType DEF WithdrawalRequest
<1> QED
  BY <1>1, <1>4, <1>5, <1>6, <1>7 DEF row, id, Posted

-----------------------------------------------------------------------------
\* A step that leaves the ledger alone and touches one request disturbs no other.
LEMMA OthersKeep ==
    ASSUME WithdrawalInv, NEW w \in Withdrawals, UNCHANGED ledger, faults' \in Nat, faults' >= faults,
           \A v \in Withdrawals \ {w} :
               /\ pc'[v] = pc[v] /\ status'[v] = status[v]
               /\ payout'[v] = payout[v] /\ balance'[v] = balance[v],
           Progress(w)'
    PROVE  FiniteRows(ledger') /\ \A v \in Withdrawals : Progress(v)'
<1>1. faults \in Nat
  BY DEF WithdrawalInv, TypeOK
<1>2. \A v \in Withdrawals : Posted(v)' <=> Posted(v)
  BY DEF Posted
<1>3. FiniteRows(ledger')
  BY DEF WithdrawalInv
<1>4. ASSUME NEW v \in Withdrawals \ {w} PROVE Progress(v)'
  <2>1. Progress(v)
    BY DEF WithdrawalInv
  <2> QED
    BY <1>1, <1>2, <2>1 DEF Progress, Valid, Covered, DebitRow
<1> QED
  BY <1>3, <1>4

\* The steps of a request that leave the ledger alone.
LEMMA QuietStep ==
    ASSUME WithdrawalInv, NEW w \in Withdrawals,
           \/ Initiate(w) \/ CreateWithdrawal(w) \/ SendTransfer(w)
           \/ TransferRefused(w) \/ RecordFailure(w) \/ Complete(w) \/ Settle(w)
           \/ CallFails(w) \/ CreateUnconfirmed(w) \/ TransferUnconfirmed(w)
           \/ UpdateFails(w)
    PROVE  WithdrawalInv'
<1> USE DEF Goto, Fault
<1>0. TypeOK /\ Progress(w) /\ Asked[w] \in WithdrawalRequest
  BY DEF WithdrawalInv
<1>1. TypeOK'
  BY <1>0 DEF TypeOK, Payouts, Answers, Initiate, CreateWithdrawal, SendTransfer, AfterTransfer,
     TransferRefused, RecordFailure, Complete, Settle, CallFails, CreateUnconfirmed,
     TransferUnconfirmed, UpdateFails
<1>2. /\ UNCHANGED ledger
      /\ faults' \in Nat /\ faults' >= faults
      /\ \A v \in Withdrawals \ {w} :
             /\ pc'[v] = pc[v] /\ status'[v] = status[v]
             /\ payout'[v] = payout[v] /\ balance'[v] = balance[v]
  BY <1>0 DEF TypeOK, Initiate, CreateWithdrawal, SendTransfer,
     TransferRefused, RecordFailure, Complete, Settle, CallFails, CreateUnconfirmed,
     TransferUnconfirmed, UpdateFails
<1>3. Posted(w)' <=> Posted(w)
  BY <1>2 DEF Posted
<1> USE <1>0, <1>2, <1>3 DEF TypeOK, Progress, Valid, Covered, DebitRow, WithdrawalRequest
<1>4. Progress(w)'
  <2>1. CASE Initiate(w)
    BY <2>1 DEF Initiate
  <2>2. CASE CreateWithdrawal(w)
    BY <2>2 DEF CreateWithdrawal
  <2>3. CASE SendTransfer(w)
    BY <2>3 DEF SendTransfer, AfterTransfer
  <2>4. CASE TransferRefused(w)
    BY <2>4 DEF TransferRefused
  <2>5. CASE RecordFailure(w)
    BY <2>5 DEF RecordFailure
  <2>6. CASE Complete(w)
    BY <2>6 DEF Complete
  <2>7. CASE Settle(w)
    BY <2>7 DEF Settle
  <2>8. CASE CallFails(w)
    BY <2>8 DEF CallFails
  <2>9. CASE CreateUnconfirmed(w)
    BY <2>9 DEF CreateUnconfirmed
  <2>10. CASE TransferUnconfirmed(w)
    BY <2>10 DEF TransferUnconfirmed
  <2>11. CASE UpdateFails(w)
    BY <2>11 DEF UpdateFails
  <2> QED
    BY <2>1, <2>2, <2>3, <2>4, <2>5, <2>6, <2>7, <2>8, <2>9, <2>10, <2>11
<1> HIDE <1>0, <1>3 DEF TypeOK, Progress, Valid, Covered, DebitRow
<1> QED
  BY <1>1, <1>2, <1>4, OthersKeep DEF WithdrawalInv

\* The balance check: what it reads is an integer, and covers the amount unless
\* the request is refused.
LEMMA CheckBalanceStep ==
    ASSUME WithdrawalInv, NEW w \in Withdrawals, CheckBalance(w)
    PROVE  WithdrawalInv'
<1> DEFINE have == GetBalance(ledger, Customer(w))
<1>0. TypeOK /\ FiniteRows(ledger) /\ Progress(w) /\ Asked[w] \in WithdrawalRequest
  BY DEF WithdrawalInv
<1>1. have \in Int
  BY <1>0, BalanceType DEF TypeOK
<1>2. /\ pc[w] = "balance"
      /\ balance' = [balance EXCEPT ![w] = have]
      /\ pc' = [pc EXCEPT ![w] = IF have < Asked[w].amount THEN "refused" ELSE "create"]
      /\ UNCHANGED <<ledger, status, payout, faults>>
  BY DEF CheckBalance, Goto, Insufficient
<1> HIDE DEF have
<1>3. TypeOK'
  BY <1>0, <1>1, <1>2 DEF TypeOK, Answers
<1>4. Posted(w)' <=> Posted(w)
  BY <1>2 DEF Posted
<1>5. Progress(w)'
  BY <1>0, <1>1, <1>2, <1>4 DEF TypeOK, Progress, Valid, Covered, DebitRow, WithdrawalRequest
<1>6. /\ faults' \in Nat /\ faults' >= faults
      /\ \A v \in Withdrawals \ {w} :
             /\ pc'[v] = pc[v] /\ status'[v] = status[v]
             /\ payout'[v] = payout[v] /\ balance'[v] = balance[v]
  BY <1>0, <1>2 DEF TypeOK
<1> QED
  BY <1>2, <1>3, <1>5, <1>6, OthersKeep DEF WithdrawalInv

\* The posting, confirmed or not: the request was covered when it looked, and its
\* row is now in the ledger.
LEMMA PostStep ==
    ASSUME WithdrawalInv, NEW w \in Withdrawals, Post(w) \/ PostUnconfirmed(w)
    PROVE  WithdrawalInv'
<1>0. TypeOK /\ FiniteRows(ledger) /\ Progress(w)
  BY DEF WithdrawalInv
<1>1. /\ pc[w] = "post"
      /\ ledger' = Debit(w)
      /\ \/ pc' = [pc EXCEPT ![w] = "complete"] /\ faults' = faults
         \/ pc' = [pc EXCEPT ![w] = "error"] /\ faults' = faults + 1 /\ faults < MaxFaults
      /\ UNCHANGED <<status, payout, balance>>
  BY DEF Post, PostUnconfirmed, Goto, Fault
<1>2. Covered(w) /\ Valid(w) /\ ~Posted(w) /\ status[w] = "processing"
  BY <1>0, <1>1 DEF Progress, Covered
<1>3. /\ ledger' \in [TxIds -> Transaction]
      /\ FiniteRows(ledger')
      /\ Posted(w)'
      /\ ledger'[WithdrawalTx[w]] = DebitRow(w)
      /\ \A t \in TxIds \ {WithdrawalTx[w]} : ledger'[t] = ledger[t]
  BY <1>1, <1>2, DebitFacts
<1>4. TypeOK'
  BY <1>0, <1>1, <1>3 DEF TypeOK, Answers
<1>5. Progress(w)'
  BY <1>0, <1>1, <1>2, <1>3 DEF TypeOK, Progress, Valid, Covered, DebitRow
<1>6. ASSUME NEW v \in Withdrawals, v # w PROVE Progress(v)'
  <2>1. Progress(v) /\ faults \in Nat
    BY DEF WithdrawalInv, TypeOK
  <2>2. ledger'[WithdrawalTx[v]] = ledger[WithdrawalTx[v]]
    BY <1>3, <1>6
  <2>3. Posted(v)' <=> Posted(v)
    BY <2>2 DEF Posted, Exists, GetTransaction
  <2>4. /\ pc'[v] = pc[v] /\ status'[v] = status[v]
        /\ payout'[v] = payout[v] /\ balance'[v] = balance[v]
        /\ faults' = 0 => faults = 0
    BY <1>0, <1>1, <1>6 DEF TypeOK
  <2> QED
    BY <2>1, <2>2, <2>3, <2>4 DEF Progress, Valid, Covered, DebitRow
<1> QED
  BY <1>3, <1>4, <1>5, <1>6 DEF WithdrawalInv

\* Reconciliation posts under ids no withdrawal has.
LEMMA ReconPostsStep ==
    ASSUME WithdrawalInv, NEW t \in Incoming, ReconPosts(t)
    PROVE  WithdrawalInv'
<1>0. TypeOK /\ FiniteRows(ledger) /\ ledger \in [TxIds -> Transaction]
  BY DEF WithdrawalInv, TypeOK
<1>1. /\ t \in TxIds /\ Posting[t] \in Transaction /\ IsFiniteSet(Posting[t].entries)
      /\ ~Exists(ledger, t)
      /\ ledger' = PostTransaction(ledger, t, Posting[t])
      /\ UNCHANGED <<status, payout, balance, pc, faults>>
  BY DEF ReconPosts
<1>2. /\ ledger' \in [TxIds -> Transaction]
      /\ \A u \in TxIds \ {t} : ledger'[u] = ledger[u]
  BY <1>0, <1>1, PostKeeps
<1>3. FiniteRows(ledger')
  BY <1>0, <1>1, BalanceAfterPost
<1>4. TypeOK'
  BY <1>0, <1>1, <1>2 DEF TypeOK
<1>5. ASSUME NEW v \in Withdrawals PROVE Progress(v)'
  <2>1. Progress(v)
    BY DEF WithdrawalInv
  <2>2. ledger'[WithdrawalTx[v]] = ledger[WithdrawalTx[v]]
    BY <1>2
  <2>3. Posted(v)' <=> Posted(v)
    BY <2>2 DEF Posted, Exists, GetTransaction
  <2> QED
    BY <1>1, <2>1, <2>2, <2>3 DEF Progress, Valid, Covered, DebitRow
<1> QED
  BY <1>3, <1>4, <1>5 DEF WithdrawalInv

\* A crash ends every request where it stands.
LEMMA CrashStep ==
    ASSUME WithdrawalInv, Crash
    PROVE  WithdrawalInv'
<1>0. TypeOK /\ FiniteRows(ledger)
  BY DEF WithdrawalInv
<1>1. TypeOK'
  BY <1>0 DEF TypeOK, Crash, Fault, Answers
<1>2. FiniteRows(ledger')
  BY <1>0 DEF Crash
<1>3. ASSUME NEW v \in Withdrawals PROVE Progress(v)'
  <2>1. Progress(v)
    BY DEF WithdrawalInv
  <2>2. Posted(v)' <=> Posted(v)
    BY DEF Posted, Crash
  <2>3. /\ UNCHANGED <<ledger, status, payout, balance>>
        /\ pc'[v] = IF pc[v] \in Answers THEN pc[v] ELSE "error"
        /\ faults' # 0
    BY <1>0 DEF Crash, Fault, TypeOK
  <2> QED
    BY <2>1, <2>2, <2>3 DEF Progress, Valid, Covered, DebitRow, Answers
<1> QED
  BY <1>1, <1>2, <1>3 DEF WithdrawalInv

-----------------------------------------------------------------------------
\* It holds before the first request.
LEMMA WithdrawalInvInit == Init => WithdrawalInv
<1> SUFFICES ASSUME Init PROVE WithdrawalInv
  OBVIOUS
<1>1. EmptyLedger \in [TxIds -> Transaction] /\ \A t \in TxIds : ~Exists(EmptyLedger, t)
  BY DEF EmptyLedger, Absent, Transaction, Exists, GetTransaction
<1>2. TypeOK
  BY <1>1 DEF Init, TypeOK, Payouts
<1>3. FiniteRows(ledger)
  BY EmptyBalance DEF Init
<1>4. \A w \in Withdrawals : Progress(w)
  BY <1>1 DEF Init, Progress, Posted
<1> QED
  BY <1>2, <1>3, <1>4 DEF WithdrawalInv

\* Every step preserves it.
LEMMA WithdrawalInvNext == WithdrawalInv /\ [Next]_vars => WithdrawalInv'
<1> SUFFICES ASSUME WithdrawalInv, [Next]_vars PROVE WithdrawalInv'
  OBVIOUS
<1>1. ASSUME NEW w \in Withdrawals, Step(w) PROVE WithdrawalInv'
  BY <1>1, QuietStep, CheckBalanceStep, PostStep DEF Step
<1>2. ASSUME NEW w \in Withdrawals, Settle(w) PROVE WithdrawalInv'
  BY <1>2, QuietStep
<1>3. ASSUME NEW t \in Incoming, ReconPosts(t) PROVE WithdrawalInv'
  BY <1>3, ReconPostsStep
<1>4. CASE Failure
  BY <1>4, QuietStep, PostStep, CrashStep DEF Failure
<1>5. CASE UNCHANGED vars
  BY <1>5 DEF vars, WithdrawalInv, TypeOK, FiniteRows, Progress, Valid, Covered, Posted,
     DebitRow, Exists, GetTransaction
<1> QED
  BY <1>1, <1>2, <1>3, <1>4, <1>5 DEF Next

\* Where a request stands determines what of it is recorded, debited and paid.
THEOREM WithdrawalInvariant == Spec => []WithdrawalInv
BY WithdrawalInvInit, WithdrawalInvNext, PTL DEF Spec

\* withdrawals.status is always a documented status and every request is at a step
\* of Initiate or has its answer.
THEOREM TypeCorrect == Spec => []TypeOK
<1>1. WithdrawalInv => TypeOK
  BY DEF WithdrawalInv
<1> QED
  BY <1>1, WithdrawalInvariant, PTL

\* A completed withdrawal has debited its customer and a failed one nobody, however
\* many requests, errors and crashes there are.
THEOREM StatusAgreesWithLedger == Spec => []StatusMatchesLedger
<1>1. WithdrawalInv => StatusMatchesLedger
  <2> SUFFICES ASSUME WithdrawalInv, NEW w \in Withdrawals
               PROVE  /\ status[w] = "completed" =>
                             Debited(ledger[WithdrawalTx[w]]) = {Customer(w)}
                      /\ status[w] = "failed" => ~Exists(ledger, WithdrawalTx[w])
    BY DEF StatusMatchesLedger
  <2>1. Progress(w)
    BY DEF WithdrawalInv
  <2> QED
    BY <2>1, DebitRowFacts DEF Progress, Posted
<1> QED
  BY <1>1, WithdrawalInvariant, PTL

\* As long as no call failed, a transfer the provider has paid is debited, or its
\* request is at the posting.
THEOREM PaidMoneyIsDebited == Spec => []PaidIsDebited
<1>1. WithdrawalInv => PaidIsDebited
  BY DEF WithdrawalInv, Progress, PaidIsDebited, Posted
<1> QED
  BY <1>1, WithdrawalInvariant, PTL

\* A posting overdraws a wallet only when the wallet has less than the request saw
\* at its balance check: a single request never does.
THEOREM OverdraftsAreRaces == Spec => OverdraftNeedsRace
<1> DEFINE Race ==
        \A w \in Withdrawals :
            (/\ ~Exists(ledger, WithdrawalTx[w])
             /\ Exists(ledger', WithdrawalTx[w])
             /\ GetBalance(ledger', Customer(w)) < 0) =>
                GetBalance(ledger, Customer(w)) < balance[w]
<1>1. ASSUME WithdrawalInv, [Next]_vars PROVE [Race]_vars
  <2> SUFFICES ASSUME NEW w \in Withdrawals,
                      ~Exists(ledger, WithdrawalTx[w]),
                      Exists(ledger', WithdrawalTx[w]),
                      GetBalance(ledger', Customer(w)) < 0
               PROVE  GetBalance(ledger, Customer(w)) < balance[w]
    OBVIOUS
  <2>0. TypeOK /\ Progress(w) /\ ledger \in [TxIds -> Transaction]
    BY <1>1 DEF WithdrawalInv, TypeOK
  <2>1. Post(w) \/ PostUnconfirmed(w)
    <3>1. ledger' # ledger
      OBVIOUS
    <3>2. ASSUME NEW v \in Withdrawals, Post(v) \/ PostUnconfirmed(v) PROVE v = w
      <4>1. /\ ledger' = PostTransaction(ledger, WithdrawalTx[v], DebitRow(v))
            /\ Valid(v)
        BY <1>1, <3>2 DEF Post, PostUnconfirmed, Debit, DebitRow, WithdrawalInv, Progress, Covered
      <4>2. DebitRow(v) \in Transaction
        BY <4>1, DebitRowFacts
      <4>3. \A t \in TxIds \ {WithdrawalTx[v]} : ledger'[t] = ledger[t]
        BY <2>0, <4>1, <4>2, PostKeeps
      <4> QED
        BY <4>3 DEF Exists, GetTransaction
    <3>3. ASSUME NEW t \in Incoming, ReconPosts(t) PROVE FALSE
      <4>1. /\ ledger' = PostTransaction(ledger, t, Posting[t])
            /\ t \in TxIds /\ Posting[t] \in Transaction
        BY <3>3 DEF ReconPosts
      <4>2. \A u \in TxIds \ {t} : ledger'[u] = ledger[u]
        BY <2>0, <4>1, PostKeeps
      <4> QED
        BY <4>2 DEF Exists, GetTransaction
    <3>4. CASE \E v \in Withdrawals : Step(v)
      BY <3>1, <3>2, <3>4 DEF Step, Initiate, CheckBalance, CreateWithdrawal, SendTransfer,
         TransferRefused, RecordFailure, Complete
    <3>5. CASE \E v \in Withdrawals : Settle(v)
      BY <3>1, <3>5 DEF Settle
    <3>6. CASE Failure
      BY <3>1, <3>2, <3>6 DEF Failure, CallFails, CreateUnconfirmed, TransferUnconfirmed,
         UpdateFails, Crash
    <3> QED
      BY <1>1, <3>1, <3>3, <3>4, <3>5, <3>6 DEF Next, vars
  <2>2. Covered(w) /\ Valid(w) /\ ~Posted(w) /\ ledger' = Debit(w)
    BY <2>0, <2>1 DEF Progress, Covered, Post, PostUnconfirmed
  <2>3. /\ GetBalance(ledger', Customer(w)) =
               GetBalance(ledger, Customer(w)) - Asked[w].amount
        /\ GetBalance(ledger, Customer(w)) \in Int
    BY <1>1, <2>2, DebitFacts
  <2>4. balance[w] \in Int /\ Asked[w].amount \in Int /\ balance[w] >= Asked[w].amount
    BY <2>0, <2>2 DEF TypeOK, WithdrawalRequest, Covered
  <2> QED
    BY <2>3, <2>4
<1>2. Spec => [][Race]_vars
  <2> HIDE DEF Race
  <2> QED
    BY <1>1, WithdrawalInvariant, PTL DEF Spec
<1> QED
  BY <1>2 DEF OverdraftNeedsRace
=============================================================================
