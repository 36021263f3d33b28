--------------------------- MODULE SuspenseProofs ---------------------------
(***************************************************************************)
(* Theorems about SuspenseResolution, for every set of items and requests, *)
(* whatever the requests ask for, and any number of failures.              *)
(***************************************************************************)
EXTENDS SuspenseResolution, LedgerProofs

(***************************************************************************)
(* ReassignedMoved is not inductive: that a reassignment may set the       *)
(* status rests on the post it has made or found, and the post on what its *)
(* first step has read.                                                    *)
(***************************************************************************)

\* Only a reassignment to a customer of the tenant gets to the post.
MoversNameCustomers ==
    \A r \in Requests : pc[r] = "post" =>
        Asked[r].resolution = "reassigned" /\ Asked[r].target \in Customers

\* A reassignment about to set the status finds the money moved, by itself or by
\* the request that was there first.
ClosersMoved ==
    \A r \in Requests :
        (pc[r] = "update" /\ Asked[r].resolution = "reassigned") =>
            Exists(ledger, Resolution[Asked[r].item])

\* A resolution that is posted credits one customer the item is claimed for.
ResolutionsClaimed ==
    \A i \in Items : Exists(ledger, Resolution[i]) =>
        \E c \in Claimants[i] : Credited(ledger[Resolution[i]]) = {c}

\* An item that says reassigned has its resolution posted.
StatusMoved ==
    \A i \in Items : status[i] = "reassigned" => Exists(ledger, Resolution[i])

SuspenseInv ==
    /\ TypeOK
    /\ MoversNameCustomers
    /\ ClosersMoved
    /\ ResolutionsClaimed
    /\ StatusMoved

-----------------------------------------------------------------------------
(* The resolution transaction.                                             *)

\* A request asks for one item, one resolution and one target.
LEMMA AskedType ==
    ASSUME NEW r \in Requests
    PROVE  /\ Asked[r].item \in Items
           /\ Asked[r].resolution \in Resolutions
           /\ Asked[r].target \in Customers \cup {NoCustomer}
           /\ Asked[r] = [item |-> Asked[r].item, resolution |-> Asked[r].resolution,
                          target |-> Asked[r].target]
BY SuspenseAssumption DEF ResolveRequest

\* The target of a reassignment is one of those the item is claimed for.
LEMMA TargetClaims ==
    ASSUME NEW r \in Requests, Asked[r].resolution = "reassigned",
           Asked[r].target \in Customers
    PROVE  Asked[r].target \in Claimants[Asked[r].item]
BY AskedType DEF Claimants

\* Every claim is a request's.
LEMMA ClaimsAreAsked ==
    ASSUME NEW i \in Items, NEW c \in Claimants[i]
    PROVE  /\ c \in Customers
           /\ \E r \in Requests : /\ Asked[r].item = i
                                  /\ Asked[r].resolution = "reassigned"
                                  /\ Asked[r].target = c
BY DEF Claimants

\* After the post of PostTransaction the resolution exists, and credits the target
\* unless it existed before; no other row changes, nor any row that existed.
LEMMA MovedRow ==
    ASSUME ledger \in [TxIds -> Transaction], NEW r \in Requests,
           Asked[r].target \in Customers
    PROVE  LET id == Resolution[Asked[r].item]
           IN  /\ Moved(r) \in [TxIds -> Transaction]
               /\ \A t \in TxIds : Exists(ledger, t) => Moved(r)[t] = ledger[t]
               /\ \A t \in TxIds \ {id} : Moved(r)[t] = ledger[t]
               /\ Exists(Moved(r), id)
               /\ ~Exists(ledger, id) => Credited(Moved(r)[id]) = {Asked[r].target}
<1> DEFINE i == Asked[r].item
           id == Resolution[i]
           row == ResTx(Asked[r])
<1>1. i \in Items /\ id \in TxIds /\ Amount[i] \in Int /\ Amount[i] > 0
  BY AskedType, SuspenseAssumption
<1>2. row.entries = Transfer(Suspense, Asked[r].target, Amount[i])
  BY DEF ResTx, SuspenseToCustomer
<1>3. row \in Transaction
  <2>1. Suspense \in Accounts /\ Asked[r].target \in Accounts
    BY DEF Accounts
  <2>2. row.entries \in SUBSET LedgerEntry
    BY <1>1, <1>2, <2>1, TransferType
  <2> QED
    BY <2>2 DEF ResTx, Transaction
<1>4. row.entries # {} /\ Credited(row) = {Asked[r].target}
  BY <1>1, <1>2, TransferCredits
<1>5. Moved(r) = PostTransaction(ledger, id, row)
  BY DEF Moved, ResolutionTxID
<1>6. /\ Moved(r) \in [TxIds -> Transaction]
      /\ \A t \in TxIds : Exists(ledger, t) => Moved(r)[t] = ledger[t]
      /\ \A t \in TxIds \ {id} : Moved(r)[t] = ledger[t]
      /\ ~Exists(ledger, id) => Moved(r)[id] = row
  <2>1. id \in TxIds /\ row \in Transaction
    BY <1>1, <1>3
  <2> HIDE DEF id, row
  <2> QED
    BY <1>5, <2>1, PostKeeps
<1>7. Exists(Moved(r), id)
  BY <1>1, <1>4, <1>6 DEF Exists, GetTransaction
<1> QED
  BY <1>4, <1>6, <1>7

\* The invariant survives the post, whatever step the request goes on with, except
\* a second post.
LEMMA PostKeepsInv ==
    ASSUME SuspenseInv, NEW r \in Requests, pc[r] = "post", ledger' = Moved(r),
           NEW step \in {"update", "error"}, Goto(r, step), UNCHANGED <<status, audit>>,
           faults' \in 0..MaxFaults
    PROVE  SuspenseInv'
<1> DEFINE id == Resolution[Asked[r].item]
<1> USE DEF SuspenseInv
<1>1. Asked[r].resolution = "reassigned" /\ Asked[r].target \in Customers
  BY DEF MoversNameCustomers
<1>2. /\ ledger' \in [TxIds -> Transaction]
      /\ \A t \in TxIds : Exists(ledger, t) => ledger'[t] = ledger[t]
      /\ \A t \in TxIds \ {id} : ledger'[t] = ledger[t]
      /\ Exists(ledger', id)
      /\ ~Exists(ledger, id) => Credited(ledger'[id]) = {Asked[r].target}
  BY <1>1, MovedRow DEF TypeOK
<1>3. \A i \in Items : Resolution[i] \in TxIds
  BY SuspenseAssumption
<1>4. \A i \in Items : Exists(ledger, Resolution[i]) => Exists(ledger', Resolution[i])
  BY <1>2, <1>3 DEF Exists, GetTransaction
<1>5. pc' = [pc EXCEPT ![r] = step] /\ pc \in [Requests -> {"get", "post", "update", "audit"} \cup Answers]
  BY DEF Goto, TypeOK
<1>6. TypeOK'
  BY <1>2, <1>5 DEF TypeOK, Answers
<1>7. MoversNameCustomers'
  BY <1>5 DEF MoversNameCustomers
<1>8. ClosersMoved'
  <2> SUFFICES ASSUME NEW q \in Requests, pc'[q] = "update",
                      Asked[q].resolution = "reassigned"
               PROVE  Exists(ledger', Resolution[Asked[q].item])
    BY DEF ClosersMoved
  <2>1. CASE q = r
    BY <1>2, <2>1
  <2>2. CASE q # r
    <3>1. pc[q] = "update"
      BY <1>5, <2>2
    <3> QED
      BY <1>4, <3>1, AskedType DEF ClosersMoved
  <2> QED
    BY <2>1, <2>2
<1>9. ResolutionsClaimed'
  <2> SUFFICES ASSUME NEW i \in Items, Exists(ledger', Resolution[i])
               PROVE  \E c \in Claimants[i] : Credited(ledger'[Resolution[i]]) = {c}
    BY DEF ResolutionsClaimed
  <2>1. CASE Exists(ledger, Resolution[i])
    BY <1>2, <1>3, <2>1 DEF ResolutionsClaimed
  <2>2. CASE ~Exists(ledger, Resolution[i])
    <3>1. Resolution[i] = id
      BY <1>2, <1>3, <2>2 DEF Exists, GetTransaction
    <3>2. i = Asked[r].item
      BY <3>1, AskedType, SuspenseAssumption
    <3> QED
      BY <1>1, <1>2, <2>2, <3>1, <3>2, TargetClaims
  <2> QED
    BY <2>1, <2>2
<1>10. StatusMoved'
  BY <1>4 DEF StatusMoved
<1> QED
  BY <1>6, <1>7, <1>8, <1>9, <1>10

-----------------------------------------------------------------------------
(* The inductive invariant.                                                *)

\* In the beginning no resolution is posted, and no request is under way.
LEMMA SuspenseInvInit == Init => SuspenseInv
<1> SUFFICES ASSUME Init PROVE SuspenseInv
  OBVIOUS
<1>1. \A i \in Items : ~Exists(ledger, Resolution[i])
  BY SuspenseAssumption DEF Init, Exists, GetTransaction, Absent
<1>2. ledger \in [TxIds -> Transaction]
  <2> SUFFICES ASSUME NEW t \in TxIds PROVE ledger[t] \in Transaction
    BY DEF Init
  <2>1. Absent \in Transaction
    BY DEF Absent, Transaction
  <2>2. ASSUME NEW i \in Items
        PROVE  [source |-> "webhook", direction |-> "credit",
                entries |-> CreditSuspense(Amount[i])] \in Transaction
    <3>1. Settlement \in Accounts /\ Suspense \in Accounts /\ Amount[i] \in Int
      BY SuspenseAssumption DEF Accounts
    <3>2. CreditSuspense(Amount[i]) \in SUBSET LedgerEntry
      BY <3>1, TransferType DEF CreditSuspense
    <3> QED
      BY <3>2 DEF Transaction
  <2>3. CASE \E i \in Items : t = Original[i]
    <3>1. (CHOOSE i \in Items : t = Original[i]) \in Items
      BY <2>3
    <3> QED
      BY <2>2, <2>3, <3>1 DEF Init
  <2>4. CASE ~\E i \in Items : t = Original[i]
    BY <2>1, <2>4 DEF Init
  <2> QED
    BY <2>3, <2>4
<1>3. TypeOK
  BY <1>2, SuspenseAssumption DEF Init, TypeOK
<1>4. MoversNameCustomers /\ ClosersMoved /\ StatusMoved
  BY DEF Init, MoversNameCustomers, ClosersMoved, StatusMoved
<1>5. ResolutionsClaimed
  BY <1>1 DEF ResolutionsClaimed
<1> QED
  BY <1>3, <1>4, <1>5 DEF SuspenseInv

\* What the database stands for stays, and the request goes to a step that needs
\* nothing of it.
LEMMA GotoKeepsInv ==
    ASSUME SuspenseInv, NEW r \in Requests,
           NEW step \in {"get", "audit"} \cup Answers, Goto(r, step),
           UNCHANGED <<ledger, status>>, audit' \subseteq Requests,
           faults' \in 0..MaxFaults
    PROVE  SuspenseInv'
<1> USE DEF SuspenseInv
<1>1. pc' = [pc EXCEPT ![r] = step] /\ pc \in [Requests -> {"get", "post", "update", "audit"} \cup Answers]
  BY DEF Goto, TypeOK
<1>2. TypeOK'
  BY <1>1 DEF TypeOK
<1>3. MoversNameCustomers'
  BY <1>1 DEF MoversNameCustomers, Answers
<1>4. ClosersMoved'
  BY <1>1 DEF ClosersMoved, Answers
<1>5. ResolutionsClaimed' /\ StatusMoved'
  BY DEF ResolutionsClaimed, StatusMoved
<1> QED
  BY <1>2, <1>3, <1>4, <1>5

\* The status is written by a request that is entitled to it.
LEMMA UpdateKeepsInv ==
    ASSUME SuspenseInv, NEW r \in Requests, pc[r] = "update", status' = Updated(Asked[r]),
           NEW step \in {"audit", "error"}, Goto(r, step), UNCHANGED <<ledger, audit>>,
           faults' \in 0..MaxFaults
    PROVE  SuspenseInv'
<1> USE DEF SuspenseInv
<1>1. pc' = [pc EXCEPT ![r] = step] /\ pc \in [Requests -> {"get", "post", "update", "audit"} \cup Answers]
  BY DEF Goto, TypeOK
<1>2. status' \in [Items -> {"open"} \cup Resolutions]
  BY AskedType DEF Updated, TypeOK
<1>3. TypeOK'
  BY <1>1, <1>2 DEF TypeOK, Answers
<1>4. MoversNameCustomers' /\ ClosersMoved'
  BY <1>1 DEF MoversNameCustomers, ClosersMoved
<1>5. ResolutionsClaimed'
  BY DEF ResolutionsClaimed
<1>6. StatusMoved'
  <2> SUFFICES ASSUME NEW i \in Items, status'[i] = "reassigned"
               PROVE  Exists(ledger, Resolution[i])
    BY DEF StatusMoved
  <2>1. CASE status[i] = "reassigned"
    BY <2>1 DEF StatusMoved
  <2>2. CASE status[i] # "reassigned"
    <3>1. i = Asked[r].item /\ Asked[r].resolution = "reassigned"
      BY <2>2, AskedType DEF Updated, TypeOK
    <3> QED
      BY <3>1 DEF ClosersMoved
  <2> QED
    BY <2>1, <2>2
<1> QED
  BY <1>3, <1>4, <1>5, <1>6

\* The first step of a request checks what its later steps rely on.
LEMMA ResolveKeepsInv ==
    ASSUME SuspenseInv, NEW r \in Requests, Resolve(r)
    PROVE  SuspenseInv'
<1> USE DEF SuspenseInv
<1>1. /\ UNCHANGED <<ledger, status, audit, faults>>
      /\ pc \in [Requests -> {"get", "post", "update", "audit"} \cup Answers]
  BY DEF Resolve, TypeOK
<1>2. PICK step \in {"refused", "post", "update"} :
          /\ pc' = [pc EXCEPT ![r] = step]
          /\ step = "post" => /\ Asked[r].resolution = "reassigned"
                              /\ Asked[r].target # NoCustomer
          /\ step = "update" => Asked[r].resolution = "refund_flagged"
  BY DEF Resolve, Goto
<1>3. TypeOK'
  BY <1>1, <1>2 DEF TypeOK, Answers
<1>4. MoversNameCustomers'
  BY <1>1, <1>2, AskedType DEF MoversNameCustomers
<1>5. ClosersMoved'
  BY <1>1, <1>2 DEF ClosersMoved
<1>6. ResolutionsClaimed' /\ StatusMoved'
  BY <1>1 DEF ResolutionsClaimed, StatusMoved
<1> QED
  BY <1>3, <1>4, <1>5, <1>6

\* Every step of every request, failures included, preserves the invariant.
LEMMA SuspenseInvNext == SuspenseInv /\ [Next]_vars => SuspenseInv'
<1> SUFFICES ASSUME SuspenseInv, [Next]_vars PROVE SuspenseInv'
  OBVIOUS
<1>1. /\ faults \in 0..MaxFaults /\ audit \subseteq Requests
      /\ faults < MaxFaults => faults + 1 \in 0..MaxFaults
  BY SuspenseAssumption DEF SuspenseInv, TypeOK
<1>2. ASSUME NEW r \in Requests, Step(r) PROVE SuspenseInv'
  <2>1. CASE Resolve(r)
    BY <2>1, ResolveKeepsInv
  <2>2. CASE PostResolution(r)
    BY <1>1, <2>2, PostKeepsInv DEF PostResolution
  <2>3. CASE ResolveSuspenseItem(r)
    BY <1>1, <2>3, UpdateKeepsInv DEF ResolveSuspenseItem
  <2>4. CASE Append(r)
    BY <1>1, <2>4, GotoKeepsInv DEF Append, Answers
  <2> QED
    BY <1>2, <2>1, <2>2, <2>3, <2>4 DEF Step
<1>3. ASSUME NEW r \in Requests, Failure(r) PROVE SuspenseInv'
  <2>1. CASE CallFails(r)
    BY <1>1, <2>1, GotoKeepsInv DEF CallFails, Fault, Answers
  <2>2. CASE PostUnconfirmed(r)
    BY <1>1, <2>2, PostKeepsInv DEF PostUnconfirmed, Fault
  <2>3. CASE UpdateUnconfirmed(r)
    BY <1>1, <2>3, UpdateKeepsInv DEF UpdateUnconfirmed, Fault
  <2>4. CASE AuditFails(r)
    BY <1>1, <2>4, GotoKeepsInv DEF AuditFails, Fault, Answers
  <2> QED
    BY <1>3, <2>1, <2>2, <2>3, <2>4 DEF Failure
<1>4. ASSUME NEW r \in Requests, Retry(r) PROVE SuspenseInv'
  BY <1>1, <1>4, GotoKeepsInv DEF Retry
<1>5. CASE UNCHANGED vars
  BY <1>5 DEF vars, SuspenseInv, TypeOK, MoversNameCustomers, ClosersMoved,
              ResolutionsClaimed, StatusMoved
<1> QED
  BY <1>2, <1>3, <1>4, <1>5 DEF Next

\* The invariant holds in every reachable state, with any number of requests.
THEOREM SuspenseInvariant == Spec => []SuspenseInv
BY SuspenseInvInit, SuspenseInvNext, PTL DEF Spec

\* suspense_items.status keeps to its CHECK constraint and every posted row is a
\* well-formed transaction.
THEOREM SuspenseTypeCorrect == Spec => []TypeOK
<1>1. SuspenseInv => TypeOK
  BY DEF SuspenseInv
<1> QED
  BY <1>1, SuspenseInvariant, PTL

\* An item that says reassigned has its money with a customer one of its requests
\* named, however many requests Resolve was called for and whatever failed.
THEOREM ReassignedMovedAlways == Spec => []ReassignedMoved
<1>1. SuspenseInv => ReassignedMoved
  <2> SUFFICES ASSUME SuspenseInv, NEW i \in Items, status[i] = "reassigned"
               PROVE  \E r \in Requests :
                          /\ Asked[r].item = i
                          /\ Asked[r].resolution = "reassigned"
                          /\ Credited(ledger[Resolution[i]]) = {Asked[r].target}
    BY DEF ReassignedMoved
  <2>1. PICK c \in Claimants[i] : Credited(ledger[Resolution[i]]) = {c}
    BY DEF SuspenseInv, StatusMoved, ResolutionsClaimed
  <2> QED
    BY <2>1, ClaimsAreAsked
<1> QED
  BY <1>1, SuspenseInvariant, PTL

-----------------------------------------------------------------------------
(* The balance of suspense.                                                *)

\* The items whose money has not been moved.
Unmoved(l) == {i \in Items : ~Exists(l, Resolution[i])}

\* What they are worth.
Rest(l) == SumFunction([i \in Unmoved(l) |-> Amount[i]])

\* The balance is that of the rows, which are finitely many entries each.
RestInv == FiniteRows(ledger) /\ SuspenseHoldsTheRest

\* There are no more items than transaction ids.
LEMMA ItemsFinite ==
    /\ IsFiniteSet(Items)
    /\ \A S \in SUBSET Items : IsFiniteSet(S)
    /\ \A l : Unmoved(l) \in SUBSET Items
<1>1. Resolution \in Injection(Items, TxIds)
  BY SuspenseAssumption DEF Injection, IsInjective
<1>2. IsFiniteSet(Items)
  BY <1>1, FiniteAssumption, FS_Injection
<1> QED
  BY <1>2, FS_Subset DEF Unmoved

\* In the beginning suspense holds the amounts of all items.
LEMMA RestInit == Init => RestInv
<1> SUFFICES ASSUME Init PROVE RestInv
  OBVIOUS
<1> DEFINE f == [t \in TxIds |-> Movement(ledger[t], Suspense)]
           A == {Original[i] : i \in Items}
<1>1. \A i \in Items : /\ Original[i] \in TxIds
                       /\ Amount[i] \in Int /\ Amount[i] > 0
                       /\ ~Exists(ledger, Resolution[i])
                       /\ ledger[Original[i]].entries =
                              Transfer(Settlement, Suspense, Amount[i])
  <2> SUFFICES ASSUME NEW i \in Items
               PROVE  /\ ~Exists(ledger, Resolution[i])
                      /\ ledger[Original[i]].entries =
                             Transfer(Settlement, Suspense, Amount[i])
    BY SuspenseAssumption
  <2>1. (CHOOSE j \in Items : Original[i] = Original[j]) = i
    BY SuspenseAssumption
  <2>2. ledger[Original[i]].entries = CreditSuspense(Amount[i])
    BY <2>1, SuspenseAssumption DEF Init
  <2>3. ~Exists(ledger, Resolution[i])
    BY SuspenseAssumption DEF Init, Exists, GetTransaction, Absent
  <2> QED
    BY <2>2, <2>3 DEF CreditSuspense
<1>2. \A i \in Items : /\ IsFiniteSet(ledger[Original[i]].entries)
                       /\ Movement(ledger[Original[i]], Suspense) = Amount[i]
  BY <1>1, AccountsAssumption, TransferMovement
<1>3. \A t \in TxIds \ A : ledger[t] = Absent
  BY DEF Init
<1>4. /\ Absent \in Transaction /\ IsFiniteSet(Absent.entries)
      /\ Movement(Absent, Suspense) = 0
  <2>1. Absent \in Transaction /\ Absent.entries = {} /\ IsFiniteSet(Absent.entries)
    BY FS_EmptySet DEF Absent, Transaction
  <2> QED
    BY <2>1, MovementType
<1>5. FiniteRows(ledger)
  BY <1>2, <1>3, <1>4 DEF FiniteRows
<1>6. /\ A \in SUBSET TxIds
      /\ \A t \in TxIds : f[t] \in Int
      /\ \A t \in TxIds \ A : f[t] = 0
      /\ \A i \in Items : f[Original[i]] = Amount[i]
  BY <1>1, <1>2, <1>3, <1>4
<1>7. GetBalance(ledger, Suspense) = SumFunctionOnSet(f, TxIds)
  BY DEF GetBalance, SumFunction, Init
<1>8. SumFunctionOnSet(f, TxIds) = SumFunctionOnSet(f, A)
  <2> HIDE DEF f, A
  <2> QED
    BY <1>6, FiniteAssumption, SumSupport
<1>9. SumFunctionOnSet(f, A) = SumFunction([i \in Items |-> f[Original[i]]])
  <2>1. /\ \A i, j \in Items : Original[i] = Original[j] => i = j
        /\ \A i \in Items : f[Original[i]] \in Int
    BY <1>1, <1>6, SuspenseAssumption
  <2> HIDE DEF f
  <2> QED
    BY <2>1, ItemsFinite, SumReindex
<1>10. [i \in Items |-> f[Original[i]]] = [i \in Items |-> Amount[i]]
  BY <1>6
<1>11. Unmoved(ledger) = Items
  BY <1>1 DEF Unmoved
<1>12. GetBalance(ledger, Suspense) = Rest(ledger)
  BY <1>7, <1>8, <1>9, <1>10, <1>11 DEF Rest
<1> QED
  BY <1>5, <1>12 DEF RestInv, SuspenseHoldsTheRest, Rest, Unmoved

\* A post takes the amount of its item out of suspense, unless it was taken before.
LEMMA PostKeepsRest ==
    ASSUME SuspenseInv, RestInv, NEW r \in Requests, pc[r] = "post", ledger' = Moved(r)
    PROVE  RestInv'
<1> DEFINE j == Asked[r].item
           c == Asked[r].target
           id == Resolution[j]
           row == ResTx(Asked[r])
           S == Unmoved(ledger')
           T == Unmoved(ledger)
           f == [i \in S |-> Amount[i]]
           g == [i \in T |-> Amount[i]]
<1>1. /\ j \in Items /\ id \in TxIds /\ c \in Customers
      /\ Amount[j] \in Int /\ Amount[j] > 0
  BY AskedType, SuspenseAssumption DEF SuspenseInv, MoversNameCustomers
<1>2. ledger \in [TxIds -> Transaction] /\ FiniteRows(ledger)
  BY DEF SuspenseInv, TypeOK, RestInv
<1>3. ledger' = PostTransaction(ledger, id, row)
  BY DEF Moved, ResolutionTxID
<1>4. CASE Exists(ledger, id)
  <2>1. ledger' = ledger
    BY <1>3, <1>4 DEF PostTransaction
  <2> QED
    BY <2>1 DEF RestInv, SuspenseHoldsTheRest
<1>5. CASE ~Exists(ledger, id)
  <2>1. row.entries = Transfer(Suspense, c, Amount[j])
    BY DEF ResTx, SuspenseToCustomer
  <2>2. row \in Transaction
    <3>1. Suspense \in Accounts /\ c \in Accounts
      BY <1>1 DEF Accounts
    <3>2. row.entries \in SUBSET LedgerEntry
      BY <1>1, <2>1, <3>1, TransferType
    <3> QED
      BY <3>2 DEF ResTx, Transaction
  <2>3. c # Suspense
    BY <1>1, AccountsAssumption
  <2>4. IsFiniteSet(row.entries) /\ Movement(row, Suspense) = -Amount[j]
    <3> HIDE DEF row, c, j
    <3> QED
      BY <1>1, <2>1, <2>3, TransferMovement
  <2>5. /\ FiniteRows(ledger')
        /\ GetBalance(ledger', Suspense) = GetBalance(ledger, Suspense) + Movement(row, Suspense)
    <3> HIDE DEF row, id
    <3> QED
      BY <1>1, <1>2, <1>3, <1>5, <2>2, <2>4, BalanceAfterPost
  <2>6. /\ \A t \in TxIds \ {id} : ledger'[t] = ledger[t]
        /\ Exists(ledger', id)
    BY <1>1, <1>2, MovedRow
  <2>7. j \notin S /\ T = S \cup {j}
    BY <1>1, <1>5, <2>6, SuspenseAssumption DEF Unmoved, Exists, GetTransaction
  <2>8. S \in SUBSET Items /\ IsFiniteSet(S)
    BY ItemsFinite
  <2>9. /\ f \in [S -> Int] /\ g \in [S \cup {j} -> Int]
        /\ \A i \in S : f[i] = g[i]
        /\ g[j] = Amount[j]
    <3>1. \A i \in Items : Amount[i] \in Int
      BY SuspenseAssumption
    <3> HIDE DEF S, T, j
    <3> QED
      BY <1>1, <2>7, <2>8, <3>1
  <2>10. /\ Rest(ledger') = SumFunction(f)
         /\ Rest(ledger) = SumFunction(g)
         /\ SuspenseHoldsTheRest <=> GetBalance(ledger, Suspense) = Rest(ledger)
         /\ SuspenseHoldsTheRest' <=> GetBalance(ledger', Suspense) = Rest(ledger')
    BY DEF Rest, SuspenseHoldsTheRest, Unmoved
  <2> HIDE DEF S, T, j, id, c, row, f, g
  <2>11. SumFunction(g) = SumFunction(f) + g[j] /\ SumFunction(f) \in Int
    BY <2>7, <2>8, <2>9, FunctionSumExtend, FunctionSumType
  <2> QED
    BY <1>1, <2>4, <2>5, <2>9, <2>10, <2>11 DEF RestInv
<1> QED
  BY <1>4, <1>5

\* Nothing else changes the ledger.
LEMMA RestNext == SuspenseInv /\ RestInv /\ [Next]_vars => RestInv'
<1> SUFFICES ASSUME SuspenseInv, RestInv, [Next]_vars PROVE RestInv'
  OBVIOUS
<1>1. CASE \E r \in Requests : pc[r] = "post" /\ ledger' = Moved(r)
  BY <1>1, PostKeepsRest
<1>2. CASE ledger' = ledger
  BY <1>2 DEF RestInv, SuspenseHoldsTheRest
<1>3. ledger' = ledger \/ \E r \in Requests : pc[r] = "post" /\ ledger' = Moved(r)
  BY DEF Next, vars, Step, Failure, Resolve, PostResolution, ResolveSuspenseItem, Append,
     CallFails, PostUnconfirmed, UpdateUnconfirmed, AuditFails, Retry
<1> QED
  BY <1>1, <1>2, <1>3

\* Suspense holds the amounts of the items that were not reassigned, no more and no
\* less, however often and by whomever a reassignment is posted.
THEOREM SuspenseHoldsTheRestAlways == Spec => []SuspenseHoldsTheRest
<1>1. RestInv => SuspenseHoldsTheRest
  BY DEF RestInv
<1> QED
  BY <1>1, RestInit, RestNext, SuspenseInvariant, PTL DEF Spec

-----------------------------------------------------------------------------
(* SuspenseResolution implements SuspenseLife.                             *)

\* The holder of an item, by the ledger: suspense, or the one customer credited.
LEMMA HolderIs ==
    ASSUME NEW i \in Items
    PROVE  /\ ~Exists(ledger, Resolution[i]) => Holder(i) = Suspense
           /\ \A c \in Customers :
                  (Exists(ledger, Resolution[i]) /\ Credited(ledger[Resolution[i]]) = {c})
                      => Holder(i) = c
<1>1. ASSUME NEW c \in Customers, Exists(ledger, Resolution[i]),
             Credited(ledger[Resolution[i]]) = {c}
      PROVE  Holder(i) = c
  <2>1. \A d \in Customers : Credited(ledger[Resolution[i]]) = {d} <=> d = c
    BY <1>1
  <2>2. (CHOOSE d \in Customers : Credited(ledger[Resolution[i]]) = {d}) = c
    BY <2>1
  <2> QED
    BY <1>1, <2>2 DEF Holder
<1> QED
  BY <1>1 DEF Holder

\* The holder depends on one row of the ledger.
LEMMA HolderKept ==
    ASSUME NEW i \in Items, ledger'[Resolution[i]] = ledger[Resolution[i]]
    PROVE  Holder(i)' = Holder(i)
BY DEF Holder, Exists, GetTransaction

\* Where no row and no status changes, the abstract state does not change.
LEMMA StutterMaps ==
    ASSUME UNCHANGED <<ledger, status>>
    PROVE  UNCHANGED <<[i \in Items |-> Holder(i)], status>>
BY DEF Holder

\* A post moves the money of its item, or finds it moved.
LEMMA PostMaps ==
    ASSUME SuspenseInv, NEW r \in Requests, pc[r] = "post", ledger' = Moved(r),
           SuspenseInv', UNCHANGED status
    PROVE  [Life!Next]_<<[i \in Items |-> Holder(i)], status>>
<1> DEFINE j == Asked[r].item
           c == Asked[r].target
           holder == [i \in Items |-> Holder(i)]
<1>1. Asked[r].resolution = "reassigned" /\ c \in Customers /\ j \in Items
  BY AskedType DEF SuspenseInv, MoversNameCustomers
<1>2. c \in Claimants[j]
  BY <1>1, TargetClaims
<1>3. /\ \A t \in TxIds : Exists(ledger, t) => ledger'[t] = ledger[t]
      /\ \A t \in TxIds \ {Resolution[j]} : ledger'[t] = ledger[t]
      /\ Exists(ledger', Resolution[j])
      /\ ~Exists(ledger, Resolution[j]) => Credited(ledger'[Resolution[j]]) = {c}
  BY <1>1, MovedRow DEF SuspenseInv, TypeOK
<1>4. \A i \in Items : Resolution[i] \in TxIds /\ (i # j => Resolution[i] # Resolution[j])
  BY <1>1, SuspenseAssumption
<1>5. \A i \in Items \ {j} : Holder(i)' = Holder(i)
  <2> SUFFICES ASSUME NEW i \in Items \ {j} PROVE Holder(i)' = Holder(i)
    OBVIOUS
  <2>1. ledger'[Resolution[i]] = ledger[Resolution[i]]
    BY <1>3, <1>4
  <2> QED
    BY <2>1, HolderKept
<1>6. CASE Exists(ledger, Resolution[j])
  <2>1. Holder(j)' = Holder(j)
    BY <1>1, <1>3, <1>4, <1>6, HolderKept
  <2>2. holder' = holder
    BY <1>5, <2>1
  <2> QED
    BY <2>2
<1>7. CASE ~Exists(ledger, Resolution[j])
  <2>1. Holder(j) = Suspense
    BY <1>1, <1>7, HolderIs
  <2>2. Holder(j)' = c
    <3>1. \A d \in Customers : Credited(ledger'[Resolution[j]]) = {d} <=> d = c
      BY <1>1, <1>3, <1>7
    <3>2. (CHOOSE d \in Customers : Credited(ledger'[Resolution[j]]) = {d}) = c
      BY <1>1, <3>1
    <3> QED
      BY <1>3, <3>2 DEF Holder
  <2>3. holder' = [holder EXCEPT ![j] = c]
    BY <1>1, <1>5, <2>2
  <2>4. Life!Move(j, c)
    BY <1>1, <1>2, <2>1, <2>3 DEF Life!Move
  <2> QED
    BY <1>1, <2>4 DEF Life!Next
<1> QED
  BY <1>6, <1>7

\* A write of the status is a resolution of an open item, or nothing.
LEMMA UpdateMaps ==
    ASSUME SuspenseInv, NEW r \in Requests, pc[r] = "update", status' = Updated(Asked[r]),
           UNCHANGED ledger
    PROVE  [Life!Next]_<<[i \in Items |-> Holder(i)], status>>
<1> DEFINE j == Asked[r].item
<1>1. j \in Items /\ Asked[r].resolution \in Resolutions
  BY AskedType
<1>2. [i \in Items |-> Holder(i)]' = [i \in Items |-> Holder(i)]
  BY DEF Holder
<1>3. CASE status[j] # "open"
  BY <1>2, <1>3 DEF Updated
<1>4. CASE status[j] = "open" /\ Asked[r].resolution = "refund_flagged"
  <2>1. Life!FlagRefund(j)
    BY <1>2, <1>4 DEF Updated, Life!FlagRefund
  <2> QED
    BY <1>1, <2>1 DEF Life!Next
<1>5. CASE status[j] = "open" /\ Asked[r].resolution = "reassigned"
  <2>1. Exists(ledger, Resolution[j])
    BY <1>5 DEF SuspenseInv, ClosersMoved
  <2>2. PICK c \in Claimants[j] : Credited(ledger[Resolution[j]]) = {c}
    BY <1>1, <2>1 DEF SuspenseInv, ResolutionsClaimed
  <2>3. c \in Customers
    BY <1>1, ClaimsAreAsked
  <2>4. Holder(j) # Suspense
    BY <1>1, <2>1, <2>2, <2>3, HolderIs, AccountsAssumption
  <2>5. Life!Reassign(j)
    BY <1>1, <1>2, <1>5, <2>4 DEF Updated, Life!Reassign
  <2> QED
    BY <1>1, <2>5 DEF Life!Next
<1> QED
  BY <1>1, <1>3, <1>4, <1>5 DEF Resolutions

\* Every step is a step of SuspenseLife or a stutter.
LEMMA StepMaps ==
    ASSUME SuspenseInv, SuspenseInv', [Next]_vars
    PROVE  [Life!Next]_<<[i \in Items |-> Holder(i)], status>>
<1>1. ASSUME NEW r \in Requests, PostResolution(r) \/ PostUnconfirmed(r)
      PROVE  [Life!Next]_<<[i \in Items |-> Holder(i)], status>>
  BY <1>1, PostMaps DEF PostResolution, PostUnconfirmed
<1>2. ASSUME NEW r \in Requests, ResolveSuspenseItem(r) \/ UpdateUnconfirmed(r)
      PROVE  [Life!Next]_<<[i \in Items |-> Holder(i)], status>>
  BY <1>2, UpdateMaps DEF ResolveSuspenseItem, UpdateUnconfirmed
<1>3. ASSUME NEW r \in Requests,
             Resolve(r) \/ Append(r) \/ CallFails(r) \/ AuditFails(r) \/ Retry(r)
      PROVE  UNCHANGED <<ledger, status>>
  BY <1>3 DEF Resolve, Append, CallFails, AuditFails, Retry
<1>4. CASE UNCHANGED vars
  BY <1>4, StutterMaps DEF vars
<1> QED
  BY <1>1, <1>2, <1>3, <1>4, StutterMaps DEF Next, Step, Failure

\* The initial states map to initial states.
LEMMA InitMaps == Init => Life!Init
<1> SUFFICES ASSUME Init PROVE Life!Init
  OBVIOUS
<1>1. \A i \in Items : ~Exists(ledger, Resolution[i])
  BY SuspenseAssumption DEF Init, Exists, GetTransaction, Absent
<1>2. \A i \in Items : Holder(i) = Suspense
  BY <1>1, HolderIs
<1> QED
  BY <1>2 DEF Init, Life!Init

\* The handler's calls, interleaved with those of any number of other requests and
\* with any failures, implement the life of an item: its money moves at most once,
\* to a customer it was claimed for, before the item says reassigned, and a
\* resolution is final.
THEOREM SuspenseRefines == Spec => ImplementsSuspenseLife
<1>1. SuspenseInv /\ SuspenseInv' /\ [Next]_vars
          => [Life!Next]_<<[i \in Items |-> Holder(i)], status>>
  BY StepMaps
<1> QED
  BY <1>1, InitMaps, SuspenseInvariant, PTL DEF Spec, ImplementsSuspenseLife, Life!Spec
=============================================================================
