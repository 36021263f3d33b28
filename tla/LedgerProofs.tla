---------------------------- MODULE LedgerProofs ----------------------------
(***************************************************************************)
(* What the operators of Ledger return, for every row and every amount.    *)
(***************************************************************************)
EXTENDS Ledger, Sums, TLAPS

\* The entry constructors build entries of the ledger.
LEMMA TransferType ==
    ASSUME NEW dr \in Accounts, NEW cr \in Accounts, NEW amount \in Int
    PROVE  Transfer(dr, cr, amount) \in SUBSET LedgerEntry
BY DEF Transfer, LedgerEntry

\* A transfer of a positive amount has entries, and credits the account cr.
LEMMA TransferCredits ==
    ASSUME NEW dr, NEW cr, NEW amount \in Int, amount > 0, NEW row,
           row.entries = Transfer(dr, cr, amount)
    PROVE  row.entries # {} /\ Credited(row) = {cr} /\ Debited(row) = {dr}
<1> DEFINE debit == [account |-> dr, direction |-> "debit", amount |-> amount]
           credit == [account |-> cr, direction |-> "credit", amount |-> amount]
<1>1. row.entries = {debit, credit}
  BY DEF Transfer
<1>2. Credited(row) = {cr}
  <2>1. {x \in row.entries : x.direction = "credit"} = {credit}
    BY <1>1
  <2>2. {e.account : e \in {credit}} = {cr}
    OBVIOUS
  <2> QED
    BY <2>1, <2>2 DEF Credited
<1>3. Debited(row) = {dr}
  <2>1. {x \in row.entries : x.direction = "debit"} = {debit}
    BY <1>1
  <2>2. {e.account : e \in {debit}} = {dr}
    OBVIOUS
  <2> QED
    BY <2>1, <2>2 DEF Debited
<1> QED
  BY <1>1, <1>2, <1>3

\* Where a row exists, PostTransaction changes nothing.
LEMMA PostKeeps ==
    ASSUME NEW l \in [TxIds -> Transaction], NEW id \in TxIds, NEW row \in Transaction
    PROVE  /\ PostTransaction(l, id, row) \in [TxIds -> Transaction]
           /\ \A t \in TxIds : Exists(l, t) => PostTransaction(l, id, row)[t] = l[t]
           /\ \A t \in TxIds \ {id} : PostTransaction(l, id, row)[t] = l[t]
           /\ ~Exists(l, id) => PostTransaction(l, id, row)[id] = row
BY DEF PostTransaction, Exists, GetTransaction

-----------------------------------------------------------------------------
(* Balances.  A sum over the rows changes by the row that is posted.       *)

\* The entries of account a in a row, and what they credit.
Own(row, a) == {e \in row.entries : e.account = a}

\* Every row has finitely many entries.
FiniteRows(l) == \A t \in TxIds : IsFiniteSet(l[t].entries)

\* The total of finitely many entries is an integer, and that of none is 0.
LEMMA TotalType ==
    ASSUME NEW E \in SUBSET LedgerEntry, IsFiniteSet(E), NEW d
    PROVE  Total(E, d) \in Int /\ (E = {} => Total(E, d) = 0)
<1> DEFINE S == {x \in E : x.direction = d}
           f == [e \in S |-> e.amount]
<1>1. IsFiniteSet(S) /\ (E = {} => S = {})
  BY FS_Subset
<1>2. f \in [S -> Int]
  BY DEF LedgerEntry
<1>3. Total(E, d) = SumFunction(f)
  BY DEF Total
<1> HIDE DEF S, f
<1> QED
  BY <1>1, <1>2, <1>3, FunctionSumType

\* So is the movement of an account in such a row.
LEMMA MovementType ==
    ASSUME NEW row \in Transaction, IsFiniteSet(row.entries), NEW a
    PROVE  /\ Movement(row, a) \in Int
           /\ row.entries = {} => Movement(row, a) = 0
<1>1. /\ Own(row, a) \in SUBSET LedgerEntry
      /\ IsFiniteSet(Own(row, a))
      /\ row.entries = {} => Own(row, a) = {}
  BY FS_Subset DEF Own, Transaction
<1>2. /\ Total(Own(row, a), "credit") \in Int
      /\ Total(Own(row, a), "debit") \in Int
      /\ Own(row, a) = {} => /\ Total(Own(row, a), "credit") = 0
                            /\ Total(Own(row, a), "debit") = 0
  BY <1>1, TotalType
<1>3. Movement(row, a) = Total(Own(row, a), "credit") - Total(Own(row, a), "debit")
  BY DEF Movement, Own
<1> QED
  BY <1>1, <1>2, <1>3

\* The total of one entry is its amount, in its own direction only.
LEMMA TotalOne ==
    ASSUME NEW e, e.amount \in Int, NEW d
    PROVE  Total({e}, d) = IF e.direction = d THEN e.amount ELSE 0
<1> DEFINE S == {x \in {e} : x.direction = d}
           f == [x \in S |-> x.amount]
<1>1. Total({e}, d) = SumFunction(f)
  BY DEF Total
<1>2. CASE e.direction = d
  <2>1. S = {e} /\ f \in [{e} -> Int] /\ f[e] = e.amount
    BY <1>2
  <2> HIDE DEF S, f
  <2> QED
    BY <1>1, <1>2, <2>1, FunctionSumOne
<1>3. CASE e.direction # d
  <2>1. S = {} /\ f \in [S -> Int] /\ IsFiniteSet(S)
    BY <1>3, FS_EmptySet
  <2> HIDE DEF S, f
  <2> QED
    BY <1>1, <1>3, <2>1, FunctionSumType
<1> QED
  BY <1>2, <1>3

\* A transfer moves its amount from dr to cr, and touches no other account.
LEMMA TransferMovement ==
    ASSUME NEW dr, NEW cr, dr # cr, NEW amount \in Int, amount > 0, NEW row,
           row.entries = Transfer(dr, cr, amount), NEW a
    PROVE  /\ IsFiniteSet(row.entries)
           /\ Movement(row, a) =
                  IF a = cr THEN amount ELSE IF a = dr THEN -amount ELSE 0
<1> DEFINE debit == [account |-> dr, direction |-> "debit", amount |-> amount]
           credit == [account |-> cr, direction |-> "credit", amount |-> amount]
<1>1. row.entries = {debit, credit}
  BY DEF Transfer
<1>2. IsFiniteSet(row.entries)
  <2>1. IsFiniteSet({debit}) /\ IsFiniteSet({debit} \cup {credit})
    BY FS_Singleton, FS_AddElement
  <2>2. {debit} \cup {credit} = {debit, credit}
    OBVIOUS
  <2> QED
    BY <1>1, <2>1, <2>2
<1>3. Movement(row, a) = Total(Own(row, a), "credit") - Total(Own(row, a), "debit")
  BY DEF Movement, Own
<1>4. /\ debit.amount = amount /\ debit.direction = "debit" /\ debit.account = dr
      /\ credit.amount = amount /\ credit.direction = "credit" /\ credit.account = cr
  OBVIOUS
<1>5. CASE a = cr
  <2>1. Own(row, a) = {credit}
    BY <1>1, <1>5 DEF Own
  <2> HIDE DEF debit, credit
  <2>2. Total({credit}, "credit") = amount /\ Total({credit}, "debit") = 0
    BY <1>4, TotalOne
  <2> QED
    BY <1>2, <1>3, <1>5, <2>1, <2>2
<1>6. CASE a = dr
  <2>1. Own(row, a) = {debit}
    BY <1>1, <1>6 DEF Own
  <2> HIDE DEF debit, credit
  <2>2. Total({debit}, "credit") = 0 /\ Total({debit}, "debit") = amount
    BY <1>4, TotalOne
  <2> QED
    BY <1>2, <1>3, <1>6, <2>1, <2>2
<1>7. CASE a # dr /\ a # cr
  <2>1. Own(row, a) = {}
    BY <1>1, <1>7 DEF Own
  <2>2. {} \in SUBSET LedgerEntry /\ IsFiniteSet({})
    BY FS_EmptySet
  <2>3. Total({}, "credit") = 0 /\ Total({}, "debit") = 0
    BY <2>2, TotalType
  <2> HIDE DEF debit, credit
  <2> QED
    BY <1>2, <1>3, <1>7, <2>1, <2>3
<1> QED
  BY <1>5, <1>6, <1>7

\* Balances are integers.
LEMMA BalanceType ==
    ASSUME NEW l \in [TxIds -> Transaction], FiniteRows(l), NEW a
    PROVE  GetBalance(l, a) \in Int
<1> DEFINE f == [t \in TxIds |-> Movement(l[t], a)]
<1>1. f \in [TxIds -> Int]
  BY MovementType DEF FiniteRows
<1>2. GetBalance(l, a) = SumFunction(f)
  BY DEF GetBalance
<1> HIDE DEF f
<1> QED
  BY <1>1, <1>2, FiniteAssumption, FunctionSumType

\* A row that is posted first moves every balance by its own movement.
LEMMA BalanceAfterPost ==
    ASSUME NEW l \in [TxIds -> Transaction], FiniteRows(l), NEW id \in TxIds,
           ~Exists(l, id), NEW row \in Transaction, IsFiniteSet(row.entries),
           NEW m, m = PostTransaction(l, id, row), NEW a
    PROVE  /\ FiniteRows(m)
           /\ GetBalance(m, a) = GetBalance(l, a) + Movement(row, a)
<1> DEFINE f == [t \in TxIds |-> Movement(l[t], a)]
           F == [t \in TxIds |-> Movement(m[t], a)]
<1>1. /\ m \in [TxIds -> Transaction]
      /\ m[id] = row
      /\ \A t \in TxIds \ {id} : m[t] = l[t]
  BY PostKeeps
<1>2. FiniteRows(m)
  BY <1>1 DEF FiniteRows
<1>3. f \in [TxIds -> Int] /\ F \in [TxIds -> Int]
  BY <1>1, <1>2, MovementType DEF FiniteRows
<1>4. (\A t \in TxIds \ {id} : f[t] = F[t]) /\ F[id] = Movement(row, a)
  BY <1>1
<1>5. f[id] = 0
  <2>1. l[id] \in Transaction /\ l[id].entries = {} /\ IsFiniteSet(l[id].entries)
    BY DEF Exists, GetTransaction, FiniteRows
  <2> QED
    BY <2>1, MovementType
<1>6. GetBalance(l, a) = SumFunction(f) /\ GetBalance(m, a) = SumFunction(F)
  BY <1>1 DEF GetBalance
<1> HIDE DEF f, F
<1>7. SumFunction(F) = SumFunction(f) + F[id] - f[id]
  BY <1>3, <1>4, FiniteAssumption, FunctionSumChange
<1>8. SumFunction(f) \in Int /\ Movement(row, a) \in Int
  BY <1>3, FiniteAssumption, FunctionSumType, MovementType
<1> QED
  BY <1>2, <1>4, <1>5, <1>6, <1>7, <1>8

\* Nobody has a balance in the empty ledger.
LEMMA EmptyBalance ==
    ASSUME NEW a
    PROVE  FiniteRows(EmptyLedger) /\ GetBalance(EmptyLedger, a) = 0
<1> DEFINE f == [t \in TxIds |-> Movement(EmptyLedger[t], a)]
<1>1. \A t \in TxIds : EmptyLedger[t] = Absent
  BY DEF EmptyLedger
<1>2. Absent \in Transaction /\ Absent.entries = {} /\ IsFiniteSet(Absent.entries)
  BY FS_EmptySet DEF Absent, Transaction
<1>3. Movement(Absent, a) = 0
  BY <1>2, MovementType
<1>4. f \in [TxIds -> Int] /\ \A t \in TxIds : f[t] = 0
  BY <1>1, <1>3
<1>5. GetBalance(EmptyLedger, a) = SumFunction(f)
  BY DEF GetBalance, EmptyLedger
<1> HIDE DEF f
<1>6. SumFunction(f) = 0
  BY <1>4, FiniteAssumption, FunctionSumZero
<1> QED
  BY <1>1, <1>2, <1>5, <1>6 DEF FiniteRows

\* There are finitely many accounts.
LEMMA AccountsFinite == IsFiniteSet(Accounts)
<1>1. IsFiniteSet(Customers \cup {Settlement})
  BY FiniteAssumption, FS_AddElement
<1>2. IsFiniteSet((Customers \cup {Settlement}) \cup {Suspense})
  BY <1>1, FS_AddElement
<1>3. (Customers \cup {Settlement}) \cup {Suspense} = Accounts
  BY DEF Accounts
<1> QED
  BY <1>2, <1>3

\* A transfer leaves the total over all accounts as it is.
LEMMA TransferKeepsTotal ==
    ASSUME NEW l \in [TxIds -> Transaction], FiniteRows(l), NEW id \in TxIds,
           ~Exists(l, id), NEW row \in Transaction,
           NEW dr \in Accounts, NEW cr \in Accounts, dr # cr,
           NEW amount \in Int, amount > 0, row.entries = Transfer(dr, cr, amount),
           NEW m, m = PostTransaction(l, id, row)
    PROVE  SumFunction([a \in Accounts |-> GetBalance(m, a)]) =
               SumFunction([a \in Accounts |-> GetBalance(l, a)])
<1> DEFINE f == [a \in Accounts |-> GetBalance(l, a)]
           g == [a \in Accounts |-> GetBalance(m, a)]
           h == [f EXCEPT ![cr] = @ + amount]
<1>1. IsFiniteSet(row.entries)
  BY TransferMovement
<1>2. \A a \in Accounts : GetBalance(l, a) \in Int
  BY BalanceType
<1>3. ASSUME NEW a \in Accounts
      PROVE  g[a] = f[a] + IF a = cr THEN amount ELSE IF a = dr THEN -amount ELSE 0
  <2>1. GetBalance(m, a) = GetBalance(l, a) + Movement(row, a)
    BY <1>1, BalanceAfterPost
  <2>2. Movement(row, a) = IF a = cr THEN amount ELSE IF a = dr THEN -amount ELSE 0
    BY TransferMovement
  <2> QED
    BY <2>1, <2>2
<1>4. f \in [Accounts -> Int]
  BY <1>2
<1>5. DOMAIN g = Accounts /\ g = [a \in Accounts |-> g[a]]
  OBVIOUS
<1> HIDE DEF f, g
<1>6. g \in [Accounts -> Int] /\ h \in [Accounts -> Int]
  BY <1>3, <1>4, <1>5
<1>7. IsFiniteSet(Accounts)
  BY AccountsFinite
<1>8. /\ h[cr] = f[cr] + amount /\ h[dr] = f[dr]
      /\ \A a \in Accounts \ {cr} : f[a] = h[a]
      /\ \A a \in Accounts \ {dr} : h[a] = g[a]
      /\ g[dr] = f[dr] - amount
  BY <1>3, <1>4, <1>6
<1> HIDE DEF h
<1>9. SumFunction(h) = SumFunction(f) + h[cr] - f[cr]
  BY <1>4, <1>6, <1>7, <1>8, FunctionSumChange
<1>10. SumFunction(g) = SumFunction(h) + g[dr] - h[dr]
  BY <1>6, <1>7, <1>8, FunctionSumChange
<1>11. SumFunction(f) \in Int /\ f[cr] \in Int /\ f[dr] \in Int
  BY <1>4, <1>7, FunctionSumType
<1>12. SumFunction(g) = SumFunction(f)
  BY <1>8, <1>9, <1>10, <1>11
<1> QED
  BY <1>12 DEF f, g
=============================================================================
