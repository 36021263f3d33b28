-------------------------------- MODULE Sums --------------------------------
(***************************************************************************)
(* Facts about the sum of an integer function over a finite set, as the    *)
(* ledger sums entries, balances and daily credits.                        *)
(*                                                                         *)
(* Functions!SumFunctionOnSet chooses a table of partial sums, one for     *)
(* every subset.  That such a table exists, that its entries do not depend *)
(* on the order the elements are taken in, and what a sum is when one      *)
(* element is taken out, are proved by induction over the subsets of a     *)
(* finite set.  The predicate of an induction is given as the set of what  *)
(* satisfies it: a set that misses a subset misses a smallest one.         *)
(***************************************************************************)
EXTENDS Integers, FiniteSets, Functions, FiniteSetTheorems, TLAPS

\* A set that holds a subset of S whenever it holds all smaller ones holds them
\* all.
LEMMA SubsetInduction ==
    ASSUME NEW S, IsFiniteSet(S), NEW G,
           \A T \in SUBSET S : (\A U \in SUBSET T : U # T => U \in G) => T \in G
    PROVE  \A T \in SUBSET S : T \in G
<1> SUFFICES ASSUME (SUBSET S) \ G # {} PROVE FALSE
  OBVIOUS
<1>1. IsWellFoundedOn(StrictSubsetOrdering(S), SUBSET S)
  <2>1. FiniteSubsetsOf(S) = SUBSET S
    BY FS_FiniteSubsetsOfFinite
  <2>2. IsWellFoundedOn(StrictSubsetOrdering(S), FiniteSubsetsOf(S))
    BY FS_StrictSubsetOrderingWellFounded
  <2> QED
    BY <2>1, <2>2
<1>2. PICK T \in (SUBSET S) \ G : \A U \in (SUBSET S) \ G : ~(<<U, T>> \in StrictSubsetOrdering(S))
  <2> DEFINE R == StrictSubsetOrdering(S)
             B == (SUBSET S) \ G
  <2>1. B \subseteq SUBSET S /\ B # {}
    OBVIOUS
  <2>2. IsWellFoundedOn(R, SUBSET S)
    BY <1>1
  <2> HIDE DEF R, B
  <2>3. \E x \in B : \A y \in B : ~(<<y, x>> \in R)
    BY <2>1, <2>2, WFMin
  <2> QED
    BY <2>3 DEF R, B
<1>3. \A U \in SUBSET T : U # T => U \in G
  BY <1>2 DEF StrictSubsetOrdering
<1> QED
  BY <1>2, <1>3

\* Induction over the natural numbers, with the predicate given as a set.
LEMMA SetNatInduction ==
    ASSUME NEW G, 0 \in G, \A k \in Nat : k \in G => k + 1 \in G, NEW n \in Nat
    PROVE  n \in G
<1> DEFINE S == 1..n
           H == {T \in SUBSET S : \A k \in Nat : T = 1..k => k \in G}
<1>1. IsFiniteSet(S)
  BY FS_Interval
<1>2. ASSUME NEW T \in SUBSET S, \A U \in SUBSET T : U # T => U \in H
      PROVE  T \in H
  <2> SUFFICES ASSUME NEW k \in Nat, T = 1..k PROVE k \in G
    OBVIOUS
  <2>1. CASE k = 0
    BY <2>1
  <2>2. CASE k # 0
    <3>1. k - 1 \in Nat /\ 1..(k - 1) \in SUBSET T /\ 1..(k - 1) # T
      BY <2>2
    <3>2. k - 1 \in G
      BY <1>2, <3>1
    <3> QED
      BY <3>1, <3>2
  <2> QED
    BY <2>1, <2>2
<1>3. \A T \in SUBSET S : T \in H
  <2> HIDE DEF S, H
  <2> QED
    BY <1>1, <1>2, SubsetInduction
<1> QED
  BY <1>3

-----------------------------------------------------------------------------
\* The element a sum over s takes first.
Pick(s) == CHOOSE x \in s : TRUE

\* g is the table of the partial sums of f over the subsets of S.
PartialSums(g, f, S) ==
    g = [s \in SUBSET S |-> IF s = {} THEN 0 ELSE f[Pick(s)] + g[s \ {Pick(s)}]]

\* It is an element.
LEMMA PickIn == \A s : s # {} => Pick(s) \in s
BY DEF Pick

\* There is a table of partial sums: by induction over the size of the subsets.
LEMMA PartialSumsExist ==
    ASSUME NEW S, IsFiniteSet(S), NEW f, \A x \in S : f[x] \in Int
    PROVE  \E g : PartialSums(g, f, S)
<1> DEFINE Layer(n) == {s \in SUBSET S : Cardinality(s) <= n}
           G == {n \in Nat : \E g \in [Layer(n) -> Int] :
                     \A s \in Layer(n) :
                         g[s] = IF s = {} THEN 0 ELSE f[Pick(s)] + g[s \ {Pick(s)}]}
<1>1. \A s \in SUBSET S : IsFiniteSet(s) /\ Cardinality(s) \in Nat /\ Cardinality(s) <= Cardinality(S)
  BY FS_Subset, FS_CardinalityType
<1>2. \A s \in SUBSET S : s # {} =>
          /\ Pick(s) \in S
          /\ s \ {Pick(s)} \in SUBSET S
          /\ Cardinality(s \ {Pick(s)}) = Cardinality(s) - 1
  BY <1>1, PickIn, FS_RemoveElement
<1>3. \A s \in SUBSET S : Cardinality(s) = 0 <=> s = {}
  BY <1>1, FS_EmptySet
<1>4. 0 \in G
  <2> DEFINE g == [s \in Layer(0) |-> 0]
  <2>1. \A s \in Layer(0) : s = {}
    BY <1>1, <1>3
  <2>2. g \in [Layer(0) -> Int]
    OBVIOUS
  <2>3. \A s \in Layer(0) : g[s] = IF s = {} THEN 0 ELSE f[Pick(s)] + g[s \ {Pick(s)}]
    BY <2>1
  <2> HIDE DEF g, Layer
  <2> QED
    BY <2>2, <2>3
<1>5. ASSUME NEW n \in Nat, n \in G PROVE n + 1 \in G
  <2>1. PICK h \in [Layer(n) -> Int] :
            \A s \in Layer(n) : h[s] = IF s = {} THEN 0 ELSE f[Pick(s)] + h[s \ {Pick(s)}]
    BY <1>5
  <2> DEFINE g == [s \in Layer(n + 1) |->
                      IF s = {} THEN 0 ELSE f[Pick(s)] + h[s \ {Pick(s)}]]
  <2>2. ASSUME NEW s \in Layer(n + 1), s # {}
        PROVE  /\ s \ {Pick(s)} \in Layer(n)
               /\ s \ {Pick(s)} \in Layer(n + 1)
               /\ f[Pick(s)] \in Int
               /\ h[s \ {Pick(s)}] \in Int
    BY <1>1, <1>2, <2>2
  <2>3. g \in [Layer(n + 1) -> Int]
    BY <2>2
  <2>4. \A s \in Layer(n) : s \in Layer(n + 1) /\ g[s] = h[s]
    BY <1>1, <2>1
  <2>5. \A s \in Layer(n + 1) : g[s] = IF s = {} THEN 0 ELSE f[Pick(s)] + g[s \ {Pick(s)}]
    BY <2>2, <2>4
  <2>6. n + 1 \in Nat
    OBVIOUS
  <2> HIDE DEF g, Layer
  <2> QED
    BY <2>3, <2>5, <2>6
<1>6. Cardinality(S) \in Nat
  BY <1>1
<1>7. Cardinality(S) \in G
  <2> HIDE DEF G
  <2> QED
    BY <1>4, <1>5, <1>6, SetNatInduction
<1>8. Layer(Cardinality(S)) = SUBSET S
  BY <1>1
<1>9. PICK g \in [SUBSET S -> Int] :
          \A s \in SUBSET S : g[s] = IF s = {} THEN 0 ELSE f[Pick(s)] + g[s \ {Pick(s)}]
  BY <1>7, <1>8
<1> QED
  BY <1>9 DEF PartialSums

\* What SumFunctionOnSet stands for.
LEMMA SumIsPartial ==
    ASSUME NEW S, IsFiniteSet(S), NEW f, \A x \in S : f[x] \in Int
    PROVE  \E g : PartialSums(g, f, S) /\ SumFunctionOnSet(f, S) = g[S]
<1> DEFINE P(g) == g = [s \in SUBSET S |-> IF s = {} THEN 0
                           ELSE f[CHOOSE x \in s : TRUE] + g[s \ {CHOOSE x \in s : TRUE}]]
           it == CHOOSE g : P(g)
<1>1. SumFunctionOnSet(f, S) = it[S]
  BY DEF SumFunctionOnSet, FoldFunctionOnSet, MapThenFoldSet
<1>2. \E g : P(g)
  <2>1. PICK g : PartialSums(g, f, S)
    BY PartialSumsExist
  <2>2. P(g)
    BY <2>1 DEF PartialSums, Pick
  <2> QED
    BY <2>2
<1>3. P(it)
  <2> HIDE DEF P
  <2> QED
    BY <1>2
<1> QED
  BY <1>1, <1>3 DEF PartialSums, Pick

\* Two tables agree wherever both are defined and their functions agree.
LEMMA PartialSumsAgree ==
    ASSUME NEW A, NEW B, A \subseteq B, IsFiniteSet(B), NEW f, NEW e,
           \A x \in A : f[x] = e[x],
           NEW g, PartialSums(g, f, A), NEW h, PartialSums(h, e, B)
    PROVE  \A T \in SUBSET A : g[T] = h[T]
<1> DEFINE G == {T \in SUBSET A : g[T] = h[T]}
<1>1. IsFiniteSet(A)
  BY FS_Subset
<1>2. ASSUME NEW T \in SUBSET A, \A U \in SUBSET T : U # T => U \in G
      PROVE  T \in G
  <2>1. /\ g[T] = IF T = {} THEN 0 ELSE f[Pick(T)] + g[T \ {Pick(T)}]
        /\ h[T] = IF T = {} THEN 0 ELSE e[Pick(T)] + h[T \ {Pick(T)}]
    BY DEF PartialSums
  <2>2. CASE T = {}
    BY <2>1, <2>2
  <2>3. CASE T # {}
    <3>1. Pick(T) \in T
      BY <2>3, PickIn
    <3>2. T \ {Pick(T)} \in G
      BY <1>2, <3>1
    <3> QED
      BY <2>1, <2>3, <3>1, <3>2
  <2> QED
    BY <2>2, <2>3
<1>3. \A T \in SUBSET A : T \in G
  <2> HIDE DEF G
  <2> QED
    BY <1>1, <1>2, SubsetInduction
<1> QED
  BY <1>3

\* The sum depends on the values over the set only.
LEMMA SumCongruent ==
    ASSUME NEW S, IsFiniteSet(S), NEW f, \A x \in S : f[x] \in Int,
           NEW e, \A x \in S : f[x] = e[x]
    PROVE  SumFunctionOnSet(f, S) = SumFunctionOnSet(e, S)
<1>1. PICK g : PartialSums(g, f, S) /\ SumFunctionOnSet(f, S) = g[S]
  BY SumIsPartial
<1>2. PICK h : PartialSums(h, e, S) /\ SumFunctionOnSet(e, S) = h[S]
  BY SumIsPartial
<1>3. \A T \in SUBSET S : g[T] = h[T]
  BY <1>1, <1>2, PartialSumsAgree
<1> QED
  BY <1>1, <1>2, <1>3

\* The recursion, in terms of sums.
LEMMA SumPick ==
    ASSUME NEW S, IsFiniteSet(S), NEW f, \A x \in S : f[x] \in Int
    PROVE  /\ SumFunctionOnSet(f, {}) = 0
           /\ S # {} => SumFunctionOnSet(f, S) =
                            f[Pick(S)] + SumFunctionOnSet(f, S \ {Pick(S)})
<1>1. SumFunctionOnSet(f, {}) = 0
  <2>1. IsFiniteSet({})
    BY FS_EmptySet
  <2>2. PICK g : PartialSums(g, f, {}) /\ SumFunctionOnSet(f, {}) = g[{}]
    BY <2>1, SumIsPartial
  <2> QED
    BY <2>2 DEF PartialSums
<1>2. ASSUME S # {}
      PROVE  SumFunctionOnSet(f, S) = f[Pick(S)] + SumFunctionOnSet(f, S \ {Pick(S)})
  <2> DEFINE R == S \ {Pick(S)}
  <2>1. R \subseteq S /\ IsFiniteSet(R) /\ \A x \in R : f[x] \in Int
    BY FS_RemoveElement
  <2>2. PICK g : PartialSums(g, f, S) /\ SumFunctionOnSet(f, S) = g[S]
    BY SumIsPartial
  <2>3. PICK h : PartialSums(h, f, R) /\ SumFunctionOnSet(f, R) = h[R]
    <3> HIDE DEF R
    <3> QED
      BY <2>1, SumIsPartial
  <2>4. h[R] = g[R]
    <3> HIDE DEF R
    <3> QED
      BY <2>1, <2>2, <2>3, PartialSumsAgree
  <2>5. g[S] = f[Pick(S)] + g[R]
    BY <1>2, <2>2 DEF PartialSums
  <2> QED
    BY <2>2, <2>3, <2>4, <2>5
<1> QED
  BY <1>1, <1>2

\* A sum of integers is an integer.
LEMMA SumType ==
    ASSUME NEW S, IsFiniteSet(S), NEW f, \A x \in S : f[x] \in Int
    PROVE  SumFunctionOnSet(f, S) \in Int
<1> DEFINE G == {T \in SUBSET S : SumFunctionOnSet(f, T) \in Int}
<1>1. ASSUME NEW T \in SUBSET S, \A U \in SUBSET T : U # T => U \in G
      PROVE  T \in G
  <2>1. IsFiniteSet(T) /\ \A x \in T : f[x] \in Int
    BY FS_Subset
  <2>2. CASE T = {}
    BY <2>1, <2>2, SumPick
  <2>3. CASE T # {}
    <3>1. Pick(T) \in T
      BY <2>3, PickIn
    <3>2. T \ {Pick(T)} \in G
      BY <1>1, <3>1
    <3>3. SumFunctionOnSet(f, T) = f[Pick(T)] + SumFunctionOnSet(f, T \ {Pick(T)})
      BY <2>1, <2>3, SumPick
    <3>4. f[Pick(T)] \in Int
      BY <3>1
    <3> QED
      BY <3>2, <3>3, <3>4
  <2> QED
    BY <2>2, <2>3
<1>2. \A T \in SUBSET S : T \in G
  <2> HIDE DEF G
  <2> QED
    BY <1>1, SubsetInduction
<1> QED
  BY <1>2

\* Any element can be taken out of a sum.
LEMMA SumRemove ==
    ASSUME NEW S, IsFiniteSet(S), NEW f, \A x \in S : f[x] \in Int, NEW x \in S
    PROVE  SumFunctionOnSet(f, S) = f[x] + SumFunctionOnSet(f, S \ {x})
<1> DEFINE Sum(T) == SumFunctionOnSet(f, T)
           G == {T \in SUBSET S : \A y \in T : Sum(T) = f[y] + Sum(T \ {y})}
<1>1. \A T \in SUBSET S : IsFiniteSet(T) /\ Sum(T) \in Int
  BY FS_Subset, SumType
<1>2. ASSUME NEW T \in SUBSET S, \A U \in SUBSET T : U # T => U \in G
      PROVE  T \in G
  <2> SUFFICES ASSUME NEW y \in T PROVE Sum(T) = f[y] + Sum(T \ {y})
    OBVIOUS
  <2> DEFINE p == Pick(T)
  <2>1. p \in T /\ Sum(T) = f[p] + Sum(T \ {p})
    BY <1>1, PickIn, SumPick
  <2>2. CASE y = p
    BY <2>1, <2>2
  <2>3. CASE y # p
    <3>1. T \ {p} \in G /\ T \ {y} \in G /\ y \in T \ {p} /\ p \in T \ {y}
      BY <1>2, <2>1, <2>3
    <3>2. Sum(T \ {p}) = f[y] + Sum((T \ {p}) \ {y})
      BY <3>1
    <3>3. Sum(T \ {y}) = f[p] + Sum((T \ {y}) \ {p})
      BY <3>1
    <3>4. (T \ {y}) \ {p} = (T \ {p}) \ {y} /\ (T \ {p}) \ {y} \in SUBSET S
      OBVIOUS
    <3>5. f[y] \in Int /\ f[p] \in Int /\ Sum((T \ {p}) \ {y}) \in Int
      BY <1>1, <2>1, <3>4
    <3>6. Sum(T) = f[p] + (f[y] + Sum((T \ {p}) \ {y}))
      BY <2>1, <3>2
    <3>7. Sum(T \ {y}) = f[p] + Sum((T \ {p}) \ {y})
      BY <3>3, <3>4
    <3> QED
      BY <3>5, <3>6, <3>7
  <2> QED
    BY <2>2, <2>3
<1>3. \A T \in SUBSET S : T \in G
  <2> HIDE DEF G
  <2> QED
    BY <1>2, SubsetInduction
<1> QED
  BY <1>3

-----------------------------------------------------------------------------
(* The same for SumFunction, which sums over the whole domain.              *)

\* A sum of integers is an integer, and a sum of nothing is 0.
LEMMA FunctionSumType ==
    ASSUME NEW S, IsFiniteSet(S), NEW f \in [S -> Int]
    PROVE  SumFunction(f) \in Int /\ (S = {} => SumFunction(f) = 0)
<1>1. DOMAIN f = S /\ \A x \in S : f[x] \in Int
  OBVIOUS
<1> QED
  BY <1>1, SumType, SumPick DEF SumFunction

\* The sum of a function that has one argument is its value there.
LEMMA FunctionSumOne ==
    ASSUME NEW x, NEW f \in [{x} -> Int]
    PROVE  SumFunction(f) = f[x]
<1>1. IsFiniteSet({x}) /\ DOMAIN f = {x} /\ f[x] \in Int
  BY FS_Singleton
<1>2. SumFunctionOnSet(f, {x}) = f[x] + SumFunctionOnSet(f, {x} \ {x})
  BY <1>1, SumRemove
<1>3. {x} \ {x} = {}
  OBVIOUS
<1>4. SumFunctionOnSet(f, {}) = 0
  BY <1>1, SumPick
<1> QED
  BY <1>1, <1>2, <1>3, <1>4 DEF SumFunction

\* Two functions that differ at one argument have sums that differ by as much.
LEMMA FunctionSumChange ==
    ASSUME NEW S, IsFiniteSet(S), NEW f \in [S -> Int], NEW g \in [S -> Int],
           NEW x \in S, \A y \in S \ {x} : f[y] = g[y]
    PROVE  SumFunction(g) = SumFunction(f) + g[x] - f[x]
<1> DEFINE R == S \ {x}
<1>1. IsFiniteSet(R)
  BY FS_RemoveElement
<1>2. SumFunction(f) = f[x] + SumFunctionOnSet(f, R)
  BY SumRemove DEF SumFunction
<1>3. SumFunction(g) = g[x] + SumFunctionOnSet(g, R)
  BY SumRemove DEF SumFunction
<1>4. SumFunctionOnSet(f, R) = SumFunctionOnSet(g, R)
  <2>1. \A y \in R : f[y] \in Int /\ f[y] = g[y]
    OBVIOUS
  <2> HIDE DEF R
  <2> QED
    BY <1>1, <2>1, SumCongruent
<1>5. SumFunctionOnSet(f, R) \in Int
  <2>1. \A y \in R : f[y] \in Int
    OBVIOUS
  <2> HIDE DEF R
  <2> QED
    BY <1>1, <2>1, SumType
<1> HIDE DEF R
<1> QED
  BY <1>2, <1>3, <1>4, <1>5

\* A function with one more argument has a sum with one more term.
LEMMA FunctionSumExtend ==
    ASSUME NEW S, IsFiniteSet(S), NEW f \in [S -> Int],
           NEW x, x \notin S, NEW g \in [S \cup {x} -> Int],
           \A y \in S : f[y] = g[y]
    PROVE  SumFunction(g) = SumFunction(f) + g[x]
<1>1. IsFiniteSet(S \cup {x}) /\ x \in S \cup {x} /\ (S \cup {x}) \ {x} = S
  BY FS_AddElement
<1>2. SumFunctionOnSet(g, S \cup {x}) = g[x] + SumFunctionOnSet(g, (S \cup {x}) \ {x})
  <2> DEFINE T == S \cup {x}
  <2>1. IsFiniteSet(T) /\ x \in T /\ \A y \in T : g[y] \in Int
    BY <1>1
  <2> HIDE DEF T
  <2>2. SumFunctionOnSet(g, T) = g[x] + SumFunctionOnSet(g, T \ {x})
    BY <2>1, SumRemove
  <2> QED
    BY <2>2 DEF T
<1>3. SumFunctionOnSet(f, S) = SumFunctionOnSet(g, S) /\ SumFunctionOnSet(f, S) \in Int
  <2>1. \A y \in S : f[y] \in Int /\ f[y] = g[y]
    OBVIOUS
  <2> QED
    BY <2>1, SumCongruent, SumType
<1>4. DOMAIN f = S /\ DOMAIN g = S \cup {x} /\ g[x] \in Int
  OBVIOUS
<1>5. /\ SumFunction(f) = SumFunctionOnSet(f, S)
      /\ SumFunction(g) = SumFunctionOnSet(g, S \cup {x})
  BY <1>4 DEF SumFunction
<1>6. SumFunction(g) = g[x] + SumFunction(f)
  BY <1>1, <1>2, <1>3, <1>5
<1>7. SumFunction(f) \in Int
  BY <1>3, <1>5
<1> QED
  BY <1>4, <1>6, <1>7

\* A sum of zeros is 0.
LEMMA FunctionSumZero ==
    ASSUME NEW S, IsFiniteSet(S), NEW f \in [S -> Int], \A x \in S : f[x] = 0
    PROVE  SumFunction(f) = 0
<1> DEFINE G == {T \in SUBSET S : SumFunctionOnSet(f, T) = 0}
<1>1. ASSUME NEW T \in SUBSET S, \A U \in SUBSET T : U # T => U \in G
      PROVE  T \in G
  <2>1. IsFiniteSet(T) /\ \A x \in T : f[x] \in Int
    BY FS_Subset
  <2>2. CASE T = {}
    BY <2>1, <2>2, SumPick
  <2>3. CASE T # {}
    <3>1. Pick(T) \in T
      BY <2>3, PickIn
    <3>2. T \ {Pick(T)} \in G
      BY <1>1, <3>1
    <3>3. SumFunctionOnSet(f, T) = f[Pick(T)] + SumFunctionOnSet(f, T \ {Pick(T)})
      BY <2>1, <2>3, SumPick
    <3>4. f[Pick(T)] = 0
      BY <3>1
    <3> QED
      BY <3>2, <3>3, <3>4
  <2> QED
    BY <2>2, <2>3
<1>2. \A T \in SUBSET S : T \in G
  <2> HIDE DEF G
  <2> QED
    BY <1>1, SubsetInduction
<1> QED
  BY <1>2 DEF SumFunction

\* Terms that are 0 may be left out.
LEMMA SumSupport ==
    ASSUME NEW S, IsFiniteSet(S), NEW f, \A x \in S : f[x] \in Int,
           NEW A \in SUBSET S, \A x \in S \ A : f[x] = 0
    PROVE  SumFunctionOnSet(f, S) = SumFunctionOnSet(f, A)
<1> DEFINE Sum(T) == SumFunctionOnSet(f, T)
           G == {T \in SUBSET S : Sum(T) = Sum(T \cap A)}
<1>1. ASSUME NEW T \in SUBSET S, \A U \in SUBSET T : U # T => U \in G
      PROVE  T \in G
  <2>1. /\ IsFiniteSet(T) /\ \A x \in T : f[x] \in Int
        /\ IsFiniteSet(T \cap A) /\ \A x \in T \cap A : f[x] \in Int
    BY FS_Subset
  <2>2. CASE T \subseteq A
    <3>1. T \cap A = T
      BY <2>2
    <3> QED
      BY <3>1
  <2>3. CASE ~(T \subseteq A)
    <3>1. PICK x \in T : x \notin A
      BY <2>3
    <3>2. Sum(T) = f[x] + Sum(T \ {x})
      BY <2>1, SumRemove
    <3>3. f[x] = 0 /\ T \ {x} \in G /\ (T \ {x}) \cap A = T \cap A
      BY <1>1, <3>1
    <3>4. Sum(T \cap A) \in Int
      BY <2>1, SumType
    <3>5. Sum(T \ {x}) = Sum(T \cap A)
      <4>1. Sum(T \ {x}) = Sum((T \ {x}) \cap A)
        BY <3>3
      <4> QED
        BY <3>3, <4>1
    <3>6. Sum(T) = Sum(T \cap A)
      <4> HIDE DEF Sum
      <4> QED
        BY <3>2, <3>3, <3>4, <3>5
    <3> QED
      BY <3>6
  <2> QED
    BY <2>2, <2>3
<1>2. \A T \in SUBSET S : T \in G
  <2> HIDE DEF G
  <2> QED
    BY <1>1, SubsetInduction
<1>3. S \cap A = A
  OBVIOUS
<1> QED
  BY <1>2, <1>3

\* A sum may be taken over other indices, one for each of the old.
LEMMA SumReindex ==
    ASSUME NEW S, IsFiniteSet(S), NEW h, \A x, y \in S : h[x] = h[y] => x = y,
           NEW f, \A x \in S : f[h[x]] \in Int
    PROVE  SumFunctionOnSet(f, {h[x] : x \in S}) = SumFunction([x \in S |-> f[h[x]]])
<1> DEFINE g == [x \in S |-> f[h[x]]]
           Image(T) == {h[x] : x \in T}
           G == {T \in SUBSET S : SumFunctionOnSet(f, Image(T)) = SumFunctionOnSet(g, T)}
<1>1. ASSUME NEW T \in SUBSET S, \A U \in SUBSET T : U # T => U \in G
      PROVE  T \in G
  <2>1. IsFiniteSet(T) /\ \A x \in T : g[x] \in Int
    BY FS_Subset
  <2>2. IsFiniteSet(Image(T)) /\ \A y \in Image(T) : f[y] \in Int
    <3> DEFINE k == [x \in T |-> h[x]]
    <3>1. k \in Surjection(T, Image(T))
      BY DEF Surjection
    <3>2. IsFiniteSet(Image(T))
      <4> HIDE DEF k, Image
      <4> QED
        BY <2>1, <3>1, FS_Surjection
    <3> QED
      BY <3>2
  <2>3. CASE T = {}
    <3>1. Image(T) = {}
      BY <2>3
    <3>2. SumFunctionOnSet(f, {}) = 0 /\ SumFunctionOnSet(g, {}) = 0
      <4>1. IsFiniteSet({}) /\ (\A x \in {} : f[x] \in Int) /\ (\A x \in {} : g[x] \in Int)
        BY FS_EmptySet
      <4> HIDE DEF g
      <4> QED
        BY <4>1, SumPick
    <3> QED
      BY <2>3, <3>1, <3>2
  <2>4. CASE T # {}
    <3>1. PICK x \in T : TRUE
      BY <2>4
    <3>2. SumFunctionOnSet(g, T) = g[x] + SumFunctionOnSet(g, T \ {x})
      <4> HIDE DEF g
      <4> QED
        BY <2>1, SumRemove
    <3>3. h[x] \in Image(T) /\ Image(T) \ {h[x]} = Image(T \ {x})
      OBVIOUS
    <3>4. SumFunctionOnSet(f, Image(T)) = f[h[x]] + SumFunctionOnSet(f, Image(T) \ {h[x]})
      <4> HIDE DEF Image
      <4> QED
        BY <2>2, <3>3, SumRemove
    <3>5. T \ {x} \in G
      BY <1>1
    <3> QED
      BY <3>2, <3>3, <3>4, <3>5
  <2> QED
    BY <2>3, <2>4
<1>2. \A T \in SUBSET S : T \in G
  <2> HIDE DEF G
  <2> QED
    BY <1>1, SubsetInduction
<1>3. SumFunctionOnSet(f, Image(S)) = SumFunctionOnSet(g, S)
  BY <1>2
<1> QED
  BY <1>3 DEF SumFunction
=============================================================================
