----------------------------- MODULE SumProofs -----------------------------
(***************************************************************************)
(* Facts about sums over finite sets, SumFunctionOnSet of the community    *)
(* modules, which is defined by recursion.  A recursion over finite sets   *)
(* is reasoned about through the least counterexample: the cardinalities   *)
(* of the sets for which a fact fails are natural numbers.                 *)
(***************************************************************************)
EXTENDS Integers, FiniteSets, Functions, FiniteSetTheorems, WellFoundedInduction, TLAPS

\* A nonempty set of natural numbers has a least element.
LEMMA LeastNat ==
  ASSUME NEW T, T \subseteq Nat, T # {}
  PROVE  \E x \in T : \A y \in T : x <= y
<1> DEFINE R == {ss \in Nat \X Nat : ss[1] < ss[2]}
<1>1. IsWellFoundedOn(R, Nat)
  BY NatLessThanWellFounded DEF OpToRel
<1> HIDE DEF R
<1>2. PICK x \in T : \A y \in T : ~ (<<y, x>> \in R)
  BY <1>1, WFMin
<1>3. \A y \in T : ~(y < x)
  BY <1>2 DEF R
<1> QED BY <1>3

\* Among the finite sets of a nonempty collection, one is smallest.
LEMMA SmallestSet ==
  ASSUME NEW C, C # {}, \A s \in C : IsFiniteSet(s)
  PROVE  \E s \in C : \A t \in C : Cardinality(s) <= Cardinality(t)
<1> DEFINE T == {Cardinality(s) : s \in C}
<1>1. T \subseteq Nat /\ T # {}
  BY FS_CardinalityType
<1>2. PICK n \in T : \A m \in T : n <= m
  BY <1>1, LeastNat
<1> QED BY <1>2

\* The values a function takes on a finite set.
LEMMA FiniteImage ==
  ASSUME NEW S, IsFiniteSet(S), NEW f
  PROVE  IsFiniteSet({f[x] : x \in S})
<1> DEFINE T == {f[x] : x \in S}
           g == [x \in S |-> f[x]]
<1>1. g \in [S -> T] /\ \A y \in T : \E x \in S : g[x] = y
  OBVIOUS
<1> HIDE DEF g, T
<1>2. g \in Surjection(S, T)
  BY <1>1 DEF Surjection
<1>3. IsFiniteSet(T)
  BY <1>2, FS_Surjection
<1> QED BY <1>3 DEF T

\* Without one of its elements a set is smaller.
LEMMA Smaller ==
  ASSUME NEW s, IsFiniteSet(s), NEW x \in s
  PROVE  /\ IsFiniteSet(s \ {x})
         /\ Cardinality(s \ {x}) \in Nat /\ Cardinality(s) \in Nat
         /\ Cardinality(s \ {x}) = Cardinality(s) - 1
BY FS_RemoveElement, FS_CardinalityType

pick(s) == CHOOSE x \in s : TRUE

LEMMA PickIn == ASSUME NEW s, s # {} PROVE pick(s) \in s
BY DEF pick

\* it is the function that SumFunctionOnSet(f, S) iterates, on the sets of D.
Iterates(it, f, D) ==
  it = [s \in D |-> IF s = {} THEN 0 ELSE f[pick(s)] + it[s \ {pick(s)}]]

Iteration(f, S) == CHOOSE it : Iterates(it, f, SUBSET S)

LEMMA SumUnfold ==
  ASSUME NEW f, NEW S
  PROVE  SumFunctionOnSet(f, S) = Iteration(f, S)[S]
BY DEF SumFunctionOnSet, FoldFunctionOnSet, MapThenFoldSet, Iterates, Iteration, pick

\* The subsets of S with at most n elements; the iteration exists on them.
UpTo(S, n) == {s \in SUBSET S : Cardinality(s) <= n}

LEMMA IterationUpTo ==
  ASSUME NEW f, NEW S, IsFiniteSet(S)
  PROVE  \A n \in Nat : \E it : Iterates(it, f, UpTo(S, n))
<1> DEFINE D(n) == UpTo(S, n)
           T == {n \in Nat : ~\E it : Iterates(it, f, D(n))}
<1>1. SUFFICES T = {}
  OBVIOUS
<1>2. SUFFICES ASSUME NEW n \in T, \A m \in T : n <= m PROVE FALSE
  BY LeastNat
<1>3. \A s \in SUBSET S : IsFiniteSet(s) /\ Cardinality(s) \in Nat
  BY FS_Subset, FS_CardinalityType
<1>4. CASE n = 0
  <2>1. \A s \in D(0) : s = {}
    BY <1>3, FS_EmptySet DEF UpTo
  <2>2. Iterates([s \in D(0) |-> 0], f, D(0))
    BY <2>1 DEF Iterates
  <2> QED BY <1>4, <2>2
<1>5. CASE n # 0
  <2>1. n - 1 \in Nat /\ n - 1 \notin T
    <3>1. n \in Nat
      OBVIOUS
    <3> HIDE DEF T
    <3> QED BY <1>2, <1>5, <3>1
  <2>2. PICK it : Iterates(it, f, D(n - 1))
    BY <2>1
  <2> DEFINE new == [s \in D(n) |-> IF s = {} THEN 0 ELSE f[pick(s)] + it[s \ {pick(s)}]]
  <2>3. ASSUME NEW s \in D(n - 1) PROVE new[s] = it[s]
    <3>1. s \in D(n)
      BY <1>3, <2>1 DEF UpTo
    <3> QED BY <2>2, <3>1 DEF Iterates
  <2>4. ASSUME NEW s \in D(n), s # {} PROVE s \ {pick(s)} \in D(n - 1)
    BY <1>3, <2>4, PickIn, Smaller DEF UpTo
  <2>5. new = [s \in D(n) |-> IF s = {} THEN 0 ELSE f[pick(s)] + new[s \ {pick(s)}]]
    BY <2>3, <2>4
  <2> HIDE DEF new
  <2>6. Iterates(new, f, D(n))
    BY <2>5 DEF Iterates
  <2> QED BY <2>6
<1> QED BY <1>4, <1>5

LEMMA IterationExists ==
  ASSUME NEW f, NEW S, IsFiniteSet(S)
  PROVE  Iterates(Iteration(f, S), f, SUBSET S)
<1>1. PICK n \in Nat : n = Cardinality(S)
  BY FS_CardinalityType
<1>2. SUBSET S = UpTo(S, n)
  BY <1>1, FS_Subset DEF UpTo
<1>3. \E it : Iterates(it, f, UpTo(S, n))
  BY IterationUpTo
<1>4. \E it : Iterates(it, f, SUBSET S)
  BY <1>2, <1>3
<1> QED BY <1>4 DEF Iteration

\* Iterations of functions that agree on a set agree there.
LEMMA IterationsAgree ==
  ASSUME NEW f, NEW g, NEW R, NEW S, NEW U, U \subseteq R, U \subseteq S,
         IsFiniteSet(R), IsFiniteSet(S), \A x \in U : f[x] = g[x]
  PROVE  Iteration(f, R)[U] = Iteration(g, S)[U]
<1> DEFINE i == Iteration(f, R)
           j == Iteration(g, S)
           C == {s \in SUBSET U : i[s] # j[s]}
<1>1. Iterates(i, f, SUBSET R) /\ Iterates(j, g, SUBSET S)
  BY IterationExists
<1> HIDE DEF i, j
<1>2. ASSUME NEW s \in SUBSET U, s # {}
      PROVE  /\ i[s] = f[pick(s)] + i[s \ {pick(s)}]
             /\ j[s] = g[pick(s)] + j[s \ {pick(s)}]
  BY <1>1, <1>2 DEF Iterates
<1>3. i[{}] = 0 /\ j[{}] = 0
  BY <1>1 DEF Iterates
<1>4. IsFiniteSet(U)
  BY FS_Subset
<1>5. SUFFICES ASSUME C # {} PROVE FALSE
  BY DEF i, j
<1>6. \A s \in C : IsFiniteSet(s)
  BY <1>4, FS_Subset
<1>7. PICK s \in C : \A t \in C : Cardinality(s) <= Cardinality(t)
  BY <1>5, <1>6, SmallestSet
<1>8. s # {}
  BY <1>3
<1>9. s \ {pick(s)} \notin C
  BY <1>6, <1>7, <1>8, PickIn, Smaller
<1>10. pick(s) \in U
  BY <1>8, PickIn
<1> QED BY <1>2, <1>8, <1>9, <1>10

(***************************************************************************)
(* The facts.                                                              *)
(***************************************************************************)
LEMMA SumEmpty == ASSUME NEW f PROVE SumFunctionOnSet(f, {}) = 0
<1> DEFINE it == Iteration(f, {})
<1>1. Iterates(it, f, SUBSET {})
  BY IterationExists, FS_EmptySet
<1> HIDE DEF it
<1>2. it[{}] = 0
  BY <1>1 DEF Iterates
<1> QED BY <1>2, SumUnfold DEF it

\* Only the values on the set matter.
LEMMA SumSame ==
  ASSUME NEW f, NEW g, NEW S, IsFiniteSet(S), \A x \in S : f[x] = g[x]
  PROVE  SumFunctionOnSet(f, S) = SumFunctionOnSet(g, S)
<1>1. Iteration(f, S)[S] = Iteration(g, S)[S]
  BY IterationsAgree
<1> QED BY <1>1, SumUnfold

LEMMA SumPick ==
  ASSUME NEW f, NEW S, IsFiniteSet(S), S # {}
  PROVE  SumFunctionOnSet(f, S) = f[pick(S)] + SumFunctionOnSet(f, S \ {pick(S)})
<1> DEFINE U == S \ {pick(S)}
           it == Iteration(f, S)
<1>1. it[S] = f[pick(S)] + it[U]
  <2>1. Iterates(it, f, SUBSET S)
    BY IterationExists
  <2> HIDE DEF it
  <2> QED BY <2>1 DEF Iterates
<1>2. IsFiniteSet(U)
  BY FS_Subset
<1>3. Iteration(f, S)[U] = Iteration(f, U)[U]
  BY <1>2, IterationsAgree
<1> QED BY <1>1, <1>3, SumUnfold

LEMMA SumType ==
  ASSUME NEW S, IsFiniteSet(S), NEW f, \A x \in S : f[x] \in Int
  PROVE  SumFunctionOnSet(f, S) \in Int
<1> DEFINE C == {s \in SUBSET S : SumFunctionOnSet(f, s) \notin Int}
<1>1. SUFFICES ASSUME C # {} PROVE FALSE
  OBVIOUS
<1>2. \A s \in C : IsFiniteSet(s)
  BY FS_Subset
<1>3. PICK s \in C : \A t \in C : Cardinality(s) <= Cardinality(t)
  BY <1>1, <1>2, SmallestSet
<1>4. s # {}
  BY SumEmpty
<1>5. SumFunctionOnSet(f, s \ {pick(s)}) \in Int /\ f[pick(s)] \in Int
  BY <1>2, <1>3, <1>4, PickIn, Smaller
<1> QED BY <1>2, <1>4, <1>5, SumPick

\* The order of summation does not matter: any element may be taken out first.
LEMMA SumRemove ==
  ASSUME NEW S, IsFiniteSet(S), NEW f, \A x \in S : f[x] \in Int, NEW x \in S
  PROVE  SumFunctionOnSet(f, S) = f[x] + SumFunctionOnSet(f, S \ {x})
<1> DEFINE Sum(s) == SumFunctionOnSet(f, s)
           C == {s \in SUBSET S : \E y \in s : Sum(s) # f[y] + Sum(s \ {y})}
<1>1. SUFFICES ASSUME C # {} PROVE FALSE
  OBVIOUS
<1>2. \A s \in SUBSET S : IsFiniteSet(s) /\ Sum(s) \in Int
  BY FS_Subset, SumType
<1>3. PICK s \in C : \A t \in C : Cardinality(s) <= Cardinality(t)
  BY <1>1, <1>2, SmallestSet
<1>4. PICK y \in s : Sum(s) # f[y] + Sum(s \ {y})
  OBVIOUS
<1> DEFINE p == pick(s)
<1>5. p \in s /\ Sum(s) = f[p] + Sum(s \ {p}) /\ p # y
  BY <1>2, <1>4, PickIn, SumPick
<1>6. s \ {p} \notin C /\ s \ {y} \notin C
  <2>1. ASSUME NEW z \in s PROVE ~(Cardinality(s) <= Cardinality(s \ {z}))
    BY <1>2, Smaller
  <2> QED BY <1>3, <1>5, <2>1
<1> HIDE DEF p
<1>7. /\ Sum(s \ {p}) = f[y] + Sum((s \ {p}) \ {y})
      /\ Sum(s \ {y}) = f[p] + Sum((s \ {y}) \ {p})
  BY <1>5, <1>6
<1>8. (s \ {p}) \ {y} = (s \ {y}) \ {p}
  OBVIOUS
<1>9. f[y] \in Int /\ f[p] \in Int /\ Sum((s \ {y}) \ {p}) \in Int
  BY <1>2, <1>5
<1>10. Sum(s) = f[y] + Sum(s \ {y})
  <2> DEFINE t == (s \ {y}) \ {p}
  <2>1. /\ Sum(s) = f[p] + Sum(s \ {p}) /\ Sum(s \ {p}) = f[y] + Sum(t)
        /\ Sum(s \ {y}) = f[p] + Sum(t) /\ Sum(t) \in Int
    BY <1>5, <1>7, <1>8, <1>9
  <2> HIDE DEF Sum, t
  <2> QED BY <1>9, <2>1
<1> QED BY <1>4, <1>10

LEMMA SumAdd ==
  ASSUME NEW S, IsFiniteSet(S), NEW f, NEW x, x \notin S, \A y \in S \cup {x} : f[y] \in Int
  PROVE  SumFunctionOnSet(f, S \cup {x}) = f[x] + SumFunctionOnSet(f, S)
<1>1. IsFiniteSet(S \cup {x}) /\ (S \cup {x}) \ {x} = S
  BY FS_AddElement
<1> QED BY <1>1, SumRemove

\* The sum over two disjoint sets.
LEMMA SumUnion ==
  ASSUME NEW R, NEW S, IsFiniteSet(R), IsFiniteSet(S), R \cap S = {},
         NEW f, \A x \in R \cup S : f[x] \in Int
  PROVE  SumFunctionOnSet(f, R \cup S) = SumFunctionOnSet(f, R) + SumFunctionOnSet(f, S)
<1> DEFINE Sum(s) == SumFunctionOnSet(f, s)
           C == {s \in SUBSET S : Sum(R \cup s) # Sum(R) + Sum(s)}
<1>1. SUFFICES ASSUME C # {} PROVE FALSE
  OBVIOUS
<1>2. ASSUME NEW s \in SUBSET S
      PROVE  /\ IsFiniteSet(s) /\ IsFiniteSet(R \cup s) /\ Sum(s) \in Int /\ Sum(R) \in Int
  BY FS_Subset, FS_Union, SumType
<1>3. PICK s \in C : \A t \in C : Cardinality(s) <= Cardinality(t)
  BY <1>1, <1>2, SmallestSet
<1>4. s # {}
  <2>1. Sum(R \cup {}) = Sum(R) /\ Sum({}) = 0 /\ Sum(R) \in Int
    <3>1. R \cup {} = R
      OBVIOUS
    <3> QED BY <1>2, <3>1, SumEmpty
  <2>2. {} \notin C
    BY <2>1
  <2> QED BY <1>3, <2>2
<1>5. PICK x \in s : TRUE
  BY <1>4
<1> DEFINE t == s \ {x}
<1>6. Sum(R \cup t) = Sum(R) + Sum(t)
  <2>1. IsFiniteSet(s)
    BY <1>2
  <2>2. /\ Cardinality(t) \in Nat /\ Cardinality(s) \in Nat
        /\ Cardinality(t) = Cardinality(s) - 1
    BY <1>5, <2>1, Smaller
  <2>3. t \notin C
    BY <1>3, <2>2
  <2> QED BY <2>3
<1>7. Sum(s) = f[x] + Sum(t)
  BY <1>2, <1>5, SumRemove
<1>8. Sum(R \cup s) = f[x] + Sum(R \cup t)
  <2>1. (R \cup s) \ {x} = R \cup t
    BY <1>5
  <2>2. Sum(R \cup s) = f[x] + Sum((R \cup s) \ {x})
    BY <1>2, <1>5, SumRemove
  <2> QED BY <2>1, <2>2
<1>9. Sum(R \cup s) = Sum(R) + Sum(s)
  <2>1. f[x] \in Int /\ Sum(R) \in Int /\ Sum(t) \in Int
    BY <1>2, <1>5
  <2> HIDE DEF Sum, t
  <2> QED BY <1>6, <1>7, <1>8, <2>1
<1> QED BY <1>3, <1>9

(***************************************************************************)
(* Sums of the amounts of a set of rows.                                   *)
(***************************************************************************)
AmountSum(rows) == SumFunction([e \in rows |-> e.amount])

LEMMA AmountSumOn ==
  ASSUME NEW R, NEW S, IsFiniteSet(S), R \subseteq S
  PROVE  AmountSum(R) = SumFunctionOnSet([e \in S |-> e.amount], R)
<1>1. IsFiniteSet(R)
  BY FS_Subset
<1> DEFINE f == [e \in R |-> e.amount]
           g == [e \in S |-> e.amount]
<1>2. SumFunctionOnSet(f, R) = SumFunctionOnSet(g, R)
  <2>1. \A e \in R : f[e] = g[e]
    OBVIOUS
  <2> HIDE DEF f, g
  <2> QED BY <1>1, <2>1, SumSame
<1>3. DOMAIN f = R
  OBVIOUS
<1> QED BY <1>2, <1>3 DEF AmountSum, SumFunction

LEMMA AmountsEmpty == AmountSum({}) = 0
BY SumEmpty DEF AmountSum, SumFunction

LEMMA AmountsType ==
  ASSUME NEW S, IsFiniteSet(S), \A e \in S : e.amount \in Int
  PROVE  AmountSum(S) \in Int
BY SumType DEF AmountSum, SumFunction

LEMMA AmountsUnion ==
  ASSUME NEW R, NEW S, IsFiniteSet(R), IsFiniteSet(S), R \cap S = {},
         \A e \in R \cup S : e.amount \in Int
  PROVE  AmountSum(R \cup S) = AmountSum(R) + AmountSum(S)
<1> DEFINE f == [e \in R \cup S |-> e.amount]
<1>1. IsFiniteSet(R \cup S)
  BY FS_Union
<1>2. /\ AmountSum(R \cup S) = SumFunctionOnSet(f, R \cup S)
      /\ AmountSum(R) = SumFunctionOnSet(f, R) /\ AmountSum(S) = SumFunctionOnSet(f, S)
  BY <1>1, AmountSumOn
<1>3. \A e \in R \cup S : f[e] \in Int
  OBVIOUS
<1> HIDE DEF f
<1> QED BY <1>2, <1>3, SumUnion

LEMMA AmountsAdd ==
  ASSUME NEW S, IsFiniteSet(S), NEW x, x \notin S, \A e \in S \cup {x} : e.amount \in Int
  PROVE  AmountSum(S \cup {x}) = x.amount + AmountSum(S)
<1> DEFINE f == [e \in S \cup {x} |-> e.amount]
<1>1. IsFiniteSet(S \cup {x})
  BY FS_AddElement
<1>2. /\ AmountSum(S \cup {x}) = SumFunctionOnSet(f, S \cup {x})
      /\ AmountSum(S) = SumFunctionOnSet(f, S)
  BY <1>1, AmountSumOn
<1>3. f[x] = x.amount /\ \A e \in S \cup {x} : f[e] \in Int
  OBVIOUS
<1>4. SumFunctionOnSet(f, S \cup {x}) = f[x] + SumFunctionOnSet(f, S)
  <2> HIDE DEF f
  <2> QED BY <1>3, SumAdd
<1> QED BY <1>2, <1>3, <1>4

\* No sum of amounts of at most 0 is positive.
LEMMA AmountsNegative ==
  ASSUME NEW S, IsFiniteSet(S), \A e \in S : e.amount \in Int /\ e.amount <= 0
  PROVE  AmountSum(S) <= 0
<1> DEFINE C == {s \in SUBSET S : ~(AmountSum(s) <= 0)}
<1> SUFFICES ASSUME S \in C PROVE FALSE
  OBVIOUS
<1>1. \A s \in C : IsFiniteSet(s) /\ s \subseteq S
  BY FS_Subset
<1>2. PICK s \in C : \A t \in C : Cardinality(s) <= Cardinality(t)
  <2> HIDE DEF C
  <2> QED BY <1>1, SmallestSet
<1>3. PICK x : x \in s
  BY AmountsEmpty
<1> DEFINE t == s \ {x}
<1>4. IsFiniteSet(t) /\ Cardinality(t) \in Nat /\ Cardinality(s) \in Nat /\ Cardinality(t) = Cardinality(s) - 1
  BY <1>1, <1>3, Smaller
<1>5. t \notin C
  <2> HIDE DEF C, t
  <2> QED BY <1>2, <1>4
<1>6. AmountSum(t) <= 0 /\ t \subseteq S
  BY <1>1, <1>5
<1>7. AmountSum(s) = x.amount + AmountSum(t) /\ AmountSum(t) \in Int
  <2>1. s = t \cup {x} /\ x \notin t
    BY <1>3
  <2>2. \A e \in t \cup {x} : e.amount \in Int
    BY <1>1, <2>1
  <2> HIDE DEF t
  <2> QED BY <1>4, <2>1, <2>2, AmountsAdd, AmountsType
<1>8. x.amount \in Int /\ x.amount <= 0
  BY <1>1, <1>3
<1>9. AmountSum(s) <= 0
  <2> HIDE DEF t
  <2> QED BY <1>6, <1>7, <1>8
<1> QED BY <1>9
=============================================================================
