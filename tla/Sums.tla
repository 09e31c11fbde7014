-------------------------------- MODULE Sums --------------------------------
(***************************************************************************)
(* Facts about SumFunction of the community module Functions, for functions *)
(* from a finite set to the natural numbers.  The sum is the number of     *)
(* squares in the bar chart of the function, which turns questions about   *)
(* sums into questions about cardinalities.                                *)
(***************************************************************************)
EXTENDS Naturals, FiniteSets, Functions, FiniteSetTheorems, WellFoundedInduction, TLAPS

\* The bar chart of f over s.
Bars(f, s) == UNION {{x} \X (1..f[x]) : x \in s}

\* Induction over the subsets of a finite set, for a set T of subsets.
LEMMA SubsetInduction ==
    ASSUME NEW S, IsFiniteSet(S), NEW T,
           \A s \in SUBSET S : (\A x \in s : s \ {x} \in T) => s \in T
    PROVE  \A s \in SUBSET S : s \in T
<1> DEFINE U == (SUBSET S) \ T
<1>1. SUFFICES ASSUME U # {} PROVE FALSE
  OBVIOUS
<1>2. FiniteSubsetsOf(S) = SUBSET S
  BY FS_FiniteSubsetsOfFinite
<1>3. IsWellFoundedOn(StrictSubsetOrdering(S), SUBSET S)
  BY <1>2, FS_StrictSubsetOrderingWellFounded
<1>4. PICK u \in U : \A v \in U : ~ (<<v, u>> \in StrictSubsetOrdering(S))
  <2>1. U \subseteq SUBSET S
    OBVIOUS
  <2> HIDE DEF U
  <2>2. QED
    BY <1>1, <1>3, <2>1, WFMin
<1>5. ASSUME NEW x \in u PROVE u \ {x} \in T
  <2>1. <<u \ {x}, u>> \in StrictSubsetOrdering(S)
    BY <1>5 DEF StrictSubsetOrdering
  <2>2. QED
    BY <1>4, <2>1
<1>6. QED
  BY <1>5

\* A bar more adds its height.
LEMMA BarsAdd ==
    ASSUME NEW S, NEW f \in [S -> Nat], NEW s \in SUBSET S, NEW x \in s,
           IsFiniteSet(Bars(f, s \ {x}))
    PROVE  /\ IsFiniteSet(Bars(f, s))
           /\ Cardinality(Bars(f, s)) = f[x] + Cardinality(Bars(f, s \ {x}))
<1> DEFINE A == Bars(f, s \ {x})
           B == {x} \X (1..f[x])
<1>1. Bars(f, s) = A \union B /\ A \cap B = {}
  BY DEF Bars
<1>2. f[x] \in Nat
  OBVIOUS
<1>3. IsFiniteSet(1..f[x]) /\ Cardinality(1..f[x]) = f[x]
  BY <1>2, FS_Interval
<1>4. IsFiniteSet({x}) /\ Cardinality({x}) = 1
  BY FS_Singleton
<1>5. IsFiniteSet(B) /\ Cardinality(B) = f[x]
  BY <1>2, <1>3, <1>4, FS_Product
<1>6. Cardinality(A) \in Nat /\ Cardinality({}) = 0
  BY FS_CardinalityType, FS_EmptySet
<1> HIDE DEF A, B
<1>7. IsFiniteSet(A \union B)
      /\ Cardinality(A \union B) = Cardinality(A) + Cardinality(B) - Cardinality(A \cap B)
  BY <1>5, FS_Union DEF A
<1>8. Cardinality(A \cap B) = 0
  BY <1>1, <1>6
<1>9. Cardinality(A \union B) = f[x] + Cardinality(A)
  BY <1>2, <1>5, <1>6, <1>7, <1>8
<1>10. QED
  BY <1>1, <1>7, <1>9 DEF A

\* The bar chart of a function on a finite set is finite.
LEMMA BarsFinite ==
    ASSUME NEW S, IsFiniteSet(S), NEW f \in [S -> Nat]
    PROVE  \A s \in SUBSET S : IsFiniteSet(Bars(f, s)) /\ Cardinality(Bars(f, s)) \in Nat
<1> DEFINE T == {s \in SUBSET S : IsFiniteSet(Bars(f, s))}
<1>1. ASSUME NEW s \in SUBSET S, \A x \in s : s \ {x} \in T PROVE s \in T
  <2>1. CASE s = {}
    <3>1. Bars(f, s) = {}
      BY <2>1 DEF Bars
    <3>2. QED
      BY <3>1, FS_EmptySet
  <2>2. CASE s # {}
    <3>1. PICK x \in s : TRUE
      BY <2>2
    <3>2. QED
      BY <1>1, <3>1, BarsAdd
  <2>3. QED
    BY <2>1, <2>2
<1>2. \A s \in SUBSET S : s \in T
  <2> HIDE DEF T
  <2>1. QED
    BY <1>1, SubsetInduction
<1>3. QED
  BY <1>2, FS_CardinalityType

\* SumFunction, the fold by which the ledgers of the store and of the click pipeline are
\* added up, is the number of squares in the bar chart: the fold's recursion has one
\* solution, and the count of squares satisfies it.
THEOREM SumIsCardinality ==
    ASSUME NEW S, IsFiniteSet(S), NEW f \in [S -> Nat]
    PROVE  SumFunction(f) = Cardinality(Bars(f, S))
<1> DEFINE Step(g, s) == IF s = {} THEN 0
                         ELSE LET x == CHOOSE x \in s : TRUE IN f[x] + g[s \ {x}]
           Is(g) == g = [s \in SUBSET S |-> Step(g, s)]
           count == [s \in SUBSET S |-> Cardinality(Bars(f, s))]
           iter == CHOOSE g : Is(g)
<1>1. SumFunction(f) = iter[S]
  BY DEF SumFunction, SumFunctionOnSet, FoldFunctionOnSet, MapThenFoldSet
<1>2. ASSUME NEW s \in SUBSET S PROVE count[s] = Step(count, s)
  <2>1. CASE s = {}
    <3>1. Bars(f, s) = {}
      BY <2>1 DEF Bars
    <3>2. QED
      BY <2>1, <3>1, FS_EmptySet
  <2>2. CASE s # {}
    <3> DEFINE x == CHOOSE x \in s : TRUE
    <3>1. x \in s
      BY <2>2
    <3>2. s \ {x} \in SUBSET S
      OBVIOUS
    <3>3. count[s] = f[x] + count[s \ {x}]
      <4> HIDE DEF x
      <4>1. QED
        BY <3>1, <3>2, BarsFinite, BarsAdd
    <3>4. QED
      BY <2>2, <3>3
  <2>3. QED
    BY <2>1, <2>2
<1>3. Is(count)
  BY <1>2
<1>4. Is(iter)
  <2> HIDE DEF Is, count
  <2>1. QED
    BY <1>3
<1>5. \A s \in SUBSET S : s \in {u \in SUBSET S : iter[u] = count[u]}
  <2> DEFINE T == {u \in SUBSET S : iter[u] = count[u]}
  <2>1. ASSUME NEW s \in SUBSET S, \A x \in s : s \ {x} \in T PROVE s \in T
    <3>1. iter[s] = Step(iter, s)
      <4> HIDE DEF iter, Step
      <4>1. QED
        BY <1>4
    <3>2. Step(iter, s) = Step(count, s)
      <4> HIDE DEF iter, count
      <4>1. CASE s = {}
        BY <4>1
      <4>2. CASE s # {}
        <5>1. (CHOOSE x \in s : TRUE) \in s
          BY <4>2
        <5>2. iter[s \ {CHOOSE x \in s : TRUE}] = count[s \ {CHOOSE x \in s : TRUE}]
          BY <2>1, <5>1
        <5>3. QED
          BY <5>2
      <4>3. QED
        BY <4>1, <4>2
    <3>3. QED
      BY <1>2, <3>1, <3>2
  <2> HIDE DEF T
  <2>2. QED
    BY <2>1, SubsetInduction DEF T
<1>6. QED
  BY <1>1, <1>5

\* The sum is a natural number.
LEMMA SumType ==
    ASSUME NEW S, IsFiniteSet(S), NEW f \in [S -> Nat]
    PROVE  SumFunction(f) \in Nat
BY SumIsCardinality, BarsFinite

\* A sum moves with the one value that changes.
LEMMA SumUpdate ==
    ASSUME NEW S, IsFiniteSet(S), NEW f \in [S -> Nat], NEW g \in [S -> Nat], NEW a \in S,
           \A x \in S \ {a} : g[x] = f[x]
    PROVE  SumFunction(g) + f[a] = SumFunction(f) + g[a]
<1> DEFINE n == Cardinality(Bars(f, S \ {a}))
<1>1. S \in SUBSET S /\ S \ {a} \in SUBSET S
  OBVIOUS
<1>2. n \in Nat /\ IsFiniteSet(Bars(f, S \ {a})) /\ IsFiniteSet(Bars(g, S \ {a}))
  BY <1>1, BarsFinite
<1>3. Bars(g, S \ {a}) = Bars(f, S \ {a})
  BY DEF Bars
<1>4. Cardinality(Bars(f, S)) = f[a] + n
  BY <1>1, <1>2, BarsAdd
<1>5. Cardinality(Bars(g, S)) = g[a] + n
  BY <1>1, <1>2, <1>3, BarsAdd
<1>6. SumFunction(f) = f[a] + n /\ SumFunction(g) = g[a] + n
  BY <1>4, <1>5, SumIsCardinality
<1>7. f[a] \in Nat /\ g[a] \in Nat
  OBVIOUS
<1> HIDE DEF n
<1>8. QED
  BY <1>2, <1>6, <1>7

\* One more in one place.
LEMMA SumPlusOne ==
    ASSUME NEW S, IsFiniteSet(S), NEW f \in [S -> Nat], NEW a \in S
    PROVE  SumFunction([f EXCEPT ![a] = @ + 1]) = SumFunction(f) + 1
<1> DEFINE g == [f EXCEPT ![a] = @ + 1]
<1>1. g \in [S -> Nat] /\ g[a] = f[a] + 1 /\ \A x \in S \ {a} : g[x] = f[x]
  OBVIOUS
<1> HIDE DEF g
<1>2. SumFunction(g) + f[a] = SumFunction(f) + g[a]
  BY <1>1, SumUpdate
<1>3. SumFunction(f) \in Nat /\ SumFunction(g) \in Nat /\ f[a] \in Nat
  BY <1>1, SumType
<1>4. SumFunction(g) = SumFunction(f) + 1
  BY <1>1, <1>2, <1>3
<1>5. QED
  BY <1>4 DEF g

\* A function that is zero everywhere has the sum zero.
LEMMA SumZero ==
    ASSUME NEW S, IsFiniteSet(S), NEW f \in [S -> Nat], \A x \in S : f[x] = 0
    PROVE  SumFunction(f) = 0
<1>1. Bars(f, S) = {}
  BY DEF Bars
<1>2. QED
  BY <1>1, SumIsCardinality, FS_EmptySet

\* A sum of sums.
LEMMA SumPlus ==
    ASSUME NEW S, IsFiniteSet(S), NEW f \in [S -> Nat], NEW g \in [S -> Nat],
           NEW h \in [S -> Nat], \A x \in S : h[x] = f[x] + g[x]
    PROVE  SumFunction(h) = SumFunction(f) + SumFunction(g)
<1> DEFINE n(k, s) == Cardinality(Bars(k, s))
           T == {s \in SUBSET S : n(h, s) = n(f, s) + n(g, s)}
<1>1. \A s \in SUBSET S : s \in T
  <2>1. ASSUME NEW s \in SUBSET S, \A x \in s : s \ {x} \in T PROVE s \in T
    <3>1. CASE s = {}
      <4>1. Bars(f, s) = {} /\ Bars(g, s) = {} /\ Bars(h, s) = {}
        BY <3>1 DEF Bars
      <4>2. n(f, s) = 0 /\ n(g, s) = 0 /\ n(h, s) = 0
        BY <4>1, FS_EmptySet
      <4> HIDE DEF n
      <4>3. n(h, s) = n(f, s) + n(g, s)
        BY <4>2
      <4>4. QED
        BY <4>3
    <3>2. CASE s # {}
      <4>1. PICK x \in s : TRUE
        BY <3>2
      <4>2. s \ {x} \in SUBSET S
        OBVIOUS
      <4>3. n(f, s) = f[x] + n(f, s \ {x}) /\ n(f, s \ {x}) \in Nat
        BY <4>2, BarsFinite, BarsAdd
      <4>4. n(g, s) = g[x] + n(g, s \ {x}) /\ n(g, s \ {x}) \in Nat
        BY <4>2, BarsFinite, BarsAdd
      <4>5. n(h, s) = h[x] + n(h, s \ {x}) /\ n(h, s \ {x}) \in Nat
        BY <4>2, BarsFinite, BarsAdd
      <4>6. n(h, s \ {x}) = n(f, s \ {x}) + n(g, s \ {x})
        BY <2>1
      <4>7. f[x] \in Nat /\ g[x] \in Nat /\ h[x] = f[x] + g[x]
        OBVIOUS
      <4> HIDE DEF n
      <4>8. n(h, s) = n(f, s) + n(g, s)
        BY <4>3, <4>4, <4>5, <4>6, <4>7
      <4>9. QED
        BY <4>8
    <3>3. QED
      BY <3>1, <3>2
  <2> HIDE DEF T
  <2>2. QED
    BY <2>1, SubsetInduction
<1>2. QED
  BY <1>1, SumIsCardinality

\* The sum of an indicator function is the size of the set.
LEMMA SumIndicator ==
    ASSUME NEW S, IsFiniteSet(S), NEW C \in SUBSET S
    PROVE  SumFunction([x \in S |-> IF x \in C THEN 1 ELSE 0]) = Cardinality(C)
<1> DEFINE f == [x \in S |-> IF x \in C THEN 1 ELSE 0]
<1>1. f \in [S -> Nat]
  OBVIOUS
<1>2. Bars(f, S) = C \X {1}
  <2>1. \A x \in C : 1..f[x] = {1}
    OBVIOUS
  <2>2. \A x \in S \ C : 1..f[x] = {}
    OBVIOUS
  <2> HIDE DEF f
  <2>3. QED
    BY <2>1, <2>2 DEF Bars
<1>3. IsFiniteSet(C) /\ IsFiniteSet({1}) /\ Cardinality({1}) = 1 /\ Cardinality(C) \in Nat
  BY FS_Subset, FS_Singleton, FS_CardinalityType
<1>4. Cardinality(C \X {1}) = Cardinality(C) * 1
  BY <1>3, FS_Product
<1>5. Cardinality(C \X {1}) = Cardinality(C)
  BY <1>3, <1>4
<1> HIDE DEF f
<1>6. SumFunction(f) = Cardinality(C)
  BY <1>1, <1>2, <1>5, SumIsCardinality
<1>7. QED
  BY <1>6 DEF f

\* The union of two finite sets is no larger than the two together.
LEMMA UnionSize ==
    ASSUME NEW A, NEW B, IsFiniteSet(A), IsFiniteSet(B)
    PROVE  /\ IsFiniteSet(A \union B)
           /\ Cardinality(A \union B) <= Cardinality(A) + Cardinality(B)
<1>1. /\ IsFiniteSet(A \union B)
      /\ Cardinality(A \union B) = Cardinality(A) + Cardinality(B) - Cardinality(A \cap B)
  BY FS_Union
<1>2. /\ Cardinality(A) \in Nat /\ Cardinality(B) \in Nat /\ Cardinality(A \cap B) \in Nat
  BY FS_CardinalityType, FS_Intersection
<1>3. QED
  BY <1>1, <1>2

\* The union of a family is no larger than the sum of bounds of its members.
LEMMA FamilySize ==
    ASSUME NEW S, IsFiniteSet(S), NEW f \in [S -> Nat], NEW H,
           \A x \in S : IsFiniteSet(H[x]) /\ Cardinality(H[x]) <= f[x]
    PROVE  /\ IsFiniteSet(UNION {H[x] : x \in S})
           /\ Cardinality(UNION {H[x] : x \in S}) <= SumFunction(f)
<1> DEFINE U(s) == UNION {H[x] : x \in s}
           T == {s \in SUBSET S : IsFiniteSet(U(s)) /\ Cardinality(U(s)) <= Cardinality(Bars(f, s))}
<1>1. \A s \in SUBSET S : s \in T
  <2>1. ASSUME NEW s \in SUBSET S, \A x \in s : s \ {x} \in T PROVE s \in T
    <3>1. CASE s = {}
      <4>1. U(s) = {} /\ Bars(f, s) = {}
        BY <3>1 DEF Bars
      <4>2. IsFiniteSet(U(s)) /\ Cardinality(U(s)) = 0 /\ Cardinality(Bars(f, s)) = 0
        BY <4>1, FS_EmptySet
      <4> HIDE DEF U
      <4>3. QED
        BY <4>2
    <3>2. CASE s # {}
      <4>1. PICK x \in s : TRUE
        BY <3>2
      <4>2. s \ {x} \in SUBSET S
        OBVIOUS
      <4>3. /\ Cardinality(Bars(f, s)) = f[x] + Cardinality(Bars(f, s \ {x}))
            /\ Cardinality(Bars(f, s \ {x})) \in Nat
        BY <4>2, BarsFinite, BarsAdd
      <4>4. U(s) = U(s \ {x}) \union H[x]
        OBVIOUS
      <4>5. /\ IsFiniteSet(U(s \ {x}))
            /\ Cardinality(U(s \ {x})) <= Cardinality(Bars(f, s \ {x}))
        BY <2>1
      <4>6. IsFiniteSet(H[x]) /\ Cardinality(H[x]) <= f[x] /\ f[x] \in Nat
        OBVIOUS
      <4> HIDE DEF U
      <4>7. /\ IsFiniteSet(U(s))
            /\ Cardinality(U(s)) <= Cardinality(U(s \ {x})) + Cardinality(H[x])
        BY <4>4, <4>5, <4>6, UnionSize
      <4>8. /\ Cardinality(U(s)) \in Nat /\ Cardinality(U(s \ {x})) \in Nat
            /\ Cardinality(H[x]) \in Nat
        BY <4>5, <4>6, <4>7, FS_CardinalityType
      <4>9. Cardinality(U(s)) <= Cardinality(Bars(f, s))
        BY <4>3, <4>5, <4>6, <4>7, <4>8
      <4>10. QED
        BY <4>7, <4>9
    <3>3. QED
      BY <3>1, <3>2
  <2> HIDE DEF T
  <2>2. QED
    BY <2>1, SubsetInduction
<1>2. IsFiniteSet(U(S)) /\ Cardinality(U(S)) <= Cardinality(Bars(f, S))
  BY <1>1
<1>3. QED
  BY <1>2, SumIsCardinality
=============================================================================
