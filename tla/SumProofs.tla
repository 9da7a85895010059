------------------------------ MODULE SumProofs ------------------------------
(***************************************************************************)
(* SumFunction of the community modules, on functions from a finite set to *)
(* the naturals: that its recursion is well founded, and what one change   *)
(* of one value does to it.  Inductions are over sets: the set of numbers, *)
(* or of subsets, for which a fact holds is shown to be all of them.       *)
(***************************************************************************)
EXTENDS Functions, FiniteSets, FiniteSetTheorems, WellFoundedInduction, TLAPS

\* Every set of numbers that is not empty has a least one.
LEMMA LeastNat ==
    ASSUME NEW N \in SUBSET Nat, N # {}
    PROVE  \E n \in N : \A m \in N : n <= m
  <1>1. PICK n \in N : \A m \in N : ~ (<<m, n>> \in OpToRel(<, Nat))
    BY NatLessThanWellFounded, WFMin
  <1>2. \A m \in N : ~ (m < n)
    BY <1>1 DEF OpToRel
  <1> QED
    BY <1>2

\* Induction over the naturals, for a set in place of a predicate.
LEMMA NatSetInduction ==
    ASSUME NEW N \in SUBSET Nat, 0 \in N, \A n \in N : n + 1 \in N
    PROVE  Nat \subseteq N
  <1> SUFFICES ASSUME Nat \ N # {} PROVE FALSE
    OBVIOUS
  <1>1. PICK n \in Nat \ N : \A m \in Nat \ N : n <= m
    BY LeastNat
  <1>2. n # 0 /\ n - 1 \in Nat
    BY <1>1
  <1>3. n - 1 \in N
    BY <1>1, <1>2
  <1> QED
    BY <1>1, <1>2, <1>3

\* A set of subsets of S that holds each one whose smaller parts it holds
\* holds them all.
LEMMA SubsetInduction ==
    ASSUME NEW S, IsFiniteSet(S), NEW G \in SUBSET SUBSET S,
           \A T \in SUBSET S :
              (T # {} => \A x \in T : T \ {x} \in G) => T \in G
    PROVE  SUBSET S \subseteq G
  <1> DEFINE N == {n \in Nat : \A T \in SUBSET S : Cardinality(T) <= n => T \in G}
  <1>0. \A T \in SUBSET S : IsFiniteSet(T) /\ Cardinality(T) \in Nat
    BY FS_Subset, FS_CardinalityType
  <1>1. 0 \in N
    <2>1. ASSUME NEW T \in SUBSET S, Cardinality(T) <= 0 PROVE T = {}
      BY <1>0, <2>1, FS_EmptySet
    <2> QED
      BY <2>1
  <1>2. \A n \in N : n + 1 \in N
    <2>1. SUFFICES ASSUME NEW n \in N, NEW T \in SUBSET S, Cardinality(T) <= n + 1
                   PROVE  T \in G
      OBVIOUS
    <2>2. ASSUME NEW x \in T PROVE T \ {x} \in G
      <3>1. Cardinality(T \ {x}) = Cardinality(T) - 1
        BY <1>0, FS_RemoveElement
      <3>2. Cardinality(T \ {x}) <= n
        BY <1>0, <2>1, <3>1
      <3> QED
        BY <3>2
    <2> QED
      BY <2>2
  <1> HIDE DEF N
  <1>3. Nat \subseteq N
    <2>1. N \in SUBSET Nat
      BY DEF N
    <2> QED
      BY <1>1, <1>2, <2>1, NatSetInduction
  <1> QED
    BY <1>0, <1>3 DEF N

-----------------------------------------------------------------------------
\* One round of the recursion, and a function that goes through all of them.
Pick(T) == CHOOSE x \in T : TRUE

Round(f, h, T) == IF T = {} THEN 0 ELSE f[Pick(T)] + h[T \ {Pick(T)}]

PartSums(f, S) == CHOOSE h : h = [T \in SUBSET S |-> Round(f, h, T)]

\* SumFunction is the last of the partial sums.
LEMMA SumIsPartSum ==
    ASSUME NEW f, NEW S, S = DOMAIN f
    PROVE  SumFunction(f) = PartSums(f, S)[S]
  BY DEF SumFunction, SumFunctionOnSet, FoldFunctionOnSet, MapThenFoldSet,
         PartSums, Round, Pick

\* Partial sums of numbers are numbers.
LEMMA RoundsAreNat ==
    ASSUME NEW S, IsFiniteSet(S), NEW f \in [S -> Nat], NEW p,
           \A T \in SUBSET S : p[T] = Round(f, p, T)
    PROVE  \A T \in SUBSET S : p[T] \in Nat
  <1> DEFINE G == {T \in SUBSET S : p[T] \in Nat}
  <1>1. ASSUME NEW T \in SUBSET S, T # {} => \A x \in T : T \ {x} \in G
        PROVE  T \in G
    <2> SUFFICES p[T] \in Nat
      OBVIOUS
    <2>1. p[T] = Round(f, p, T)
      OBVIOUS
    <2>2. CASE T = {}
      BY <2>1, <2>2 DEF Round
    <2>3. CASE T # {}
      <3>1. Pick(T) \in T
        BY <2>3 DEF Pick
      <3>2. p[T \ {Pick(T)}] \in Nat /\ f[Pick(T)] \in Nat
        BY <1>1, <2>3, <3>1
      <3> QED
        BY <2>1, <2>3, <3>2 DEF Round
    <2> QED
      BY <2>2, <2>3
  <1> HIDE DEF G
  <1>2. SUBSET S \subseteq G
    <2>1. G \in SUBSET SUBSET S
      BY DEF G
    <2> QED
      BY <1>1, <2>1, SubsetInduction
  <1> QED
    BY <1>2 DEF G

\* The recursion that SumFunction is defined by has a solution.
LEMMA PartSumsExist ==
    ASSUME NEW S, IsFiniteSet(S), NEW f \in [S -> Nat]
    PROVE  /\ PartSums(f, S) \in [SUBSET S -> Nat]
           /\ \A T \in SUBSET S : PartSums(f, S)[T] = Round(f, PartSums(f, S), T)
  <1> DEFINE Upto(h, n) ==
                \A T \in SUBSET S : Cardinality(T) <= n => h[T] = Round(f, h, T)
             N == {n \in Nat : \E h \in [SUBSET S -> Nat] : Upto(h, n)}
  <1>0. \A T \in SUBSET S : IsFiniteSet(T) /\ Cardinality(T) \in Nat
    BY FS_Subset, FS_CardinalityType
  <1>1. 0 \in N
    <2>1. [T \in SUBSET S |-> 0] \in [SUBSET S -> Nat]
      OBVIOUS
    <2>2. ASSUME NEW T \in SUBSET S, Cardinality(T) <= 0 PROVE T = {}
      BY <1>0, <2>2, FS_EmptySet
    <2>3. Upto([T \in SUBSET S |-> 0], 0)
      BY <2>2 DEF Round
    <2> QED
      BY <2>1, <2>3
  <1>2. \A n \in N : n + 1 \in N
    <2>1. SUFFICES ASSUME NEW n \in N PROVE n + 1 \in N
      OBVIOUS
    <2>2. PICK h \in [SUBSET S -> Nat] : Upto(h, n)
      OBVIOUS
    <2> DEFINE g == [T \in SUBSET S |-> Round(f, h, T)]
    <2>3. ASSUME NEW T \in SUBSET S, T # {}
          PROVE  /\ Pick(T) \in T
                 /\ T \ {Pick(T)} \in SUBSET S
                 /\ Cardinality(T \ {Pick(T)}) = Cardinality(T) - 1
      <3>1. Pick(T) \in T
        BY <2>3 DEF Pick
      <3> QED
        BY <1>0, <3>1, FS_RemoveElement
    <2>4. g \in [SUBSET S -> Nat]
      <3>1. ASSUME NEW T \in SUBSET S PROVE Round(f, h, T) \in Nat
        <4>1. CASE T = {}
          BY <4>1 DEF Round
        <4>2. CASE T # {}
          <5>1. f[Pick(T)] \in Nat /\ h[T \ {Pick(T)}] \in Nat
            BY <2>3, <4>2
          <5> QED
            BY <4>2, <5>1 DEF Round
        <4> QED
          BY <4>1, <4>2
      <3> QED
        BY <3>1
    <2>5. ASSUME NEW T \in SUBSET S, Cardinality(T) <= n + 1
          PROVE  g[T] = Round(f, g, T)
      <3>1. CASE T = {}
        BY <3>1 DEF Round
      <3>2. CASE T # {}
        <4> DEFINE U == T \ {Pick(T)}
        <4>1. U \in SUBSET S /\ Cardinality(U) <= n
          BY <1>0, <2>3, <2>5, <3>2
        <4>2. h[U] = Round(f, h, U)
          BY <2>2, <4>1
        <4>3. g[U] = h[U]
          BY <4>1, <4>2
        <4> QED
          BY <3>2, <4>3 DEF Round
      <3> QED
        BY <3>1, <3>2
    <2> HIDE DEF g
    <2>6. Upto(g, n + 1)
      BY <2>5
    <2> QED
      BY <2>4, <2>6
  <1>3. Cardinality(S) \in N
    <2> HIDE DEF N
    <2>1. N \in SUBSET Nat
      BY DEF N
    <2> QED
      BY <1>0, <1>1, <1>2, <2>1, NatSetInduction
  <1>4. PICK h \in [SUBSET S -> Nat] : Upto(h, Cardinality(S))
    BY <1>3
  <1>5. \A T \in SUBSET S : h[T] = Round(f, h, T)
    BY <1>0, <1>4, FS_Subset
  <1>6. h = [T \in SUBSET S |-> Round(f, h, T)]
    BY <1>5
  <1>7. PartSums(f, S) = [T \in SUBSET S |-> Round(f, PartSums(f, S), T)]
    BY <1>6 DEF PartSums
  <1> DEFINE p == PartSums(f, S)
  <1>8. \A T \in SUBSET S : p[T] = Round(f, p, T)
    <2> HIDE DEF p
    <2>1. p = [T \in SUBSET S |-> Round(f, p, T)]
      BY <1>7 DEF p
    <2> QED
      BY <2>1
  <1>9. p \in [SUBSET S -> Nat]
    <2> HIDE DEF p
    <2>1. p = [T \in SUBSET S |-> Round(f, p, T)]
      BY <1>7 DEF p
    <2> QED
      BY <1>8, <2>1, RoundsAreNat
  <1> QED
    BY <1>8, <1>9

-----------------------------------------------------------------------------
\* The sum over a finite set is a natural number.
LEMMA SumType ==
    ASSUME NEW S, IsFiniteSet(S), NEW f \in [S -> Nat]
    PROVE  SumFunction(f) \in Nat
  <1>1. SumFunction(f) = PartSums(f, S)[S]
    <2>1. S = DOMAIN f
      OBVIOUS
    <2> QED
      BY <2>1, SumIsPartSum
  <1>2. PartSums(f, S) \in [SUBSET S -> Nat]
    BY PartSumsExist
  <1>3. S \in SUBSET S
    OBVIOUS
  <1> QED
    BY <1>1, <1>2, <1>3

\* Changing one term changes the sum by as much.
LEMMA SumChange ==
    ASSUME NEW S, IsFiniteSet(S), NEW f \in [S -> Nat], NEW a \in S, NEW v \in Nat
    PROVE  SumFunction([f EXCEPT ![a] = v]) = SumFunction(f) - f[a] + v
  <1> DEFINE g == [f EXCEPT ![a] = v]
             p == PartSums(f, S)
             q == PartSums(g, S)
             G == {T \in SUBSET S : q[T] = IF a \in T THEN p[T] - f[a] + v ELSE p[T]}
  <1>1. g \in [S -> Nat] /\ g[a] = v /\ \A x \in S \ {a} : g[x] = f[x]
    OBVIOUS
  <1> HIDE DEF g
  <1>2. /\ p \in [SUBSET S -> Nat] /\ \A T \in SUBSET S : p[T] = Round(f, p, T)
        /\ q \in [SUBSET S -> Nat] /\ \A T \in SUBSET S : q[T] = Round(g, q, T)
    BY <1>1, PartSumsExist
  <1>3. SumFunction(f) = p[S] /\ SumFunction(g) = q[S]
    BY <1>1, SumIsPartSum
  <1> HIDE DEF p, q
  <1>4. ASSUME NEW T \in SUBSET S, T # {} => \A x \in T : T \ {x} \in G
        PROVE  T \in G
    <2> SUFFICES q[T] = IF a \in T THEN p[T] - f[a] + v ELSE p[T]
      OBVIOUS
    <2>1. p[T] = Round(f, p, T) /\ q[T] = Round(g, q, T)
      BY <1>2
    <2>2. CASE T = {}
      BY <2>1, <2>2 DEF Round
    <2>3. CASE T # {}
      <3> DEFINE x == Pick(T)
                 U == T \ {x}
      <3>1. x \in T
        BY <2>3 DEF Pick
      <3>2. p[T] = f[x] + p[U] /\ q[T] = g[x] + q[U]
        BY <2>1, <2>3 DEF Round
      <3> HIDE DEF x
      <3>3. q[U] = IF a \in U THEN p[U] - f[a] + v ELSE p[U]
        BY <1>4, <2>3, <3>1
      <3>4. p[U] \in Nat /\ q[U] \in Nat /\ f[x] \in Nat /\ g[x] \in Nat /\ f[a] \in Nat
        BY <1>1, <1>2, <3>1
      <3>5. CASE x = a
        BY <1>1, <3>1, <3>2, <3>3, <3>4, <3>5
      <3>6. CASE x # a
        <4>1. g[x] = f[x] /\ (a \in U <=> a \in T)
          BY <1>1, <3>1, <3>6
        <4> HIDE DEF U
        <4> QED
          BY <3>2, <3>3, <3>4, <4>1
      <3> QED
        BY <3>5, <3>6
    <2> QED
      BY <2>2, <2>3
  <1> HIDE DEF G
  <1>5. SUBSET S \subseteq G
    <2>1. G \in SUBSET SUBSET S
      BY DEF G
    <2> QED
      BY <1>4, <2>1, SubsetInduction
  <1>6. q[S] = p[S] - f[a] + v
    BY <1>5 DEF G
  <1> QED
    BY <1>3, <1>6 DEF g

\* A sum is at least each of its terms: set the term to zero and look at what
\* remains.
LEMMA SumBoundsTerm ==
    ASSUME NEW S, IsFiniteSet(S), NEW f \in [S -> Nat], NEW a \in S
    PROVE  f[a] <= SumFunction(f)
  <1> DEFINE g == [f EXCEPT ![a] = 0]
  <1>1. g \in [S -> Nat]
    OBVIOUS
  <1>2. SumFunction(g) = SumFunction(f) - f[a] + 0
    <2>1. \A v \in Nat : SumFunction([f EXCEPT ![a] = v]) = SumFunction(f) - f[a] + v
      BY SumChange
    <2> QED
      BY <2>1
  <1> HIDE DEF g
  <1>3. SumFunction(g) \in Nat /\ SumFunction(f) \in Nat /\ f[a] \in Nat
    BY <1>1, SumType
  <1> QED
    BY <1>2, <1>3

\* A sum of one value over part of the set and zero elsewhere.
LEMMA SumOfConstant ==
    ASSUME NEW S, IsFiniteSet(S), NEW E \in SUBSET S, NEW v \in Nat
    PROVE  SumFunction([x \in S |-> IF x \in E THEN v ELSE 0]) = Cardinality(E) * v
  <1> DEFINE f == [x \in S |-> IF x \in E THEN v ELSE 0]
             p == PartSums(f, S)
             G == {T \in SUBSET S : p[T] = Cardinality(T \cap E) * v}
  <1>1. f \in [S -> Nat] /\ \A x \in S : f[x] = IF x \in E THEN v ELSE 0
    OBVIOUS
  <1> HIDE DEF f
  <1>2. p \in [SUBSET S -> Nat] /\ \A T \in SUBSET S : p[T] = Round(f, p, T)
    BY <1>1, PartSumsExist
  <1>3. SumFunction(f) = p[S]
    BY <1>1, SumIsPartSum
  <1> HIDE DEF p
  <1>4. ASSUME NEW T \in SUBSET S, T # {} => \A x \in T : T \ {x} \in G
        PROVE  T \in G
    <2> SUFFICES p[T] = Cardinality(T \cap E) * v
      OBVIOUS
    <2>1. p[T] = Round(f, p, T)
      BY <1>2
    <2>2. CASE T = {}
      <3>1. Cardinality(T \cap E) = 0
        BY <2>2, FS_EmptySet
      <3> QED
        BY <2>1, <2>2, <3>1 DEF Round
    <2>3. CASE T # {}
      <3> DEFINE x == Pick(T)
                 n == Cardinality(T \cap E)
                 m == Cardinality((T \ {x}) \cap E)
      <3>1. x \in T
        BY <2>3 DEF Pick
      <3>2. p[T] = f[x] + p[T \ {x}]
        BY <2>1, <2>3 DEF Round
      <3> HIDE DEF x
      <3>3. p[T \ {x}] = m * v
        BY <1>4, <2>3, <3>1
      <3>4. IsFiniteSet(T \cap E)
        BY FS_Subset
      <3>5. (T \ {x}) \cap E = (T \cap E) \ {x}
        OBVIOUS
      <3>6. n \in Nat /\ m \in Nat /\ m = IF x \in T \cap E THEN n - 1 ELSE n
        BY <3>4, <3>5, FS_RemoveElement, FS_CardinalityType
      <3> HIDE DEF m, n
      <3>7. CASE x \in E
        <4>1. f[x] = v /\ n = m + 1
          BY <1>1, <3>1, <3>6, <3>7
        <4>2. n * v = m * v + v
          BY <3>6, <4>1
        <4>3. m * v \in Nat
          BY <3>6
        <4> QED
          BY <3>2, <3>3, <4>1, <4>2, <4>3 DEF n
      <3>8. CASE x \notin E
        <4>1. f[x] = 0 /\ n = m /\ m * v \in Nat
          BY <1>1, <3>1, <3>6, <3>8
        <4> QED
          BY <3>2, <3>3, <4>1 DEF n
      <3> QED
        BY <3>7, <3>8
    <2> QED
      BY <2>2, <2>3
  <1> HIDE DEF G
  <1>5. SUBSET S \subseteq G
    <2>1. G \in SUBSET SUBSET S
      BY DEF G
    <2> QED
      BY <1>4, <2>1, SubsetInduction
  <1>6. S \cap E = E
    OBVIOUS
  <1>7. p[S] = Cardinality(E) * v
    BY <1>5, <1>6 DEF G
  <1> QED
    BY <1>3, <1>7 DEF f

=============================================================================
