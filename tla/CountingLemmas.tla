--------------------------- MODULE CountingLemmas ---------------------------
(***************************************************************************)
(* Lemmas about natural numbers and about the sum of a function's values,  *)
(* FoldFunction(+, 0, f), for every finite domain.  Induction takes the    *)
(* form of a least counterexample, a statement about sets: the induction   *)
(* theorems of the library are about operators.                            *)
(***************************************************************************)
EXTENDS Integers, Functions, FiniteSetTheorems, WellFoundedInduction, TLAPS

LEMMA LeastNat ==
  ASSUME NEW T \in SUBSET Nat, T # {}
  PROVE  \E m \in T : \A n \in T : m <= n
<1> DEFINE R == OpToRel(<, Nat)
<1>1. IsWellFoundedOn(R, Nat)
  BY NatLessThanWellFounded, Zenon
<1>2. \A m, n \in Nat : m < n => <<m, n>> \in R
  BY DEF OpToRel
<1> HIDE DEF R
<1>3. PICK m \in T : \A n \in T : <<n, m>> \notin R
  BY <1>1, WFMin
<1>4. ASSUME NEW n \in T
      PROVE  m <= n
  <2>1. m \in Nat /\ n \in Nat /\ ~(n < m)
    BY <1>2, <1>3
  <2> QED
    BY <2>1
<1> QED
  BY <1>4

\* The element FoldFunction takes out of a set first.
First(s) == CHOOSE x \in s : TRUE

\* What holds of the empty set, and of a set when it holds without its first
\* element, holds of every subset of a finite set.
LEMMA FirstInduction ==
  ASSUME NEW D, IsFiniteSet(D), NEW good, {} \in good,
         \A s \in SUBSET D : s # {} /\ s \ {First(s)} \in good => s \in good
  PROVE  SUBSET D \subseteq good
<1> DEFINE bad == {s \in SUBSET D : s \notin good}
           sizes == {Cardinality(s) : s \in bad}
<1> SUFFICES ASSUME bad # {}
             PROVE  FALSE
  OBVIOUS
<1>1. \A s \in SUBSET D : IsFiniteSet(s) /\ Cardinality(s) \in Nat
  BY FS_Subset, FS_CardinalityType
<1>2. PICK s \in bad : \A r \in bad : Cardinality(s) <= Cardinality(r)
  <2>1. sizes \in SUBSET Nat /\ sizes # {}
    BY <1>1
  <2> HIDE DEF sizes
  <2>2. PICK m \in sizes : \A n \in sizes : m <= n
    BY <2>1, LeastNat
  <2> QED
    BY <2>2 DEF sizes
<1>3. s # {} /\ First(s) \in s
  BY DEF First
<1>4. Cardinality(s \ {First(s)}) = Cardinality(s) - 1
  BY <1>1, <1>3, FS_RemoveElement
<1>5. s \ {First(s)} \in SUBSET D /\ s \ {First(s)} \notin bad
  BY <1>1, <1>2, <1>4
<1> QED
  BY <1>3, <1>5

-----------------------------------------------------------------------------
(* The sum of a function's values.                                         *)

Sum(f) == FoldFunction(+, 0, f)

\* The equation that defines the partial sums of f over the sets of S.
SumStep(f, g, s) == IF s = {} THEN 0 ELSE f[First(s)] + g[s \ {First(s)}]

PartialSums(f, g, S) == g = [s \in S |-> SumStep(f, g, s)]

\* The recursive function in the definition of a fold exists.
LEMMA PartialSumsExist ==
  ASSUME NEW f, IsFiniteSet(DOMAIN f)
  PROVE  \E g : PartialSums(f, g, SUBSET DOMAIN f)
<1> DEFINE D == DOMAIN f
           UpTo(n) == {s \in SUBSET D : Cardinality(s) <= n}
           bad == {n \in Nat : ~ \E g : PartialSums(f, g, UpTo(n))}
<1>1. \A s \in SUBSET D : IsFiniteSet(s) /\ Cardinality(s) \in Nat
  BY FS_Subset, FS_CardinalityType
<1>2. ASSUME bad # {}
      PROVE  FALSE
  <2>1. PICK n \in bad : \A m \in bad : n <= m
    <3>1. bad \in SUBSET Nat
      OBVIOUS
    <3> HIDE DEF bad
    <3> QED
      BY <1>2, <3>1, LeastNat
  <2>2. CASE n = 0
    <3> DEFINE g == [s \in UpTo(0) |-> 0]
    <3>1. \A s \in UpTo(0) : s = {}
      BY <1>1, FS_EmptySet
    <3>2. PartialSums(f, g, UpTo(0))
      BY <3>1 DEF PartialSums, SumStep
    <3> QED
      BY <2>2, <3>2
  <2>3. CASE n # 0
    <3>1. n \in Nat /\ n - 1 \in Nat /\ n - 1 \notin bad
      <4>1. bad \in SUBSET Nat
        OBVIOUS
      <4> HIDE DEF bad
      <4> QED
        BY <2>1, <2>3, <4>1
    <3>2. PICK g : PartialSums(f, g, UpTo(n - 1))
      BY <3>1
    <3> DEFINE h == [s \in UpTo(n) |-> SumStep(f, g, s)]
    <3>3. \A s \in UpTo(n - 1) : s \in UpTo(n) /\ g[s] = SumStep(f, g, s)
      BY <1>1, <3>1, <3>2 DEF PartialSums
    <3>4. \A s \in UpTo(n - 1) : h[s] = g[s]
      BY <3>3
    <3>5. ASSUME NEW s \in UpTo(n)
          PROVE  SumStep(f, g, s) = SumStep(f, h, s)
      <4>1. CASE s = {}
        BY <4>1 DEF SumStep
      <4>2. CASE s # {}
        <5>1. First(s) \in s
          BY <4>2 DEF First
        <5>2. Cardinality(s \ {First(s)}) = Cardinality(s) - 1
          BY <1>1, <5>1, FS_RemoveElement
        <5>3. s \ {First(s)} \in UpTo(n - 1)
          BY <1>1, <3>1, <5>2
        <5> HIDE DEF UpTo, h
        <5> QED
          BY <3>4, <5>3 DEF SumStep
      <4> QED
        BY <4>1, <4>2
    <3>6. PartialSums(f, h, UpTo(n))
      BY <3>5 DEF PartialSums
    <3> QED
      BY <3>6
  <2> QED
    BY <2>2, <2>3
<1>3. Cardinality(D) \in Nat /\ UpTo(Cardinality(D)) = SUBSET D
  BY <1>1, FS_Subset, FS_CardinalityType
<1>4. \E g : PartialSums(f, g, UpTo(Cardinality(D)))
  BY <1>2, <1>3
<1> QED
  BY <1>3, <1>4

\* g[s] is the sum of f over s, for every set s of its arguments.
AddsUp(f, g, D) ==
  /\ Sum(f) = g[D]
  /\ g[{}] = 0
  /\ \A s \in SUBSET D : s # {} => g[s] = f[First(s)] + g[s \ {First(s)}]

\* A sum is the last of the partial sums.
LEMMA SumUnfolds ==
  ASSUME NEW f, NEW D, D = DOMAIN f, IsFiniteSet(D)
  PROVE  \E g : AddsUp(f, g, D)
<1> DEFINE g == CHOOSE h : PartialSums(f, h, SUBSET DOMAIN f)
<1>1. Sum(f) = g[DOMAIN f]
  BY DEF Sum, PartialSums, SumStep, First, FoldFunction, FoldFunctionOnSet, MapThenFoldSet
<1>2. PartialSums(f, g, SUBSET DOMAIN f)
  BY PartialSumsExist
<1> HIDE DEF g
<1>3. \A s \in SUBSET DOMAIN f : g[s] = SumStep(f, g, s)
  BY <1>2 DEF PartialSums
<1> QED
  BY <1>1, <1>3 DEF SumStep, AddsUp

LEMMA SumType ==
  ASSUME NEW D, IsFiniteSet(D), NEW f \in [D -> Int]
  PROVE  Sum(f) \in Int
<1>1. PICK g : AddsUp(f, g, D)
  BY SumUnfolds
<1> DEFINE good == {s \in SUBSET D : g[s] \in Int}
<1>2. \A s \in SUBSET D : s # {} /\ s \ {First(s)} \in good => s \in good
  BY <1>1 DEF First, AddsUp
<1>3. {} \in good
  BY <1>1 DEF AddsUp
<1> HIDE DEF good
<1>4. SUBSET D \subseteq good
  BY <1>2, <1>3, FirstInduction
<1> QED
  BY <1>1, <1>4 DEF good, AddsUp

\* One value changed changes the sum by as much.
LEMMA SumExcept ==
  ASSUME NEW D, IsFiniteSet(D), NEW f \in [D -> Int], NEW c \in D, NEW x \in Int
  PROVE  Sum([f EXCEPT ![c] = x]) = Sum(f) - f[c] + x
<1> DEFINE h == [f EXCEPT ![c] = x]
<1>1. PICK g : AddsUp(f, g, D)
  BY SumUnfolds
<1>2. h \in [D -> Int] /\ h[c] = x /\ \A d \in D \ {c} : h[d] = f[d]
  OBVIOUS
<1> HIDE DEF h
<1>3. PICK k : AddsUp(h, k, D)
  BY <1>2, SumUnfolds
<1> DEFINE good == {s \in SUBSET D : g[s] \in Int /\ k[s] = IF c \in s THEN g[s] - f[c] + x ELSE g[s]}
<1>4. \A s \in SUBSET D : s # {} /\ s \ {First(s)} \in good => s \in good
  <2> SUFFICES ASSUME NEW s \in SUBSET D, s # {}, s \ {First(s)} \in good
               PROVE  s \in good
    OBVIOUS
  <2>1. First(s) \in s /\ First(s) \in D
    BY DEF First
  <2>2. g[s] = f[First(s)] + g[s \ {First(s)}] /\ k[s] = h[First(s)] + k[s \ {First(s)}]
    BY <1>1, <1>3 DEF AddsUp
  <2>3. f[First(s)] \in Int /\ f[c] \in Int /\ h[First(s)] = IF First(s) = c THEN x ELSE f[First(s)]
    BY <1>2, <2>1
  <2> QED
    BY <2>1, <2>2, <2>3
<1>5. {} \in good
  BY <1>1, <1>3 DEF AddsUp
<1> HIDE DEF good
<1>6. SUBSET D \subseteq good
  BY <1>4, <1>5, FirstInduction
<1>7. D \in good
  BY <1>6
<1> QED
  BY <1>1, <1>3, <1>7 DEF good, h, AddsUp

LEMMA SumLess ==
  ASSUME NEW D, IsFiniteSet(D), NEW f \in [D -> Int], NEW c \in D
  PROVE  Sum(f) \in Int /\ Sum([f EXCEPT ![c] = f[c] - 1]) = Sum(f) - 1
<1> DEFINE x == f[c] - 1
           h == [f EXCEPT ![c] = x]
<1>1. Sum(f) \in Int /\ f[c] \in Int /\ x \in Int
  BY SumType
<1>2. Sum(h) = Sum(f) - f[c] + x
  <2> HIDE DEF x
  <2> QED
    BY <1>1, SumExcept, Zenon
<1> HIDE DEF h
<1>3. Sum(h) = Sum(f) - 1
  BY <1>1, <1>2
<1> QED
  BY <1>1, <1>3 DEF h

\* The sizes of the parts of a finite set add up to its own.
LEMMA SumOfParts ==
  ASSUME NEW P, IsFiniteSet(P), NEW D, IsFiniteSet(D), NEW o \in [P -> D], NEW f \in [D -> Int],
         \A d \in D : f[d] = Cardinality({v \in P : o[v] = d})
  PROVE  Sum(f) = Cardinality(P)
<1> DEFINE Over(s) == {v \in P : o[v] \in s}
           Part(d) == {v \in P : o[v] = d}
<1>1. PICK g : AddsUp(f, g, D)
  BY SumUnfolds
<1> DEFINE good == {s \in SUBSET D : g[s] = Cardinality(Over(s))}
<1>2. \A s \in SUBSET D : s # {} /\ s \ {First(s)} \in good => s \in good
  <2> SUFFICES ASSUME NEW s \in SUBSET D, s # {}, s \ {First(s)} \in good
               PROVE  s \in good
    OBVIOUS
  <2> DEFINE d == First(s)
             r == s \ {d}
  <2>1. d \in s /\ d \in D
    BY DEF First
  <2>2. Over(s) = Over(r) \cup Part(d) /\ Over(r) \cap Part(d) = {}
    BY <2>1
  <2>3. IsFiniteSet(Over(r)) /\ IsFiniteSet(Part(d))
    <3>1. Over(r) \in SUBSET P /\ Part(d) \in SUBSET P
      OBVIOUS
    <3> QED
      BY <3>1, FS_Subset
  <2>4. Cardinality(Over(s)) = Cardinality(Over(r)) + Cardinality(Part(d))
    <3> HIDE DEF Over, Part, r, d
    <3>1. Cardinality(Over(r) \cap Part(d)) = 0
      BY <2>2, FS_EmptySet
    <3>2. Cardinality(Over(r)) \in Nat /\ Cardinality(Part(d)) \in Nat
      BY <2>3, FS_CardinalityType
    <3>3. Cardinality(Over(r) \cup Part(d)) =
            Cardinality(Over(r)) + Cardinality(Part(d)) - Cardinality(Over(r) \cap Part(d))
      BY <2>3, FS_Union
    <3> QED
      BY <2>2, <3>1, <3>2, <3>3
  <2>5. g[s] = f[d] + g[r] /\ f[d] = Cardinality(Part(d)) /\ g[r] = Cardinality(Over(r))
    BY <1>1, <2>1 DEF AddsUp
  <2>6. Cardinality(Over(r)) \in Nat /\ Cardinality(Part(d)) \in Nat
    BY <2>3, FS_CardinalityType
  <2>7. g[s] = Cardinality(Over(s))
    <3> HIDE DEF Over, Part, r, d
    <3> QED
      BY <2>4, <2>5, <2>6
  <2> QED
    BY <2>7
<1>3. {} \in good
  <2>1. Over({}) = {}
    OBVIOUS
  <2> QED
    BY <1>1, <2>1, FS_EmptySet DEF AddsUp
<1> HIDE DEF good
<1>4. D \in good
  BY <1>2, <1>3, FirstInduction
<1>5. Over(D) = P
  OBVIOUS
<1> QED
  BY <1>1, <1>4, <1>5 DEF good, AddsUp

-----------------------------------------------------------------------------
(* Division.                                                               *)

LEMMA Division ==
  ASSUME NEW a \in Nat, NEW d \in Nat \ {0}
  PROVE  /\ a \div d \in Nat /\ a % d \in Nat
         /\ a = d * (a \div d) + (a % d) /\ a % d < d
  OBVIOUS

\* Products with one factor in common are in the order of the other.
LEMMA ProductOrder ==
  ASSUME NEW d \in Nat \ {0}, NEW p \in Int, NEW q \in Int
  PROVE  p < q <=> d * p + d <= d * q
  OBVIOUS

LEMMA DivisionMonotone ==
  ASSUME NEW a \in Nat, NEW b \in Nat, NEW d \in Nat \ {0}, a <= b
  PROVE  /\ a \div d <= b \div d
         /\ a \div d = b \div d /\ b % d = 0 => a = b
<1> DEFINE p == a \div d
           q == b \div d
<1>1. p \in Nat /\ q \in Nat /\ a % d \in Nat /\ b % d \in Nat
  BY Division
<1>2. a = d * p + (a % d) /\ b = d * q + (b % d) /\ b % d < d
  BY Division
<1>3. d * p \in Int /\ d * q \in Int
  BY <1>1
<1>4. q < p <=> d * q + d <= d * p
  BY <1>1, ProductOrder
<1> HIDE DEF p, q
<1>5. p <= q
  BY <1>1, <1>2, <1>3, <1>4
<1>6. p = q /\ b % d = 0 => a = b
  BY <1>1, <1>2, <1>3
<1> QED
  BY <1>5, <1>6 DEF p, q
=============================================================================
