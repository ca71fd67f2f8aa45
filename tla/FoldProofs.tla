------------------------------- MODULE FoldProofs -------------------------------
(***************************************************************************)
(* Facts the other proofs share: induction, the folds of the community     *)
(* modules, sums over finite sets, weights of sequences, and digits.       *)
(*                                                                         *)
(* An induction principle over a predicate has an operator as parameter,   *)
(* which the provers cannot instantiate.  It is stated of a set here (the  *)
(* numbers, or the subsets, that have the property), which is first order, *)
(* and follows from the least-number principle.  A fold is defined by a    *)
(* recursive function on sets, in an order that CHOOSE fixes: that this    *)
(* function exists is proved first, and what the fold computes from it.    *)
(***************************************************************************)
EXTENDS Integers, FiniteSets, Sequences, SequencesExt, Bytes, TLAPS,
        WellFoundedInduction, SequenceTheorems, FiniteSetTheorems

\* A non-empty set of naturals has a least element.
LEMMA LeastNatural ==
  ASSUME NEW T, T \subseteq Nat, T # {}
  PROVE  \E x \in T : \A y \in T : x <= y
<1> DEFINE R == {p \in Nat \X Nat : p[1] < p[2]}
<1>1. IsWellFoundedOn(R, Nat)
  BY NatLessThanWellFounded, Zenon DEF OpToRel
<1>2. PICK x \in T : \A y \in T : ~(<<y, x>> \in R)
  <2> HIDE DEF R
  <2> QED BY <1>1, WFMin
<1>3. ASSUME NEW y \in T PROVE x <= y
  <2>1. ~(<<y, x>> \in R)
    BY <1>2
  <2> QED BY <2>1
<1> QED BY <1>3

\* Induction up to n, as a statement about the set of naturals that have the
\* property.
LEMMA SetInduction ==
  ASSUME NEW n \in Nat, NEW T, 0 \in T, \A i \in 1 .. n : i - 1 \in T => i \in T
  PROVE  0 .. n \subseteq T
<1> SUFFICES ASSUME NEW m \in 0 .. n, m \notin T PROVE FALSE
  OBVIOUS
<1> DEFINE U == {i \in 0 .. n : i \notin T}
<1>1. U \subseteq Nat /\ U # {}
  OBVIOUS
<1>2. PICK x \in U : \A y \in U : x <= y
  BY <1>1, LeastNatural
<1>3. x # 0 /\ x - 1 \in 0 .. n
  OBVIOUS
<1>4. x - 1 \in T
  BY <1>2, <1>3
<1> QED BY <1>3, <1>4

\* Induction, as a statement about the set of naturals that have the property.
LEMMA NatSetInduction ==
  ASSUME NEW T, 0 \in T, \A n \in Nat : n \in T => n + 1 \in T
  PROVE  Nat \subseteq T
<1> SUFFICES ASSUME NEW m \in Nat, m \notin T PROVE FALSE
  OBVIOUS
<1> DEFINE U == {n \in Nat : n \notin T}
<1>1. U \subseteq Nat /\ U # {}
  OBVIOUS
<1>2. PICK x \in U : \A y \in U : x <= y
  BY <1>1, LeastNatural
<1>3. x # 0 /\ x - 1 \in Nat
  OBVIOUS
<1>4. x - 1 \in T
  BY <1>2, <1>3
<1>5. (x - 1) + 1 = x
  OBVIOUS
<1> QED BY <1>3, <1>4, <1>5

-----------------------------------------------------------------------------
(***************************************************************************)
(* FoldLeft of an operation on V that is closed under it: the function in  *)
(* its definition exists, so that the fold is the last of its prefixes.    *)
(***************************************************************************)
LEMMA MaxIs ==
  ASSUME NEW n \in Int, NEW s, n \in s, \A i \in s : i \in Int /\ i <= n
  PROVE  Max(s) = n
<1>1. \E x \in s : \A y \in s : x >= y
  OBVIOUS
<1>2. Max(s) \in s /\ \A y \in s : Max(s) >= y
  BY <1>1, Zenon DEF Max
<1> DEFINE x == Max(s)
<1>3. x \in Int /\ x <= n /\ x >= n
  BY <1>2
<1> HIDE DEF x
<1>4. x = n
  BY <1>3
<1> QED BY <1>4 DEF x

\* The largest index of a set of positions is one of them.
LEMMA MaxInside ==
  ASSUME NEW n \in Nat, NEW s \in SUBSET (1 .. n), s # {}
  PROVE  Max(s) \in s
<1> DEFINE T == {i \in Nat : \A j \in s : i >= j}
<1>1. T \subseteq Nat /\ n \in T
  OBVIOUS
<1>2. PICK x \in T : \A y \in T : x <= y
  BY <1>1, LeastNatural
<1>3. x \in s
  <2> SUFFICES ASSUME x \notin s PROVE FALSE
    OBVIOUS
  <2>1. \A j \in s : j \in 1 .. n /\ x >= j /\ x # j
    BY <1>2
  <2>2. x # 0
    <3>1. PICK j \in s : TRUE
      OBVIOUS
    <3> QED BY <2>1, <3>1
  <2>3. x - 1 \in T
    BY <2>1, <2>2
  <2> QED BY <1>2, <2>3
<1>4. \E y \in s : \A z \in s : y >= z
  BY <1>2, <1>3
<1> QED BY <1>4, Zenon DEF Max

IsIter(g, F, base, e, n) ==
    /\ g = [s \in SUBSET (1 .. n) |-> g[s]]
    /\ \A s \in SUBSET (1 .. n) :
         g[s] = IF s = {} THEN base ELSE F[<<g[s \ {Max(s)}], e[Max(s)]>>]

LEMMA IterExists ==
  ASSUME NEW V, NEW E, NEW F \in [V \X E -> V], NEW base \in V,
         NEW n \in Nat, NEW e \in [1 .. n -> E]
  PROVE  \E g \in [SUBSET (1 .. n) -> V] : IsIter(g, F, base, e, n)
<1> DEFINE T == {m \in 0 .. n : \E g \in [SUBSET (1 .. m) -> V] : IsIter(g, F, base, e, m)}
<1>1. 0 \in T
  <2> DEFINE g == [s \in SUBSET (1 .. 0) |-> base]
  <2>1. \A s \in SUBSET (1 .. 0) : s = {}
    OBVIOUS
  <2>2. g \in [SUBSET (1 .. 0) -> V] /\ IsIter(g, F, base, e, 0)
    BY <2>1 DEF IsIter
  <2> QED BY <2>2
<1>2. ASSUME NEW m \in 1 .. n, m - 1 \in T PROVE m \in T
  <2> DEFINE P == SUBSET (1 .. m - 1)
             Q == SUBSET (1 .. m)
  <2>1. PICK g \in [P -> V] : IsIter(g, F, base, e, m - 1)
    BY <1>2
  <2>2. \A s \in P : g[s] = IF s = {} THEN base ELSE F[<<g[s \ {Max(s)}], e[Max(s)]>>]
    BY <2>1 DEF IsIter
  <2> DEFINE h == [s \in Q |-> IF m \in s THEN F[<<g[s \ {m}], e[m]>>] ELSE g[s]]
  <2>3. ASSUME NEW s \in Q PROVE s \ {m} \in P /\ (m \notin s => s \in P)
    <3>1. \A i \in 1 .. m : i # m => i \in 1 .. m - 1
      OBVIOUS
    <3> QED BY <3>1
  <2>4. h \in [Q -> V]
    <3>1. e[m] \in E
      OBVIOUS
    <3>2. ASSUME NEW s \in Q PROVE h[s] \in V
      BY <2>3, <3>1
    <3> QED BY <3>2
  <2>5. \A s \in P : s \in Q /\ h[s] = g[s]
    OBVIOUS
  <2>6. ASSUME NEW s \in Q
        PROVE  h[s] = IF s = {} THEN base ELSE F[<<h[s \ {Max(s)}], e[Max(s)]>>]
    <3>1. CASE m \in s
      <4>1. Max(s) = m
        <5>1. m \in Int /\ \A i \in s : i \in Int /\ i <= m
          OBVIOUS
        <5> QED BY <3>1, <5>1, MaxIs
      <4>2. h[s \ {m}] = g[s \ {m}]
        BY <2>3, <2>5
      <4>3. h[s] = F[<<g[s \ {m}], e[m]>>]
        BY <3>1
      <4> HIDE DEF h
      <4> QED BY <3>1, <4>1, <4>2, <4>3
    <3>2. CASE m \notin s
      <4>1. s \in P /\ s \ {Max(s)} \in P
        BY <2>3, <3>2
      <4>2. h[s] = g[s] /\ h[s \ {Max(s)}] = g[s \ {Max(s)}]
        BY <2>5, <4>1
      <4> HIDE DEF h, P
      <4> QED BY <2>2, <4>1, <4>2
    <3> QED BY <3>1, <3>2
  <2>7. h = [s \in Q |-> h[s]]
    OBVIOUS
  <2> HIDE DEF h
  <2>8. IsIter(h, F, base, e, m)
    BY <2>6, <2>7 DEF IsIter
  <2> QED BY <2>4, <2>8
<1> HIDE DEF T
<1>3. 0 .. n \subseteq T
  BY <1>1, <1>2, SetInduction
<1>4. n \in T
  BY <1>3
<1> QED BY <1>4 DEF T

\* The prefixes of the positions 1 .. n.
LEMMA PrefixSets ==
  ASSUME NEW n \in Nat
  PROVE  /\ 1 .. 0 = {}
         /\ \A i \in 1 .. n : /\ 1 .. i \in SUBSET (1 .. n) /\ 1 .. i # {}
                              /\ Max(1 .. i) = i /\ (1 .. i) \ {i} = 1 .. i - 1
<1> SUFFICES ASSUME NEW i \in 1 .. n
             PROVE  /\ 1 .. i \in SUBSET (1 .. n) /\ 1 .. i # {}
                    /\ Max(1 .. i) = i /\ (1 .. i) \ {i} = 1 .. i - 1
  OBVIOUS
<1>1. i \in Int /\ i \in 1 .. i /\ \A j \in 1 .. i : j \in Int /\ j <= i
  OBVIOUS
<1>2. Max(1 .. i) = i
  BY <1>1, MaxIs
<1> QED BY <1>1, <1>2

\* The same without saying what happens outside V, and its prefixes.
FoldsIn(iter, V, F, base, e, n) ==
    /\ iter[{}] = base
    /\ \A s \in SUBSET (1 .. n) : s # {} /\ iter[s \ {Max(s)}] \in V
          => iter[s] = F[<<iter[s \ {Max(s)}], e[Max(s)]>>]
Prefixed(h, iter, V, F, base, e, n) ==
    /\ h \in [0 .. n -> V] /\ h[0] = base
    /\ \A i \in 1 .. n : h[i] = F[<<h[i - 1], e[i]>>]
    /\ h[n] = iter[1 .. n]

LEMMA FoldPrefixes ==
  ASSUME NEW V, NEW E, NEW F \in [V \X E -> V], NEW base \in V,
         NEW n \in Nat, NEW e \in [1 .. n -> E],
         NEW iter, FoldsIn(iter, V, F, base, e, n)
  PROVE  \E h : Prefixed(h, iter, V, F, base, e, n)
<1> DEFINE h == [i \in 0 .. n |-> iter[1 .. i]]
           T == {i \in 0 .. n : iter[1 .. i] \in V}
<1>1. iter[1 .. 0] = base
  BY PrefixSets DEF FoldsIn
<1>2. ASSUME NEW i \in 1 .. n, iter[1 .. i - 1] \in V
      PROVE  /\ iter[1 .. i] = F[<<iter[1 .. i - 1], e[i]>>]
             /\ iter[1 .. i] \in V
  <2>1. /\ 1 .. i \in SUBSET (1 .. n) /\ 1 .. i # {}
        /\ Max(1 .. i) = i /\ (1 .. i) \ {i} = 1 .. i - 1
    BY PrefixSets
  <2>2. iter[1 .. i] = F[<<iter[1 .. i - 1], e[i]>>]
    BY <1>2, <2>1 DEF FoldsIn
  <2> QED BY <1>2, <2>2
<1>3. 0 \in T
  BY <1>1
<1>4. ASSUME NEW i \in 1 .. n, i - 1 \in T PROVE i \in T
  <2>1. iter[1 .. i - 1] \in V
    BY <1>4
  <2>2. iter[1 .. i] \in V
    BY <1>2, <2>1
  <2> QED BY <2>2
<1> HIDE DEF T
<1>5. 0 .. n \subseteq T
  BY <1>3, <1>4, SetInduction
<1>6. \A i \in 0 .. n : iter[1 .. i] \in V
  BY <1>5 DEF T
<1>7. h[0] = iter[1 .. 0] /\ h[n] = iter[1 .. n]
  OBVIOUS
<1>8. \A i \in 1 .. n : /\ h[i] = iter[1 .. i] /\ h[i - 1] = iter[1 .. i - 1]
                        /\ i - 1 \in 0 .. n
  OBVIOUS
<1>9. h \in [0 .. n -> V]
  BY <1>6
<1> HIDE DEF h
<1>10. \A i \in 1 .. n : h[i] = F[<<h[i - 1], e[i]>>]
  BY <1>2, <1>6, <1>8
<1> QED BY <1>1, <1>7, <1>9, <1>10 DEF Prefixed

-----------------------------------------------------------------------------
(***************************************************************************)
(* Sums over finite sets.  SumFunctionOnSet(f, S) takes the elements of S  *)
(* in an order of CHOOSE's; the sum does not depend on it.                 *)
(***************************************************************************)

\* Induction on the subsets of a finite set, in set form.
LEMMA SubsetInduction ==
  ASSUME NEW U, IsFiniteSet(U), NEW T,
         \A S \in SUBSET U : (\A x \in S : S \ {x} \in T) => S \in T
  PROVE  SUBSET U \subseteq T
<1> DEFINE n == Cardinality(U)
           R == {i \in 0 .. n : \A S \in SUBSET U : Cardinality(S) = i => S \in T}
<1>1. n \in Nat
  BY FS_CardinalityType
<1>2. ASSUME NEW S \in SUBSET U
      PROVE  /\ IsFiniteSet(S) /\ Cardinality(S) \in 0 .. n
             /\ Cardinality(S) = 0 => S = {}
             /\ \A x \in S : /\ S \ {x} \in SUBSET U
                             /\ Cardinality(S \ {x}) = Cardinality(S) - 1
  BY FS_Subset, FS_CardinalityType, FS_EmptySet, FS_RemoveElement
<1>3. 0 \in R
  <2>1. ASSUME NEW S \in SUBSET U, Cardinality(S) = 0 PROVE S \in T
    BY <1>2, <2>1
  <2> QED BY <1>1, <2>1
<1>4. ASSUME NEW i \in 1 .. n, i - 1 \in R PROVE i \in R
  <2>1. ASSUME NEW S \in SUBSET U, Cardinality(S) = i PROVE S \in T
    <3>1. ASSUME NEW x \in S PROVE S \ {x} \in T
      BY <1>2, <1>4, <2>1
    <3> QED BY <3>1
  <2> QED BY <1>1, <2>1
<1> HIDE DEF R
<1>5. 0 .. n \subseteq R
  BY <1>1, <1>3, <1>4, SetInduction
<1>6. ASSUME NEW S \in SUBSET U PROVE S \in T
  <2>1. Cardinality(S) \in R
    BY <1>2, <1>5
  <2> QED BY <2>1 DEF R
<1> QED BY <1>6

Chosen(s) == CHOOSE x \in s : TRUE

LEMMA ChosenIn == ASSUME NEW s, s # {} PROVE Chosen(s) \in s
  BY Zenon DEF Chosen

IsSumIter(g, f, U) ==
    g = [s \in SUBSET U |-> IF s = {} THEN 0 ELSE f[Chosen(s)] + g[s \ {Chosen(s)}]]

LEMMA SumIterExists ==
  ASSUME NEW f, NEW U, IsFiniteSet(U)
  PROVE  \E g : IsSumIter(g, f, U)
<1> DEFINE n == Cardinality(U)
           Small(g, i) == \A s \in SUBSET U : Cardinality(s) <= i =>
                            g[s] = IF s = {} THEN 0 ELSE f[Chosen(s)] + g[s \ {Chosen(s)}]
           R == {i \in 0 .. n : \E g : Small(g, i)}
<1>1. n \in Nat
  BY FS_CardinalityType
<1>2. ASSUME NEW S \in SUBSET U
      PROVE  /\ Cardinality(S) \in 0 .. n
             /\ Cardinality(S) = 0 => S = {}
             /\ S # {} => /\ Chosen(S) \in S /\ S \ {Chosen(S)} \in SUBSET U
                          /\ Cardinality(S \ {Chosen(S)}) = Cardinality(S) - 1
  <2>1. IsFiniteSet(S) /\ Cardinality(S) <= n
    BY FS_Subset
  <2>2. Cardinality(S) \in Nat /\ (Cardinality(S) = 0 => S = {})
    BY <2>1, FS_CardinalityType, FS_EmptySet
  <2>3. S # {} => Chosen(S) \in S
    BY ChosenIn
  <2>4. S # {} => Cardinality(S \ {Chosen(S)}) = Cardinality(S) - 1
    BY <2>1, <2>3, FS_RemoveElement
  <2> QED BY <1>1, <2>1, <2>2, <2>3, <2>4
<1>3. 0 \in R
  <2> DEFINE g == [s \in SUBSET U |-> 0]
  <2>1. Small(g, 0)
    <3>1. ASSUME NEW s \in SUBSET U, Cardinality(s) <= 0 PROVE s = {}
      <4>1. Cardinality(s) \in 0 .. n
        BY <1>2
      <4>2. Cardinality(s) = 0
        BY <1>1, <3>1, <4>1
      <4> QED BY <1>2, <4>2
    <3> QED BY <3>1
  <2>2. 0 \in 0 .. n
    BY <1>1
  <2> HIDE DEF g
  <2> QED BY <2>1, <2>2
<1>4. ASSUME NEW i \in 1 .. n, i - 1 \in R PROVE i \in R
  <2>1. PICK g : Small(g, i - 1)
    BY <1>4
  <2> DEFINE h == [s \in SUBSET U |-> IF Cardinality(s) <= i - 1 THEN g[s]
                                      ELSE f[Chosen(s)] + g[s \ {Chosen(s)}]]
  <2>2. ASSUME NEW s \in SUBSET U, Cardinality(s) <= i
        PROVE  h[s] = IF s = {} THEN 0 ELSE f[Chosen(s)] + h[s \ {Chosen(s)}]
    <3>1. CASE s = {}
      <4>1. Cardinality(s) = 0
        BY <3>1, FS_EmptySet
      <4> QED BY <1>1, <2>1, <3>1, <4>1
    <3>2. CASE s # {}
      <4>1. s \ {Chosen(s)} \in SUBSET U /\ Cardinality(s \ {Chosen(s)}) <= i - 1
        BY <1>1, <1>2, <2>2, <3>2
      <4>2. h[s \ {Chosen(s)}] = g[s \ {Chosen(s)}]
        BY <4>1
      <4>3. h[s] = f[Chosen(s)] + g[s \ {Chosen(s)}]
        BY <2>1, <3>2
      <4> QED BY <3>2, <4>2, <4>3
    <3> QED BY <3>1, <3>2
  <2> HIDE DEF h
  <2>3. Small(h, i)
    BY <2>2
  <2>4. i \in 0 .. n
    OBVIOUS
  <2> QED BY <2>3, <2>4
<1> HIDE DEF R
<1>5. 0 .. n \subseteq R
  BY <1>1, <1>3, <1>4, SetInduction
<1>6. n \in R
  BY <1>1, <1>5
<1>7. PICK g : Small(g, n)
  BY <1>6 DEF R
<1> DEFINE h == [s \in SUBSET U |-> g[s]]
<1>8. ASSUME NEW s \in SUBSET U
      PROVE  h[s] = IF s = {} THEN 0 ELSE f[Chosen(s)] + h[s \ {Chosen(s)}]
  <2>1. Cardinality(s) \in 0 .. n
    BY <1>2
  <2>2. Cardinality(s) <= n
    BY <1>1, <2>1
  <2> QED BY <1>2, <1>7, <2>2
<1>9. h = [s \in SUBSET U |-> IF s = {} THEN 0 ELSE f[Chosen(s)] + h[s \ {Chosen(s)}]]
  <2>1. h = [s \in SUBSET U |-> h[s]]
    OBVIOUS
  <2> HIDE DEF h
  <2> QED BY <1>8, <2>1
<1> QED BY <1>9 DEF IsSumIter

LEMMA SumIsIter ==
  ASSUME NEW f, NEW U, IsFiniteSet(U)
  PROVE  \E g : IsSumIter(g, f, U) /\ SumFunctionOnSet(f, U) = g[U]
<1> DEFINE iter == CHOOSE g : g = [s \in SUBSET U |-> IF s = {} THEN 0
                            ELSE f[CHOOSE x \in s : TRUE] + g[s \ {CHOOSE x \in s : TRUE}]]
<1>1. iter = CHOOSE g : IsSumIter(g, f, U)
  BY DEF IsSumIter, Chosen
<1>2. SumFunctionOnSet(f, U) = iter[U]
  BY DEF SumFunctionOnSet, FoldFunctionOnSet, MapThenFoldSet
<1>3. IsSumIter(CHOOSE g : IsSumIter(g, f, U), f, U)
  BY SumIterExists, Zenon
<1> HIDE DEF iter
<1> QED BY <1>1, <1>2, <1>3
\* The defining equations of the sum.
LEMMA SumChosen ==
  ASSUME NEW f, NEW S, IsFiniteSet(S)
  PROVE  /\ SumFunctionOnSet(f, {}) = 0
         /\ S # {} => SumFunctionOnSet(f, S) =
                        f[Chosen(S)] + SumFunctionOnSet(f, S \ {Chosen(S)})
<1>1. ASSUME NEW U, IsFiniteSet(U), NEW g, IsSumIter(g, f, U), NEW s \in SUBSET U
      PROVE  g[s] = IF s = {} THEN 0 ELSE f[Chosen(s)] + g[s \ {Chosen(s)}]
  BY <1>1 DEF IsSumIter
<1>2. SumFunctionOnSet(f, {}) = 0
  <2>1. PICK g : IsSumIter(g, f, {}) /\ SumFunctionOnSet(f, {}) = g[{}]
    BY SumIsIter, FS_EmptySet
  <2> QED BY <1>1, <2>1, FS_EmptySet
<1>3. ASSUME S # {}
      PROVE  SumFunctionOnSet(f, S) = f[Chosen(S)] + SumFunctionOnSet(f, S \ {Chosen(S)})
  <2> DEFINE R == S \ {Chosen(S)}
  <2>1. IsFiniteSet(R) /\ R \subseteq S
    BY FS_RemoveElement
  <2>2. PICK g : IsSumIter(g, f, S) /\ SumFunctionOnSet(f, S) = g[S]
    BY SumIsIter
  <2>3. PICK h : IsSumIter(h, f, R) /\ SumFunctionOnSet(f, R) = h[R]
    BY <2>1, SumIsIter
  <2> DEFINE T == {s \in SUBSET R : g[s] = h[s]}
  <2>4. ASSUME NEW s \in SUBSET R, \A x \in s : s \ {x} \in T PROVE s \in T
    <3>1. g[s] = IF s = {} THEN 0 ELSE f[Chosen(s)] + g[s \ {Chosen(s)}]
      BY <1>1, <2>1, <2>2
    <3>2. h[s] = IF s = {} THEN 0 ELSE f[Chosen(s)] + h[s \ {Chosen(s)}]
      BY <1>1, <2>1, <2>3
    <3>3. s # {} => g[s \ {Chosen(s)}] = h[s \ {Chosen(s)}]
      BY <2>4, ChosenIn
    <3> HIDE DEF R
    <3>4. g[s] = h[s]
      BY <3>1, <3>2, <3>3
    <3> QED BY <3>4
  <2>5. SUBSET R \subseteq T
    <3> HIDE DEF T, R
    <3> QED BY <2>1, <2>4, SubsetInduction
  <2>6. g[R] = h[R]
    <3> HIDE DEF R
    <3> QED BY <2>5
  <2>7. g[S] = f[Chosen(S)] + g[R]
    BY <1>1, <1>3, <2>2
  <2> QED BY <2>2, <2>3, <2>6, <2>7
<1> QED BY <1>2, <1>3

\* A sum of integers is one, and any element may be taken out first.
LEMMA SumType ==
  ASSUME NEW f, NEW S, IsFiniteSet(S), \A x \in S : f[x] \in Int
  PROVE  SumFunctionOnSet(f, S) \in Int
<1> DEFINE T == {s \in SUBSET S : SumFunctionOnSet(f, s) \in Int}
<1>1. ASSUME NEW s \in SUBSET S, \A x \in s : s \ {x} \in T PROVE s \in T
  <2>1. IsFiniteSet(s)
    BY FS_Subset
  <2>2. CASE s = {}
    <3>1. SumFunctionOnSet(f, s) = 0
      BY <2>2, SumChosen, FS_EmptySet
    <3> QED BY <3>1
  <2>3. CASE s # {}
    <3>1. Chosen(s) \in s
      BY <2>3, ChosenIn
    <3>2. SumFunctionOnSet(f, s) = f[Chosen(s)] + SumFunctionOnSet(f, s \ {Chosen(s)})
      BY <2>1, <2>3, SumChosen
    <3> QED BY <1>1, <3>1, <3>2
  <2> QED BY <2>2, <2>3
<1> HIDE DEF T
<1>2. SUBSET S \subseteq T
  BY <1>1, SubsetInduction
<1> QED BY <1>2 DEF T

LEMMA SumRemove ==
  ASSUME NEW f, NEW S, IsFiniteSet(S), \A x \in S : f[x] \in Int, NEW x \in S
  PROVE  SumFunctionOnSet(f, S) = f[x] + SumFunctionOnSet(f, S \ {x})
<1> DEFINE Sum(s) == SumFunctionOnSet(f, s)
           T == {s \in SUBSET S : \A y \in s : Sum(s) = f[y] + Sum(s \ {y})}
<1>1. ASSUME NEW s \in SUBSET S PROVE Sum(s) \in Int
  BY SumType, FS_Subset
<1>2. ASSUME NEW s \in SUBSET S, \A y \in s : s \ {y} \in T,
             NEW y \in s
      PROVE  Sum(s) = f[y] + Sum(s \ {y})
  <2> DEFINE c == Chosen(s)
  <2>1. c \in s
    BY ChosenIn
  <2>2. Sum(s) = f[c] + Sum(s \ {c})
    BY SumChosen, FS_Subset
  <2> HIDE DEF c
  <2>3. CASE y = c
    BY <2>2, <2>3
  <2>4. CASE y # c
    <3>1. y \in s \ {c} /\ c \in s \ {y} /\ (s \ {y}) \ {c} = (s \ {c}) \ {y}
      BY <2>1, <2>4
    <3>2. Sum(s \ {c}) = f[y] + Sum((s \ {c}) \ {y})
      BY <1>2, <2>1, <3>1
    <3>3. Sum(s \ {y}) = f[c] + Sum((s \ {c}) \ {y})
      <4>1. s \ {y} \in T
        BY <1>2
      <4>2. Sum(s \ {y}) = f[c] + Sum((s \ {y}) \ {c})
        BY <3>1, <4>1
      <4> QED BY <3>1, <4>2
    <3>4. Sum((s \ {c}) \ {y}) \in Int /\ f[y] \in Int /\ f[c] \in Int
      BY <1>1, <2>1
    <3> HIDE DEF Sum, T
    <3> QED BY <2>2, <3>2, <3>3, <3>4
  <2> QED BY <2>3, <2>4
<1> HIDE DEF Sum
<1>3. ASSUME NEW s \in SUBSET S, \A y \in s : s \ {y} \in T PROVE s \in T
  BY <1>2, <1>3
<1> HIDE DEF T
<1>4. SUBSET S \subseteq T
  BY <1>3, SubsetInduction
<1>5. S \in T
  BY <1>4
<1> QED BY <1>5 DEF T, Sum

-----------------------------------------------------------------------------
\* Consequences: what a sum is made of.
LEMMA SumEmpty ==
  ASSUME NEW f
  PROVE  SumFunctionOnSet(f, {}) = 0
  BY SumChosen, FS_EmptySet

LEMMA SumAddElement ==
  ASSUME NEW f, NEW S, IsFiniteSet(S), NEW x, x \notin S,
         f[x] \in Int, \A y \in S : f[y] \in Int
  PROVE  SumFunctionOnSet(f, S \cup {x}) = f[x] + SumFunctionOnSet(f, S)
<1>1. IsFiniteSet(S \cup {x}) /\ x \in S \cup {x} /\ (S \cup {x}) \ {x} = S
  BY FS_AddElement
<1>2. \A y \in S \cup {x} : f[y] \in Int
  OBVIOUS
<1> QED BY <1>1, <1>2, SumRemove

\* It depends on the values in the set only, ...
LEMMA SumCongruence ==
  ASSUME NEW f, NEW g, NEW S, IsFiniteSet(S), \A x \in S : f[x] = g[x] /\ f[x] \in Int
  PROVE  SumFunctionOnSet(f, S) = SumFunctionOnSet(g, S)
<1> DEFINE T == {s \in SUBSET S : SumFunctionOnSet(f, s) = SumFunctionOnSet(g, s)}
<1>1. ASSUME NEW s \in SUBSET S, \A x \in s : s \ {x} \in T PROVE s \in T
  <2>1. IsFiniteSet(s)
    BY FS_Subset
  <2>2. CASE s = {}
    BY <2>2, SumEmpty
  <2>3. CASE s # {}
    <3>1. PICK x \in s : TRUE
      BY <2>3
    <3>2. SumFunctionOnSet(f, s) = f[x] + SumFunctionOnSet(f, s \ {x})
      BY <2>1, SumRemove
    <3>3. SumFunctionOnSet(g, s) = g[x] + SumFunctionOnSet(g, s \ {x})
      BY <2>1, SumRemove
    <3> QED BY <1>1, <3>2, <3>3
  <2> QED BY <2>2, <2>3
<1> HIDE DEF T
<1>2. SUBSET S \subseteq T
  BY <1>1, SubsetInduction
<1> QED BY <1>2 DEF T

\* ... is additive in the function, ...
LEMMA SumPointwise ==
  ASSUME NEW S, IsFiniteSet(S), NEW f, NEW g, NEW h,
         \A x \in S : f[x] \in Int /\ g[x] \in Int /\ h[x] = f[x] + g[x]
  PROVE  SumFunctionOnSet(h, S) = SumFunctionOnSet(f, S) + SumFunctionOnSet(g, S)
<1> DEFINE T == {s \in SUBSET S :
        SumFunctionOnSet(h, s) = SumFunctionOnSet(f, s) + SumFunctionOnSet(g, s)}
<1>1. ASSUME NEW s \in SUBSET S, \A x \in s : s \ {x} \in T PROVE s \in T
  <2>1. IsFiniteSet(s)
    BY FS_Subset
  <2>2. CASE s = {}
    <3>1. /\ SumFunctionOnSet(f, s) = 0 /\ SumFunctionOnSet(g, s) = 0
          /\ SumFunctionOnSet(h, s) = 0
      BY <2>2, SumEmpty
    <3> QED BY <3>1
  <2>3. CASE s # {}
    <3>1. PICK x \in s : TRUE
      BY <2>3
    <3>2. SumFunctionOnSet(f, s) = f[x] + SumFunctionOnSet(f, s \ {x})
      BY <2>1, SumRemove
    <3>3. SumFunctionOnSet(g, s) = g[x] + SumFunctionOnSet(g, s \ {x})
      BY <2>1, SumRemove
    <3>4. SumFunctionOnSet(h, s) = h[x] + SumFunctionOnSet(h, s \ {x})
      BY <2>1, SumRemove
    <3>5. /\ SumFunctionOnSet(f, s \ {x}) \in Int
          /\ SumFunctionOnSet(g, s \ {x}) \in Int
          /\ f[x] \in Int /\ g[x] \in Int /\ h[x] = f[x] + g[x]
      BY <2>1, FS_RemoveElement, SumType
    <3>6. s \ {x} \in T
      BY <1>1
    <3>7. SumFunctionOnSet(h, s \ {x}) =
            SumFunctionOnSet(f, s \ {x}) + SumFunctionOnSet(g, s \ {x})
      BY <3>6
    <3>8. SumFunctionOnSet(h, s) = SumFunctionOnSet(f, s) + SumFunctionOnSet(g, s)
      BY <3>2, <3>3, <3>4, <3>5, <3>7
    <3> QED BY <3>8
  <2> QED BY <2>2, <2>3
<1> HIDE DEF T
<1>2. SUBSET S \subseteq T
  BY <1>1, SubsetInduction
<1> QED BY <1>2 DEF T

\* ... not negative when no value is, ...
LEMMA SumNonNegative ==
  ASSUME NEW f, NEW S, IsFiniteSet(S), \A x \in S : f[x] \in Nat
  PROVE  SumFunctionOnSet(f, S) \in Nat
<1> DEFINE T == {s \in SUBSET S : SumFunctionOnSet(f, s) \in Nat}
<1>1. ASSUME NEW s \in SUBSET S, \A x \in s : s \ {x} \in T PROVE s \in T
  <2>1. IsFiniteSet(s)
    BY FS_Subset
  <2>2. CASE s = {}
    BY <2>2, SumEmpty
  <2>3. CASE s # {}
    <3>1. PICK x \in s : TRUE
      BY <2>3
    <3>2. SumFunctionOnSet(f, s) = f[x] + SumFunctionOnSet(f, s \ {x})
      BY <2>1, SumRemove
    <3> QED BY <1>1, <3>2
  <2> QED BY <2>2, <2>3
<1> HIDE DEF T
<1>2. SUBSET S \subseteq T
  BY <1>1, SubsetInduction
<1> QED BY <1>2 DEF T

\* ... and adds over disjoint sets.
LEMMA SumDisjointUnion ==
  ASSUME NEW A, IsFiniteSet(A), NEW B, IsFiniteSet(B), A \cap B = {},
         NEW f, \A x \in A \cup B : f[x] \in Int
  PROVE  SumFunctionOnSet(f, A \cup B) = SumFunctionOnSet(f, A) + SumFunctionOnSet(f, B)
<1> DEFINE T == {s \in SUBSET B :
        SumFunctionOnSet(f, A \cup s) = SumFunctionOnSet(f, A) + SumFunctionOnSet(f, s)}
<1>0. SumFunctionOnSet(f, A) \in Int
  BY SumType
<1>1. ASSUME NEW s \in SUBSET B, \A x \in s : s \ {x} \in T PROVE s \in T
  <2>1. IsFiniteSet(s) /\ IsFiniteSet(A \cup s)
    BY FS_Subset, FS_Union
  <2>2. CASE s = {}
    <3>1. SumFunctionOnSet(f, s) = 0 /\ A \cup s = A
      BY <2>2, SumEmpty
    <3>2. SumFunctionOnSet(f, A \cup s) = SumFunctionOnSet(f, A) + SumFunctionOnSet(f, s)
      BY <1>0, <3>1
    <3> QED BY <3>2
  <2>3. CASE s # {}
    <3>1. PICK x \in s : TRUE
      BY <2>3
    <3>2. SumFunctionOnSet(f, s) = f[x] + SumFunctionOnSet(f, s \ {x})
      BY <2>1, SumRemove
    <3>3. x \in A \cup s /\ (A \cup s) \ {x} = A \cup (s \ {x})
      OBVIOUS
    <3>4. SumFunctionOnSet(f, A \cup s) = f[x] + SumFunctionOnSet(f, A \cup (s \ {x}))
      BY <2>1, <3>3, SumRemove
    <3>5. f[x] \in Int /\ SumFunctionOnSet(f, s \ {x}) \in Int
      BY <2>1, FS_RemoveElement, SumType
    <3>6. s \ {x} \in T
      BY <1>1
    <3>7. SumFunctionOnSet(f, A \cup (s \ {x})) =
            SumFunctionOnSet(f, A) + SumFunctionOnSet(f, s \ {x})
      BY <3>6
    <3>8. SumFunctionOnSet(f, A \cup s) = SumFunctionOnSet(f, A) + SumFunctionOnSet(f, s)
      BY <1>0, <3>2, <3>4, <3>5, <3>7
    <3> QED BY <3>8
  <2> QED BY <2>2, <2>3
<1> HIDE DEF T
<1>2. SUBSET B \subseteq T
  BY <1>1, SubsetInduction
<1>3. B \in T
  BY <1>2
<1> QED BY <1>3 DEF T

\* Elements that weigh nothing may be left out.
LEMMA SumOfPart ==
  ASSUME NEW S, IsFiniteSet(S), NEW R \in SUBSET S, NEW f, NEW g,
         \A x \in S : f[x] \in Int /\ g[x] = IF x \in R THEN f[x] ELSE 0
  PROVE  SumFunctionOnSet(g, S) = SumFunctionOnSet(f, R)
<1> DEFINE T == {s \in SUBSET S : SumFunctionOnSet(g, s) = SumFunctionOnSet(f, s \cap R)}
<1>1. ASSUME NEW s \in SUBSET S, \A x \in s : s \ {x} \in T PROVE s \in T
  <2>1. IsFiniteSet(s) /\ IsFiniteSet(s \cap R)
    BY FS_Subset
  <2>2. CASE s = {}
    <3>1. s \cap R = {}
      BY <2>2
    <3>2. SumFunctionOnSet(g, s) = 0 /\ SumFunctionOnSet(f, s \cap R) = 0
      BY <2>2, <3>1, SumEmpty
    <3> QED BY <3>2
  <2>3. CASE s # {}
    <3>1. PICK x \in s : TRUE
      BY <2>3
    <3>2. SumFunctionOnSet(g, s) = g[x] + SumFunctionOnSet(g, s \ {x})
      BY <2>1, SumRemove
    <3>3. SumFunctionOnSet(g, s \ {x}) = SumFunctionOnSet(f, (s \ {x}) \cap R)
      BY <1>1
    <3>4. SumFunctionOnSet(f, (s \ {x}) \cap R) \in Int
      BY <2>1, FS_Subset, SumType
    <3>5. CASE x \in R
      <4>1. (s \ {x}) \cap R = (s \cap R) \ {x} /\ x \in s \cap R
        BY <3>5
      <4>2. SumFunctionOnSet(f, s \cap R) = f[x] + SumFunctionOnSet(f, (s \cap R) \ {x})
        BY <2>1, <4>1, SumRemove
      <4>3. SumFunctionOnSet(g, s) = SumFunctionOnSet(f, s \cap R)
        BY <3>2, <3>3, <3>5, <4>1, <4>2
      <4> QED BY <4>3
    <3>6. CASE x \notin R
      <4>1. (s \ {x}) \cap R = s \cap R
        BY <3>6
      <4>2. g[x] = 0
        BY <3>6
      <4>3. SumFunctionOnSet(g, s) = SumFunctionOnSet(g, s \ {x})
        BY <3>2, <3>3, <3>4, <4>2
      <4>4. SumFunctionOnSet(g, s) = SumFunctionOnSet(f, s \cap R)
        BY <3>3, <4>1, <4>3
      <4> QED BY <4>4
    <3> QED BY <3>5, <3>6
  <2> QED BY <2>2, <2>3
<1> HIDE DEF T
<1>2. SUBSET S \subseteq T
  BY <1>1, SubsetInduction
<1>3. S \cap R = R /\ S \in T
  BY <1>2
<1> QED BY <1>3 DEF T

\* A sum over a set that another one indexes.
ImageOf(b, A) == {b[x] : x \in A}

LEMMA SumReindex ==
  ASSUME NEW A, IsFiniteSet(A), NEW b, NEW f, NEW g,
         \A x, y \in A : b[x] = b[y] => x = y,
         \A x \in A : f[x] \in Int /\ g[b[x]] = f[x]
  PROVE  /\ IsFiniteSet(ImageOf(b, A))
         /\ SumFunctionOnSet(g, ImageOf(b, A)) = SumFunctionOnSet(f, A)
<1> DEFINE Im(s) == {b[x] : x \in s}
           T == {s \in SUBSET A : /\ IsFiniteSet(Im(s))
                                  /\ SumFunctionOnSet(g, Im(s)) = SumFunctionOnSet(f, s)}
<1>1. ASSUME NEW s \in SUBSET A, \A x \in s : s \ {x} \in T PROVE s \in T
  <2>1. IsFiniteSet(s)
    BY FS_Subset
  <2>2. CASE s = {}
    <3>1. Im(s) = {}
      BY <2>2
    <3>2. IsFiniteSet(Im(s)) /\ SumFunctionOnSet(g, Im(s)) = SumFunctionOnSet(f, s)
      BY <2>2, <3>1, SumEmpty, FS_EmptySet
    <3> HIDE DEF Im
    <3> QED BY <3>2
  <2>3. CASE s # {}
    <3>1. PICK x \in s : TRUE
      BY <2>3
    <3>2. Im(s) = Im(s \ {x}) \cup {b[x]} /\ b[x] \notin Im(s \ {x})
      OBVIOUS
    <3>3. \A y \in Im(s) : g[y] \in Int
      OBVIOUS
    <3>4. s \ {x} \in T
      BY <1>1
    <3> HIDE DEF Im
    <3>5. /\ IsFiniteSet(Im(s \ {x}))
          /\ SumFunctionOnSet(g, Im(s \ {x})) = SumFunctionOnSet(f, s \ {x})
      BY <3>4
    <3>6. SumFunctionOnSet(g, Im(s)) = g[b[x]] + SumFunctionOnSet(g, Im(s \ {x}))
      <4>1. g[b[x]] \in Int /\ \A y \in Im(s \ {x}) : g[y] \in Int
        BY <3>2, <3>3
      <4>2. SumFunctionOnSet(g, Im(s \ {x}) \cup {b[x]}) =
              g[b[x]] + SumFunctionOnSet(g, Im(s \ {x}))
        BY <3>2, <3>5, <4>1, SumAddElement
      <4> QED BY <3>2, <4>2
    <3>7. SumFunctionOnSet(f, s) = f[x] + SumFunctionOnSet(f, s \ {x})
      BY <2>1, SumRemove
    <3>8. IsFiniteSet(Im(s))
      <4>1. IsFiniteSet(Im(s \ {x}) \cup {b[x]})
        BY <3>5, FS_AddElement
      <4> QED BY <3>2, <4>1
    <3> QED BY <3>5, <3>6, <3>7, <3>8
  <2> QED BY <2>2, <2>3
<1> HIDE DEF T
<1>2. SUBSET A \subseteq T
  BY <1>1, SubsetInduction
<1>3. A \in T /\ ImageOf(b, A) = Im(A)
  BY <1>2 DEF ImageOf
<1> HIDE DEF Im
<1> QED BY <1>3 DEF T

\* A sum over a union of disjoint sets is the sum of their sums.
UnionOf(F, I) == UNION {F[i] : i \in I}

LEMMA SumOfFamily ==
  ASSUME NEW I, IsFiniteSet(I), NEW F, NEW f,
         \A i \in I : IsFiniteSet(F[i]) /\ \A x \in F[i] : f[x] \in Int,
         \A i, j \in I : i # j => F[i] \cap F[j] = {}
  PROVE  /\ IsFiniteSet(UnionOf(F, I))
         /\ SumFunctionOnSet(f, UnionOf(F, I)) =
              SumFunctionOnSet([i \in I |-> SumFunctionOnSet(f, F[i])], I)
<1> DEFINE Un(s) == UNION {F[i] : i \in s}
           e == [i \in I |-> SumFunctionOnSet(f, F[i])]
           T == {s \in SUBSET I : /\ IsFiniteSet(Un(s))
                                  /\ SumFunctionOnSet(f, Un(s)) = SumFunctionOnSet(e, s)}
<1>0. \A i \in I : e[i] \in Int /\ e[i] = SumFunctionOnSet(f, F[i])
  BY SumType
<1> HIDE DEF e
<1>1. ASSUME NEW s \in SUBSET I, \A x \in s : s \ {x} \in T PROVE s \in T
  <2>1. IsFiniteSet(s)
    BY FS_Subset
  <2>2. CASE s = {}
    <3>1. Un(s) = {}
      BY <2>2
    <3>2. IsFiniteSet(Un(s)) /\ SumFunctionOnSet(f, Un(s)) = SumFunctionOnSet(e, s)
      BY <2>2, <3>1, SumEmpty, FS_EmptySet
    <3> HIDE DEF Un
    <3> QED BY <3>2
  <2>3. CASE s # {}
    <3>1. PICK i \in s : TRUE
      BY <2>3
    <3>2. Un(s) = F[i] \cup Un(s \ {i}) /\ F[i] \cap Un(s \ {i}) = {}
      OBVIOUS
    <3>3. \A x \in Un(s) : f[x] \in Int
      OBVIOUS
    <3>4. s \ {i} \in T
      BY <1>1
    <3> HIDE DEF Un
    <3>5. /\ IsFiniteSet(Un(s \ {i})) /\ IsFiniteSet(F[i])
          /\ SumFunctionOnSet(f, Un(s \ {i})) = SumFunctionOnSet(e, s \ {i})
      BY <3>4
    <3>6. SumFunctionOnSet(f, Un(s)) = e[i] + SumFunctionOnSet(f, Un(s \ {i}))
      <4>1. \A x \in F[i] \cup Un(s \ {i}) : f[x] \in Int
        BY <3>2, <3>3
      <4>2. SumFunctionOnSet(f, F[i] \cup Un(s \ {i})) =
              SumFunctionOnSet(f, F[i]) + SumFunctionOnSet(f, Un(s \ {i}))
        BY <3>2, <3>5, <4>1, SumDisjointUnion
      <4> QED BY <1>0, <3>2, <4>2
    <3>7. SumFunctionOnSet(e, s) = e[i] + SumFunctionOnSet(e, s \ {i})
      BY <1>0, <2>1, SumRemove
    <3>8. IsFiniteSet(Un(s))
      <4>1. IsFiniteSet(F[i] \cup Un(s \ {i}))
        BY <3>5, FS_Union
      <4> QED BY <3>2, <4>1
    <3> QED BY <3>5, <3>6, <3>7, <3>8
  <2> QED BY <2>2, <2>3
<1> HIDE DEF T
<1>2. SUBSET I \subseteq T
  BY <1>1, SubsetInduction
<1>3. I \in T /\ UnionOf(F, I) = Un(I)
  BY <1>2 DEF UnionOf
<1> HIDE DEF Un
<1> QED BY <1>3 DEF T, e

-----------------------------------------------------------------------------
(***************************************************************************)
(* FlattenSeq, one sequence after the other.                               *)
(***************************************************************************)
IsFlatten(g, ss, n) ==
    g = [i \in 1 .. n |-> IF i = 1 THEN ss[i] ELSE g[i - 1] \o ss[i]]

LEMMA FlattenExists ==
  ASSUME NEW ss, NEW n \in Nat
  PROVE  \E g : IsFlatten(g, ss, n)
<1> DEFINE R == {m \in 0 .. n : \E g : IsFlatten(g, ss, m)}
<1>1. 0 \in R
  <2> DEFINE g == [i \in 1 .. 0 |-> ss]
  <2>1. IsFlatten(g, ss, 0)
    BY DEF IsFlatten
  <2> QED BY <2>1
<1>2. ASSUME NEW m \in 1 .. n, m - 1 \in R PROVE m \in R
  <2>1. PICK g : IsFlatten(g, ss, m - 1)
    BY <1>2
  <2> DEFINE h == [i \in 1 .. m |-> IF i < m THEN g[i]
                                    ELSE IF m = 1 THEN ss[1] ELSE g[m - 1] \o ss[m]]
  <2>2. ASSUME NEW i \in 1 .. m
        PROVE  h[i] = IF i = 1 THEN ss[i] ELSE h[i - 1] \o ss[i]
    <3>1. i < m => i \in 1 .. m - 1
      OBVIOUS
    <3>2. i # 1 => i - 1 \in 1 .. m /\ h[i - 1] = g[i - 1]
      OBVIOUS
    <3>3. i \in 1 .. m - 1 => g[i] = IF i = 1 THEN ss[i] ELSE g[i - 1] \o ss[i]
      BY <2>1 DEF IsFlatten
    <3> QED BY <3>1, <3>2, <3>3
  <2>3. h = [i \in 1 .. m |-> h[i]]
    OBVIOUS
  <2> HIDE DEF h
  <2>4. IsFlatten(h, ss, m)
    BY <2>2, <2>3 DEF IsFlatten
  <2> QED BY <2>4
<1> HIDE DEF R
<1>3. 0 .. n \subseteq R
  BY <1>1, <1>2, SetInduction
<1>4. n \in R
  BY <1>3
<1> QED BY <1>4 DEF R

\* h is the concatenation of the first sequences, up to all of them.
FlattenRun(h, ss, E) ==
    /\ h \in [0 .. Len(ss) -> Seq(E)]
    /\ h[0] = << >>
    /\ \A i \in 1 .. Len(ss) : h[i] = h[i - 1] \o ss[i]
    /\ h[Len(ss)] = FlattenSeq(ss)

LEMMA FlattenPrefixes ==
  ASSUME NEW E, NEW ss \in Seq(Seq(E))
  PROVE  \E h : FlattenRun(h, ss, E)
<1> DEFINE n == Len(ss)
<1>1. n \in Nat /\ ss \in [1 .. n -> Seq(E)]
  BY LenProperties
<1>2. CASE n = 0
  <2>1. ss = << >> /\ FlattenSeq(ss) = << >>
    BY <1>1, <1>2, EmptySeq, SeqEqual DEF FlattenSeq
  <2> DEFINE h == [i \in 0 .. n |-> << >>]
  <2>2. FlattenRun(h, ss, E)
    BY <1>2, <2>1, EmptySeq DEF FlattenRun
  <2> QED BY <2>2
<1>3. CASE n # 0
  <2> DEFINE flatten == CHOOSE g : g = [i \in 1 .. n |-> IF i = 1 THEN ss[i]
                                                        ELSE g[i - 1] \o ss[i]]
  <2>1. IsFlatten(flatten, ss, n)
    <3>1. flatten = CHOOSE g : IsFlatten(g, ss, n)
      BY DEF IsFlatten
    <3>2. IsFlatten(CHOOSE g : IsFlatten(g, ss, n), ss, n)
      BY <1>1, FlattenExists, Zenon
    <3> HIDE DEF flatten
    <3> QED BY <3>1, <3>2
  <2>2. FlattenSeq(ss) = flatten[n]
    BY <1>3 DEF FlattenSeq
  <2> HIDE DEF flatten
  <2>3. \A i \in 1 .. n : flatten[i] = IF i = 1 THEN ss[i] ELSE flatten[i - 1] \o ss[i]
    BY <2>1 DEF IsFlatten
  <2> DEFINE h == [i \in 0 .. n |-> IF i = 0 THEN << >> ELSE flatten[i]]
  <2>4. ASSUME NEW i \in 1 .. n PROVE h[i] = h[i - 1] \o ss[i]
    <3>1. ss[i] \in Seq(E)
      BY <1>1
    <3>2. << >> \o ss[i] = ss[i]
      BY <3>1, ConcatEmptySeq
    <3>3. i - 1 \in 0 .. n /\ h[i] = flatten[i]
          /\ h[i - 1] = IF i = 1 THEN << >> ELSE flatten[i - 1]
      BY <1>1
    <3> HIDE DEF h
    <3> QED BY <2>3, <3>2, <3>3
  <2> DEFINE R == {i \in 0 .. n : h[i] \in Seq(E)}
  <2>5. 0 \in R
    BY <1>1, EmptySeq
  <2>6. h = [i \in 0 .. n |-> h[i]] /\ h[0] = << >> /\ h[n] = flatten[n]
    BY <1>1, <1>3
  <2> HIDE DEF h
  <2>7. ASSUME NEW i \in 1 .. n, i - 1 \in R PROVE i \in R
    <3>1. h[i - 1] \in Seq(E) /\ ss[i] \in Seq(E)
      BY <1>1, <2>7
    <3>2. h[i] \in Seq(E)
      BY <2>4, <3>1, ConcatProperties
    <3>3. i \in 0 .. n
      BY <1>1
    <3> QED BY <3>2, <3>3
  <2> HIDE DEF R
  <2>8. 0 .. n \subseteq R
    BY <1>1, <2>5, <2>7, SetInduction
  <2>9. \A i \in 0 .. n : h[i] \in Seq(E)
    BY <2>8 DEF R
  <2>10. h \in [0 .. n -> Seq(E)]
    BY <2>6, <2>9
  <2> QED BY <2>2, <2>4, <2>6, <2>10 DEF FlattenRun
<1> QED BY <1>2, <1>3

-----------------------------------------------------------------------------
(***************************************************************************)
(* The weight of a sequence: the sum of the weights of its elements.       *)
(***************************************************************************)
SeqWeight(v, s) == SumFunctionOnSet([i \in DOMAIN s |-> v[s[i]]], DOMAIN s)

LEMMA SeqWeightType ==
  ASSUME NEW E, NEW v \in [E -> Int], NEW s \in Seq(E)
  PROVE  /\ IsFiniteSet(DOMAIN s) /\ DOMAIN s = 1 .. Len(s) /\ Len(s) \in Nat
         /\ \A i \in DOMAIN s : s[i] \in E /\ v[s[i]] \in Int
         /\ SeqWeight(v, s) \in Int
<1>1. Len(s) \in Nat /\ DOMAIN s = 1 .. Len(s) /\ \A i \in DOMAIN s : s[i] \in E
  BY LenProperties
<1>2. IsFiniteSet(DOMAIN s)
  BY <1>1, FS_Interval
<1> DEFINE f == [i \in DOMAIN s |-> v[s[i]]]
<1>3. \A i \in DOMAIN s : v[s[i]] \in Int /\ f[i] \in Int
  BY <1>1
<1> HIDE DEF f
<1>4. SumFunctionOnSet(f, DOMAIN s) \in Int
  BY <1>2, <1>3, SumType
<1> QED BY <1>1, <1>2, <1>3, <1>4 DEF f, SeqWeight

LEMMA SeqWeightEmpty == ASSUME NEW v PROVE SeqWeight(v, << >>) = 0
  BY SumEmpty DEF SeqWeight

LEMMA SeqWeightOne ==
  ASSUME NEW E, NEW v \in [E -> Int], NEW e \in E
  PROVE  SeqWeight(v, <<e>>) = v[e]
<1> DEFINE f == [i \in DOMAIN <<e>> |-> v[<<e>>[i]]]
<1>1. DOMAIN <<e>> = {} \cup {1} /\ f[1] = v[e] /\ v[e] \in Int
  OBVIOUS
<1> HIDE DEF f
<1>2. SumFunctionOnSet(f, {} \cup {1}) = f[1] + SumFunctionOnSet(f, {})
  BY <1>1, FS_EmptySet, SumAddElement
<1>3. SumFunctionOnSet(f, {}) = 0
  BY SumEmpty
<1>4. SeqWeight(v, <<e>>) = SumFunctionOnSet(f, {} \cup {1})
  BY <1>1, Zenon DEF f, SeqWeight
<1> QED BY <1>1, <1>2, <1>3, <1>4

LEMMA SeqWeightConcat ==
  ASSUME NEW E, NEW v \in [E -> Int], NEW s \in Seq(E), NEW t \in Seq(E)
  PROVE  SeqWeight(v, s \o t) = SeqWeight(v, s) + SeqWeight(v, t)
<1> DEFINE m == Len(s)
           n == Len(t)
           f == [i \in DOMAIN s |-> v[s[i]]]
           g == [i \in DOMAIN t |-> v[t[i]]]
           h == [i \in DOMAIN (s \o t) |-> v[(s \o t)[i]]]
           b == [i \in 1 .. n |-> i + m]
           B == ImageOf(b, 1 .. n)
<1>1. /\ m \in Nat /\ DOMAIN s = 1 .. m /\ n \in Nat /\ DOMAIN t = 1 .. n
      /\ IsFiniteSet(1 .. m) /\ IsFiniteSet(1 .. n)
      /\ \A i \in 1 .. m : s[i] \in E
      /\ \A i \in 1 .. n : t[i] \in E
  BY SeqWeightType
<1>2. /\ s \o t \in Seq(E) /\ Len(s \o t) = m + n
      /\ \A i \in 1 .. m + n : (s \o t)[i] = IF i <= m THEN s[i] ELSE t[i - m]
  BY ConcatProperties
<1>3. DOMAIN (s \o t) = 1 .. m + n
  BY <1>2, LenProperties
<1>4. /\ 1 .. m + n = (1 .. m) \cup B /\ (1 .. m) \cap B = {}
  <2>1. ASSUME NEW i \in 1 .. m + n, i \notin 1 .. m PROVE i \in B
    <3>1. i - m \in 1 .. n /\ (i - m) + m = i
      BY <1>1, <2>1
    <3>2. b[i - m] = i
      BY <3>1
    <3> HIDE DEF b
    <3> QED BY <3>1, <3>2 DEF ImageOf
  <2>2. ASSUME NEW i \in 1 .. n PROVE b[i] \in 1 .. m + n /\ b[i] \notin 1 .. m
    BY <1>1
  <2>3. 1 .. m \subseteq 1 .. m + n
    BY <1>1
  <2> HIDE DEF b
  <2> QED BY <2>1, <2>2, <2>3 DEF ImageOf
<1>5. \A i \in 1 .. m : f[i] \in Int /\ h[i] = f[i]
  BY <1>1, <1>2, <1>3
<1>6. \A i \in 1 .. n : g[i] \in Int /\ h[b[i]] = g[i]
  BY <1>1, <1>2, <1>3
<1>7. \A i, j \in 1 .. n : b[i] = b[j] => i = j
  BY <1>1
<1>8. /\ SeqWeight(v, s) = SumFunctionOnSet(f, 1 .. m)
      /\ SeqWeight(v, t) = SumFunctionOnSet(g, 1 .. n)
      /\ SeqWeight(v, s \o t) = SumFunctionOnSet(h, 1 .. m + n)
  BY <1>1, <1>3 DEF SeqWeight
<1> HIDE DEF m, n, f, g, h, b
<1>a. B = {b[x] : x \in 1 .. n}
  BY DEF ImageOf
<1>9. IsFiniteSet(B) /\ SumFunctionOnSet(h, B) = SumFunctionOnSet(g, 1 .. n)
  BY <1>1, <1>6, <1>7, SumReindex
<1> HIDE DEF B
<1>10. SumFunctionOnSet(h, 1 .. m) = SumFunctionOnSet(f, 1 .. m)
  BY <1>1, <1>5, SumCongruence
<1>11. \A i \in (1 .. m) \cup B : h[i] \in Int
  BY <1>5, <1>6, <1>a
<1>12. SumFunctionOnSet(h, (1 .. m) \cup B) =
         SumFunctionOnSet(h, 1 .. m) + SumFunctionOnSet(h, B)
  BY <1>1, <1>4, <1>9, <1>11, SumDisjointUnion
<1> QED BY <1>4, <1>8, <1>9, <1>10, <1>12

\* The weight of a concatenation of many sequences.
LEMMA SeqWeightFlatten ==
  ASSUME NEW E, NEW v \in [E -> Int], NEW ss \in Seq(Seq(E))
  PROVE  /\ FlattenSeq(ss) \in Seq(E)
         /\ SeqWeight(v, FlattenSeq(ss)) =
              SumFunctionOnSet([i \in DOMAIN ss |-> SeqWeight(v, ss[i])], DOMAIN ss)
<1> DEFINE n == Len(ss)
           f == [i \in DOMAIN ss |-> SeqWeight(v, ss[i])]
<1>1. n \in Nat /\ DOMAIN ss = 1 .. n /\ \A i \in 1 .. n : ss[i] \in Seq(E)
  BY LenProperties
<1>2. PICK h : FlattenRun(h, ss, E)
  BY FlattenPrefixes
<1>3. \A i \in 1 .. n : f[i] = SeqWeight(v, ss[i]) /\ f[i] \in Int
  BY <1>1, SeqWeightType
<1> HIDE DEF f
<1> DEFINE R == {i \in 0 .. n : SeqWeight(v, h[i]) = SumFunctionOnSet(f, 1 .. i)}
<1>4. 0 \in R
  <2>1. SeqWeight(v, h[0]) = 0
    BY <1>2, SeqWeightEmpty DEF FlattenRun
  <2>2. SumFunctionOnSet(f, 1 .. 0) = 0
    <3>1. 1 .. 0 = {}
      OBVIOUS
    <3> QED BY <3>1, SumEmpty
  <2> QED BY <1>1, <2>1, <2>2
<1>5. ASSUME NEW i \in 1 .. n, i - 1 \in R PROVE i \in R
  <2>0. i \in 0 .. n /\ i - 1 \in 0 .. n /\ i - 1 \in Nat /\ i \in Int
    BY <1>1
  <2>1. h[i] = h[i - 1] \o ss[i] /\ h[i - 1] \in Seq(E) /\ ss[i] \in Seq(E)
    BY <1>1, <1>2, <2>0 DEF FlattenRun
  <2>2. SeqWeight(v, h[i]) = SeqWeight(v, h[i - 1]) + f[i]
    <3>1. f[i] = SeqWeight(v, ss[i])
      BY <1>3
    <3>2. SeqWeight(v, h[i - 1] \o ss[i]) = SeqWeight(v, h[i - 1]) + SeqWeight(v, ss[i])
      BY <2>1, SeqWeightConcat
    <3> QED BY <2>1, <3>1, <3>2
  <2>3. 1 .. i = (1 .. i - 1) \cup {i} /\ i \notin 1 .. i - 1
    BY <1>1
  <2>4. IsFiniteSet(1 .. i - 1) /\ \A j \in 1 .. i - 1 : f[j] \in Int
    <3>1. IsFiniteSet(1 .. i - 1)
      BY <2>0, FS_Interval
    <3>2. \A j \in 1 .. i - 1 : j \in 1 .. n
      BY <1>1
    <3> QED BY <1>3, <3>1, <3>2
  <2>5. SumFunctionOnSet(f, (1 .. i - 1) \cup {i}) = f[i] + SumFunctionOnSet(f, 1 .. i - 1)
    BY <1>3, <2>3, <2>4, SumAddElement
  <2>6. SumFunctionOnSet(f, 1 .. i - 1) \in Int
    BY <2>4, SumType
  <2>7. SeqWeight(v, h[i - 1]) = SumFunctionOnSet(f, 1 .. i - 1)
    BY <1>5
  <2>8. SeqWeight(v, h[i]) = SumFunctionOnSet(f, 1 .. i)
    <3>1. f[i] \in Int
      BY <1>3
    <3>2. SumFunctionOnSet(f, 1 .. i) = f[i] + SumFunctionOnSet(f, 1 .. i - 1)
      BY <2>3, <2>5, Zenon
    <3> QED BY <2>2, <2>6, <2>7, <3>1, <3>2
  <2> QED BY <2>0, <2>8
<1> HIDE DEF R
<1>6. 0 .. n \subseteq R
  BY <1>1, <1>4, <1>5, SetInduction
<1>7. SeqWeight(v, h[n]) = SumFunctionOnSet(f, 1 .. n)
  BY <1>1, <1>6 DEF R
<1>8. h[n] = FlattenSeq(ss) /\ h[n] \in Seq(E)
  BY <1>1, <1>2 DEF FlattenRun
<1> QED BY <1>1, <1>7, <1>8 DEF f

-----------------------------------------------------------------------------
(***************************************************************************)
(* Digits.                                                                 *)
(***************************************************************************)

\* A function that is defined from its value one place before exists.
IsRecursion(f, F, base, n) ==
    f = [i \in 0 .. n |-> IF i = 0 THEN base ELSE F[f[i - 1]]]

LEMMA RecursionExists ==
  ASSUME NEW V, NEW F \in [V -> V], NEW base \in V, NEW n \in Nat
  PROVE  \E f \in [0 .. n -> V] : IsRecursion(f, F, base, n)
<1> DEFINE T == {m \in 0 .. n : \E f \in [0 .. m -> V] : IsRecursion(f, F, base, m)}
<1>1. 0 \in T
  <2> DEFINE f == [i \in 0 .. 0 |-> base]
  <2>1. f \in [0 .. 0 -> V] /\ IsRecursion(f, F, base, 0)
    BY DEF IsRecursion
  <2> QED BY <2>1
<1>2. ASSUME NEW m \in 1 .. n, m - 1 \in T PROVE m \in T
  <2>1. PICK f \in [0 .. m - 1 -> V] : IsRecursion(f, F, base, m - 1)
    BY <1>2
  <2>2. \A i \in 0 .. m - 1 : f[i] = IF i = 0 THEN base ELSE F[f[i - 1]]
    BY <2>1 DEF IsRecursion
  <2> DEFINE g == [i \in 0 .. m |-> IF i = m THEN F[f[m - 1]] ELSE f[i]]
  <2>3. g \in [0 .. m -> V]
    BY <2>1
  <2>4. \A i \in 0 .. m : g[i] = IF i = 0 THEN base ELSE F[g[i - 1]]
    BY <2>2
  <2> HIDE DEF g
  <2>5. IsRecursion(g, F, base, m)
    BY <2>3, <2>4 DEF IsRecursion
  <2> QED BY <2>3, <2>5
<1> HIDE DEF T
<1>3. n \in T
  BY <1>1, <1>2, SetInduction
<1> QED BY <1>3 DEF T

LEMMA QuotientsAre ==
  ASSUME NEW n \in Int, NEW b \in Nat, b >= 2, NEW w \in Nat
  PROVE  /\ Quotients(n, b, w) \in [0 .. w -> Int]
         /\ Quotients(n, b, w)[0] = n
         /\ \A i \in 1 .. w : Quotients(n, b, w)[i] = Quotients(n, b, w)[i - 1] \div b
<1> DEFINE F == [v \in Int |-> v \div b]
           D(f) == [i \in 0 .. w |-> IF i = 0 THEN n ELSE f[i - 1] \div b]
           Q == CHOOSE f : f = D(f)
<1>1. Quotients(n, b, w) = Q
  BY DEF Quotients
<1>2. F \in [Int -> Int]
  OBVIOUS
<1>3. PICK f \in [0 .. w -> Int] : IsRecursion(f, F, n, w)
  <2> HIDE DEF F
  <2> QED BY <1>2, RecursionExists
<1>4. f = D(f)
  <2>1. \A i \in 0 .. w : f[i] = IF i = 0 THEN n ELSE F[f[i - 1]]
    BY <1>3 DEF IsRecursion
  <2>2. ASSUME NEW i \in 0 .. w PROVE f[i] = IF i = 0 THEN n ELSE f[i - 1] \div b
    <3>1. i # 0 => i - 1 \in 0 .. w /\ f[i - 1] \in Int
      BY <1>3
    <3>2. i # 0 => F[f[i - 1]] = f[i - 1] \div b
      BY <3>1
    <3> QED BY <2>1, <3>2
  <2> QED BY <2>2
<1>5. Q = D(Q)
  <2> HIDE DEF D
  <2> QED BY <1>4, Zenon
<1>6. \A i \in 0 .. w : Q[i] = IF i = 0 THEN n ELSE Q[i - 1] \div b
  <2> HIDE DEF Q
  <2> QED BY <1>5
<1>7. DOMAIN Q = 0 .. w /\ Q = [i \in 0 .. w |-> Q[i]]
  <2> HIDE DEF Q
  <2> QED BY <1>5
<1> HIDE DEF Q
<1> DEFINE T == {i \in 0 .. w : Q[i] \in Int}
<1>8. 0 \in T /\ \A i \in 1 .. w : i - 1 \in T => i \in T
  BY <1>6
<1> HIDE DEF T
<1>9. 0 .. w \subseteq T
  BY <1>8, SetInduction
<1>10. \A i \in 0 .. w : Q[i] \in Int
  BY <1>9 DEF T
<1>11. /\ Q \in [0 .. w -> Int] /\ Q[0] = n
       /\ \A i \in 1 .. w : Q[i] = Q[i - 1] \div b
  <2>1. Q \in [0 .. w -> Int]
    BY <1>7, <1>10
  <2> QED BY <1>6, <2>1
<1> QED BY <1>1, <1>11, Zenon

IsPower(pow, b, w) ==
    /\ pow \in [0 .. w -> Nat] /\ pow[0] = 1
    /\ \A i \in 1 .. w : pow[i] = pow[i - 1] * b /\ pow[i] >= 1
    /\ Power(b, w) = pow[w]

LEMMA PowerIs ==
  ASSUME NEW b \in Nat, b >= 2, NEW w \in Nat
  PROVE  /\ \E pow : IsPower(pow, b, w)
         /\ Power(b, w) \in Nat /\ Power(b, w) >= 1
<1> DEFINE F == [v \in Nat \ {0} |-> v * b]
           D(f) == [i \in 0 .. w |-> IF i = 0 THEN 1 ELSE f[i - 1] * b]
           P == CHOOSE f : f = D(f)
<1>1. Power(b, w) = P[w]
  BY DEF Power
<1>2. F \in [Nat \ {0} -> Nat \ {0}]
  <2>1. ASSUME NEW v \in Nat \ {0} PROVE v * b \in Nat \ {0}
    OBVIOUS
  <2> QED BY <2>1
<1>3. PICK f \in [0 .. w -> Nat \ {0}] : IsRecursion(f, F, 1, w)
  <2> DEFINE V == Nat \ {0}
  <2>1. F \in [V -> V] /\ 1 \in V
    BY <1>2
  <2> HIDE DEF F, V
  <2>2. \E f \in [0 .. w -> V] : IsRecursion(f, F, 1, w)
    BY <2>1, RecursionExists
  <2> QED BY <2>2 DEF V
<1>4. f = D(f)
  <2>1. \A i \in 0 .. w : f[i] = IF i = 0 THEN 1 ELSE F[f[i - 1]]
    BY <1>3 DEF IsRecursion
  <2>2. ASSUME NEW i \in 0 .. w PROVE f[i] = IF i = 0 THEN 1 ELSE f[i - 1] * b
    <3>1. i # 0 => i - 1 \in 0 .. w /\ f[i - 1] \in Nat \ {0}
      <4>1. i # 0 => i - 1 \in 0 .. w
        OBVIOUS
      <4>2. \A j \in 0 .. w : f[j] \in Nat \ {0}
        <5> HIDE DEF F, D
        <5> QED BY <1>3
      <4> QED BY <4>1, <4>2
    <3>2. i # 0 => F[f[i - 1]] = f[i - 1] * b
      BY <3>1
    <3> QED BY <2>1, <3>2
  <2> QED BY <2>2
<1>5. P = D(P)
  <2> HIDE DEF D
  <2> QED BY <1>4, Zenon
<1>6. \A i \in 0 .. w : P[i] = IF i = 0 THEN 1 ELSE P[i - 1] * b
  <2> HIDE DEF P
  <2> QED BY <1>5
<1>7. DOMAIN P = 0 .. w /\ P = [i \in 0 .. w |-> P[i]]
  <2> HIDE DEF P
  <2> QED BY <1>5
<1> HIDE DEF P
<1> DEFINE T == {i \in 0 .. w : P[i] \in Nat \ {0}}
<1>8. 0 \in T
  BY <1>6
<1>9. ASSUME NEW i \in 1 .. w, i - 1 \in T PROVE i \in T
  <2> DEFINE p == P[i - 1]
  <2>1. p \in Nat \ {0} /\ P[i] = p * b
    BY <1>6, <1>9
  <2> HIDE DEF p
  <2>2. p * b \in Nat \ {0}
    BY <2>1
  <2> QED BY <2>1, <2>2
<1> HIDE DEF T
<1>10. 0 .. w \subseteq T
  BY <1>8, <1>9, SetInduction
<1>11. \A i \in 0 .. w : P[i] \in Nat /\ P[i] >= 1
  BY <1>10 DEF T
<1>12. IsPower(P, b, w)
  <2>1. P \in [0 .. w -> Nat]
    BY <1>7, <1>11
  <2>2. P[0] = 1 /\ \A i \in 1 .. w : P[i] = P[i - 1] * b /\ P[i] >= 1
    BY <1>6, <1>11
  <2> QED BY <1>1, <2>1, <2>2 DEF IsPower
<1> QED BY <1>1, <1>11, <1>12

\* FoldRight takes the digits from the lowest on and adds them from the highest
\* on: the run of its results.
LEMMA MinIs ==
  ASSUME NEW n \in Int, NEW s, n \in s, \A i \in s : i \in Int /\ n <= i
  PROVE  Min(s) = n
<1>1. \E x \in s : \A y \in s : x <= y
  OBVIOUS
<1>2. Min(s) \in s /\ \A y \in s : Min(s) <= y
  BY <1>1, Zenon DEF Min
<1> DEFINE x == Min(s)
<1>3. x \in Int /\ x <= n /\ x >= n
  BY <1>2
<1> HIDE DEF x
<1>4. x = n
  BY <1>3
<1> QED BY <1>4 DEF x

IsDigitIter(g, s, b, k, n) ==
    /\ g \in [SUBSET (k .. n) -> Int]
    /\ \A t \in SUBSET (k .. n) :
         g[t] = IF t = {} THEN 0 ELSE g[t \ {Min(t)}] * b + s[Min(t)]

LEMMA DigitIterExists ==
  ASSUME NEW b \in Int, NEW s \in Seq(Int)
  PROVE  \E g : IsDigitIter(g, s, b, 1, Len(s))
<1> DEFINE n == Len(s)
           T == {m \in 0 .. n : \E g : IsDigitIter(g, s, b, n + 1 - m, n)}
<1>0. n \in Nat /\ \A i \in 1 .. n : s[i] \in Int
  BY LenProperties
<1> HIDE DEF n
<1>1. 0 \in T
  <2> DEFINE g == [t \in SUBSET (n + 1 - 0 .. n) |-> 0]
  <2>1. n + 1 - 0 .. n = {}
    BY <1>0
  <2>2. \A t \in SUBSET (n + 1 - 0 .. n) : t = {}
    BY <2>1
  <2>3. IsDigitIter(g, s, b, n + 1 - 0, n)
    BY <2>2 DEF IsDigitIter
  <2> QED BY <1>0, <2>3
<1>2. ASSUME NEW m \in 1 .. n, m - 1 \in T PROVE m \in T
  <2>0. PICK k : k = n + 1 - m
    OBVIOUS
  <2>00. k \in 1 .. n /\ n + 1 - (m - 1) = k + 1
    BY <1>0, <2>0
  <2> DEFINE P == SUBSET (k + 1 .. n)
             Q == SUBSET (k .. n)
  <2>1. PICK g : IsDigitIter(g, s, b, k + 1, n)
    BY <1>2, <2>00
  <2>2. g \in [P -> Int]
        /\ \A t \in P : g[t] = IF t = {} THEN 0 ELSE g[t \ {Min(t)}] * b + s[Min(t)]
    BY <2>1 DEF IsDigitIter
  <2> DEFINE h == [t \in Q |-> IF k \in t THEN g[t \ {k}] * b + s[k] ELSE g[t]]
  <2>3. ASSUME NEW t \in Q PROVE t \ {k} \in P /\ (k \notin t => t \in P)
    <3>1. \A i \in k .. n : i # k => i \in k + 1 .. n
      BY <1>0, <2>00
    <3> QED BY <3>1
  <2>4. h \in [Q -> Int]
    <3>1. s[k] \in Int
      BY <1>0, <2>00
    <3>2. ASSUME NEW t \in Q PROVE (IF k \in t THEN g[t \ {k}] * b + s[k] ELSE g[t]) \in Int
      <4> HIDE DEF P, Q
      <4> QED BY <2>2, <2>3, <3>1
    <3> QED BY <3>2
  <2>5. \A t \in P : t \in Q /\ h[t] = g[t]
    BY <1>0, <2>00
  <2>6. ASSUME NEW t \in Q
        PROVE  h[t] = IF t = {} THEN 0 ELSE h[t \ {Min(t)}] * b + s[Min(t)]
    <3>1. CASE k \in t
      <4>1. Min(t) = k
        <5>1. k \in Int /\ \A i \in t : i \in Int /\ k <= i
          BY <1>0, <2>00
        <5> QED BY <3>1, <5>1, MinIs
      <4>2. h[t \ {k}] = g[t \ {k}]
        BY <2>3, <2>5
      <4>3. h[t] = g[t \ {k}] * b + s[k]
        BY <3>1
      <4> HIDE DEF h
      <4> QED BY <3>1, <4>1, <4>2, <4>3
    <3>2. CASE k \notin t
      <4>1. t \in P /\ t \ {Min(t)} \in P
        BY <2>3, <3>2
      <4>2. h[t] = g[t] /\ h[t \ {Min(t)}] = g[t \ {Min(t)}]
        BY <2>5, <4>1
      <4> HIDE DEF h, P
      <4> QED BY <2>2, <4>1, <4>2
    <3> QED BY <3>1, <3>2
  <2> HIDE DEF h
  <2>7. IsDigitIter(h, s, b, k, n)
    BY <2>4, <2>6 DEF IsDigitIter
  <2> QED BY <2>0, <2>7
<1> HIDE DEF T
<1>3. n \in T
  <2>1. 0 .. n \subseteq T
    BY <1>0, <1>1, <1>2, SetInduction
  <2> QED BY <1>0, <2>1
<1>4. n + 1 - n = 1
  BY <1>0
<1> QED BY <1>3, <1>4 DEF T, n

DigitRun(h, s, b) ==
    /\ h \in [1 .. Len(s) + 1 -> Int] /\ h[Len(s) + 1] = 0
    /\ \A i \in 1 .. Len(s) : h[i] = h[i + 1] * b + s[i]
    /\ FromDigits(s, b) = h[1]

LEMMA DigitRunExists ==
  ASSUME NEW b \in Int, NEW s \in Seq(Int)
  PROVE  \E h : DigitRun(h, s, b)
<1> DEFINE n == Len(s)
           D(f) == [t \in SUBSET (1 .. n) |->
                      IF t = {} THEN 0 ELSE f[t \ {Min(t)}] * b + s[Min(t)]]
           G == CHOOSE f : f = D(f)
<1>0. n \in Nat /\ DOMAIN s = 1 .. n
  BY LenProperties
<1>1. FromDigits(s, b) = G[1 .. n]
  <2> HIDE DEF n
  <2> QED BY <1>0 DEF FromDigits, FoldRight, MapThenFoldSet
<1>2. PICK g : IsDigitIter(g, s, b, 1, n)
  <2>1. \E g : IsDigitIter(g, s, b, 1, n)
    BY DigitIterExists
  <2> QED BY <2>1
<1>3. g = D(g)
  <2> HIDE DEF n
  <2>1. /\ g \in [SUBSET (1 .. n) -> Int]
        /\ \A t \in SUBSET (1 .. n) :
             g[t] = IF t = {} THEN 0 ELSE g[t \ {Min(t)}] * b + s[Min(t)]
    BY <1>2 DEF IsDigitIter
  <2> QED BY <2>1
<1>4. G = D(G)
  <2> HIDE DEF D
  <2> QED BY <1>3, Zenon
<1> HIDE DEF n
<1>5. \A t \in SUBSET (1 .. n) :
         G[t] = IF t = {} THEN 0 ELSE G[t \ {Min(t)}] * b + s[Min(t)]
  <2> HIDE DEF G
  <2> QED BY <1>4
<1> HIDE DEF G, D
<1>6. ASSUME NEW i \in 1 .. n PROVE G[i .. n] = G[i + 1 .. n] * b + s[i]
  <2>1. /\ i .. n \in SUBSET (1 .. n) /\ i .. n # {} /\ i \in Int
        /\ (i .. n) \ {i} = i + 1 .. n /\ i \in i .. n /\ \A j \in i .. n : j \in Int /\ i <= j
    <3>1. i \in Int /\ i \in i .. n /\ \A j \in i .. n : j \in Int /\ i <= j
      BY <1>0
    <3>2. (i .. n) \ {i} = i + 1 .. n
      <4> SUFFICES ASSUME NEW j PROVE j \in (i .. n) \ {i} <=> j \in i + 1 .. n
        BY Zenon
      <4> QED BY <1>0, <3>1
    <3>3. i .. n \in SUBSET (1 .. n)
      BY <1>0
    <3> QED BY <3>1, <3>2, <3>3, Zenon
  <2>2. Min(i .. n) = i
    BY <2>1, MinIs
  <2> QED BY <1>5, <2>1, <2>2
<1>7. G[n + 1 .. n] = 0
  <2>1. n + 1 .. n = {}
    BY <1>0
  <2> QED BY <1>5, <2>1
<1> DEFINE T == {m \in 0 .. n : G[n + 1 - m .. n] \in Int}
<1>8. 0 \in T
  <2>1. n + 1 - 0 = n + 1
    BY <1>0
  <2> QED BY <1>0, <1>7, <2>1
<1>9. ASSUME NEW m \in 1 .. n, m - 1 \in T PROVE m \in T
  <2> DEFINE k == n + 1 - m
  <2>1. k \in 1 .. n /\ n + 1 - (m - 1) = k + 1 /\ s[k] \in Int
    BY <1>0, LenProperties DEF n
  <2> HIDE DEF k
  <2>2. G[k + 1 .. n] \in Int
    BY <1>9, <2>1
  <2>3. G[k .. n] \in Int
    BY <1>6, <2>1, <2>2
  <2> QED BY <2>3 DEF k
<1>10. \A i \in 1 .. n + 1 : G[i .. n] \in Int
  <2> SUFFICES ASSUME NEW i \in 1 .. n + 1 PROVE G[i .. n] \in Int
    OBVIOUS
  <2> HIDE DEF T
  <2>1. 0 .. n \subseteq T
    BY <1>0, <1>8, <1>9, SetInduction
  <2>2. n + 1 - i \in 0 .. n /\ n + 1 - (n + 1 - i) = i
    BY <1>0
  <2>3. n + 1 - i \in T
    BY <2>1, <2>2
  <2> QED BY <2>2, <2>3 DEF T
<1> DEFINE h == [i \in 1 .. n + 1 |-> G[i .. n]]
<1>11. h \in [1 .. n + 1 -> Int] /\ h[n + 1] = 0 /\ h[1] = G[1 .. n]
  BY <1>0, <1>7, <1>10
<1>12. \A i \in 1 .. n : h[i] = h[i + 1] * b + s[i]
  BY <1>0, <1>6
<1> HIDE DEF h
<1>13. DigitRun(h, s, b)
  BY <1>1, <1>11, <1>12 DEF DigitRun, n
<1> QED BY <1>13

\* Products, where the provers want them said.
LEMMA TimesMonotone ==
  ASSUME NEW x \in Int, NEW y \in Int, NEW c \in Nat, x <= y
  PROVE  x * c <= y * c
<1>1. (y - x) * c \in Nat
  BY y - x \in Nat
<1>2. (y - x) * c = y * c - x * c
  OBVIOUS
<1>3. x * c \in Int /\ y * c \in Int
  OBVIOUS
<1> DEFINE p == x * c
           q == y * c
<1>4. q - p \in Nat /\ p \in Int /\ q \in Int
  BY <1>1, <1>2, <1>3
<1> HIDE DEF p, q
<1>5. p <= q
  BY <1>4
<1> QED BY <1>5 DEF p, q

LEMMA DigitsBelow ==
  ASSUME NEW b \in Nat, b >= 2, NEW s \in Seq(0 .. b - 1)
  PROVE  FromDigits(s, b) \in 0 .. Power(b, Len(s)) - 1
<1> DEFINE n == Len(s)
<1>0. n \in Nat /\ \A i \in 1 .. n : s[i] \in 0 .. b - 1
  BY LenProperties
<1>1. s \in Seq(Int)
  <2>1. s \in [1 .. n -> Int]
    BY <1>0, LenProperties
  <2> QED BY <1>0, <2>1, SeqDef
<1>2. PICK h : DigitRun(h, s, b)
  BY <1>1, DigitRunExists
<1>3. /\ h \in [1 .. n + 1 -> Int] /\ h[n + 1] = 0
      /\ \A i \in 1 .. n : h[i] = h[i + 1] * b + s[i]
      /\ FromDigits(s, b) = h[1]
  BY <1>2 DEF DigitRun
<1>4. PICK pow : IsPower(pow, b, n)
  BY <1>0, PowerIs
<1>5. /\ pow \in [0 .. n -> Nat] /\ pow[0] = 1
      /\ \A i \in 1 .. n : pow[i] = pow[i - 1] * b
      /\ Power(b, n) = pow[n]
  BY <1>4 DEF IsPower
<1> HIDE DEF n
<1> DEFINE T == {m \in 0 .. n : h[n + 1 - m] \in 0 .. pow[m] - 1}
<1>6. 0 \in T
  <2>1. n + 1 - 0 = n + 1
    BY <1>0
  <2> QED BY <1>0, <1>3, <1>5, <2>1
<1>7. ASSUME NEW m \in 1 .. n, m - 1 \in T PROVE m \in T
  <2>1. PICK k : k = n + 1 - m
    OBVIOUS
  <2>2. k \in 1 .. n /\ n + 1 - (m - 1) = k + 1
    BY <1>0, <2>1
  <2>3. PICK x, p, d : x = h[k + 1] /\ p = pow[m - 1] /\ d = s[k]
    OBVIOUS
  <2>4. x \in 0 .. p - 1 /\ p \in Nat /\ d \in 0 .. b - 1
    BY <1>0, <1>5, <1>7, <2>2, <2>3
  <2>5. h[k] = x * b + d /\ pow[m] = p * b
    BY <1>3, <1>5, <2>2, <2>3
  <2>6. x * b <= (p - 1) * b /\ 0 * b <= x * b
    BY <2>4, TimesMonotone
  <2>7. (p - 1) * b = p * b - b /\ 0 * b = 0 /\ x * b \in Int /\ p * b \in Int
    BY <2>4
  <2>8. PICK xb, pb : xb = x * b /\ pb = p * b
    OBVIOUS
  <2>9. 0 <= xb /\ xb <= pb - b /\ xb \in Int /\ pb \in Int
    BY <2>6, <2>7, <2>8
  <2>10. xb + d \in 0 .. pb - 1
    BY <2>4, <2>9
  <2>11. h[k] \in 0 .. pow[m] - 1
    BY <2>5, <2>8, <2>10
  <2> QED BY <2>1, <2>11
<1> HIDE DEF T
<1>8. 0 .. n \subseteq T
  BY <1>0, <1>6, <1>7, SetInduction
<1>9. n \in T /\ n + 1 - n = 1
  BY <1>0, <1>8
<1>10. h[1] \in 0 .. pow[n] - 1
  BY <1>9 DEF T
<1> QED BY <1>3, <1>5, <1>10 DEF n

LEMMA ToDigitsType ==
  ASSUME NEW n \in Int, NEW b \in Nat, b >= 2, NEW w \in Nat
  PROVE  /\ ToDigits(n, b, w) \in Seq(0 .. b - 1) /\ ToDigits(n, b, w) \in Seq(Int)
         /\ Len(ToDigits(n, b, w)) = w
<1> DEFINE s == ToDigits(n, b, w)
<1>1. \A i \in 1 .. w : Quotients(n, b, w)[i - 1] \in Int
  <2>1. \A i \in 1 .. w : i - 1 \in 0 .. w
    OBVIOUS
  <2> QED BY <2>1, QuotientsAre
<1>2. \A v \in Int : v % b \in 0 .. b - 1
  OBVIOUS
<1>3. s = [i \in 1 .. w |-> Quotients(n, b, w)[i - 1] % b]
  BY DEF ToDigits
<1> HIDE DEF s
<1>4. s \in [1 .. w -> 0 .. b - 1]
  BY <1>1, <1>2, <1>3
<1>5. s \in [1 .. w -> Int]
  BY <1>4
<1>6. s \in Seq(0 .. b - 1) /\ s \in Seq(Int)
  BY <1>4, <1>5, SeqDef
<1>7. Len(s) = w
  BY <1>4, <1>6, LenProperties
<1> QED BY <1>6, <1>7 DEF s

LEMMA DigitsOf ==
  ASSUME NEW n \in Int, NEW b \in Nat, b >= 2, NEW w \in Nat
  PROVE  FromDigits(ToDigits(n, b, w), b) = n - Quotients(n, b, w)[w] * Power(b, w)
<1>1. PICK s : s = ToDigits(n, b, w)
  OBVIOUS
<1>2. PICK q : q = Quotients(n, b, w)
  OBVIOUS
<1>3. s \in Seq(Int) /\ Len(s) = w /\ \A i \in 1 .. w : s[i] = q[i - 1] % b
  BY <1>1, <1>2, ToDigitsType DEF ToDigits
<1>4. /\ q \in [0 .. w -> Int] /\ q[0] = n
      /\ \A i \in 1 .. w : q[i] = q[i - 1] \div b
  BY <1>2, QuotientsAre
<1>5. PICK h : DigitRun(h, s, b)
  BY <1>3, DigitRunExists
<1>6. /\ h \in [1 .. w + 1 -> Int] /\ h[w + 1] = 0
      /\ \A i \in 1 .. w : h[i] = h[i + 1] * b + s[i]
      /\ FromDigits(s, b) = h[1]
  BY <1>3, <1>5 DEF DigitRun
<1>7. PICK pow : IsPower(pow, b, w)
  BY PowerIs
<1>8. /\ pow \in [0 .. w -> Nat] /\ pow[0] = 1
      /\ \A i \in 1 .. w : pow[i] = pow[i - 1] * b
      /\ Power(b, w) = pow[w]
  BY <1>7 DEF IsPower
<1> DEFINE T == {m \in 0 .. w : h[w + 1 - m] = q[w - m] - q[w] * pow[m]}
<1>9. 0 \in T
  <2>1. w + 1 - 0 = w + 1 /\ w - 0 = w /\ q[w] \in Int
    BY <1>4
  <2>2. q[w] - q[w] * 1 = 0
    BY <2>1
  <2> QED BY <1>6, <1>8, <2>1, <2>2
<1>10. ASSUME NEW m \in 1 .. w, m - 1 \in T PROVE m \in T
  <2>1. PICK k : k = w + 1 - m
    OBVIOUS
  <2>2. /\ k \in 1 .. w /\ w + 1 - (m - 1) = k + 1 /\ w - (m - 1) = k /\ w - m = k - 1
        /\ k \in 0 .. w /\ k - 1 \in 0 .. w /\ m - 1 \in 0 .. w
    BY <2>1
  <2>3. PICK x, y, z, p : x = q[k] /\ y = q[k - 1] /\ z = q[w] /\ p = pow[m - 1]
    OBVIOUS
  <2>4. x \in Int /\ y \in Int /\ z \in Int /\ p \in Int
    BY <1>4, <1>8, <2>2, <2>3
  <2>5. h[k + 1] = x - z * p
    BY <1>10, <2>2, <2>3
  <2>6. h[k] = (x - z * p) * b + (y % b) /\ pow[m] = p * b /\ x = y \div b
    BY <1>3, <1>4, <1>6, <1>8, <2>2, <2>3, <2>5
  <2>7. (x - z * p) * b = x * b - z * (p * b)
    <3>1. (x - z * p) * b = x * b - (z * p) * b
      <4>1. z * p \in Int
        BY <2>4
      <4> QED BY <2>4, <4>1
    <3>2. (z * p) * b = z * (p * b)
      BY <2>4
    <3> QED BY <3>1, <3>2
  <2>8. y = x * b + (y % b)
    BY <2>4, <2>6
  <2>9. PICK xb, zpb, r : xb = x * b /\ zpb = z * (p * b) /\ r = y % b
    OBVIOUS
  <2>10. xb \in Int /\ zpb \in Int /\ r \in Int
    BY <2>4, <2>9
  <2>11. h[k] = (xb - zpb) + r /\ y = xb + r
    BY <2>6, <2>7, <2>8, <2>9, Zenon
  <2>11a. h[k] = y - zpb
    BY <2>10, <2>11
  <2>12. h[k] = q[k - 1] - q[w] * pow[m]
    BY <2>3, <2>6, <2>9, <2>11a
  <2> QED BY <2>1, <2>2, <2>12
<1> HIDE DEF T
<1>11. 0 .. w \subseteq T
  BY <1>9, <1>10, SetInduction
<1>12. w \in T /\ w + 1 - w = 1 /\ w - w = 0
  BY <1>11
<1>13. h[1] = n - q[w] * pow[w]
  BY <1>4, <1>12 DEF T
<1> QED BY <1>1, <1>2, <1>6, <1>8, <1>13

\* int.from_bytes after int.to_bytes: the number, if it fits, and its complement
\* if it is negative.
LEMMA DigitsBack ==
  ASSUME NEW n \in Int, NEW b \in Nat, b >= 2, NEW w \in Nat
  PROVE  /\ n \in 0 .. Power(b, w) - 1 => FromDigits(ToDigits(n, b, w), b) = n
         /\ n < 0 /\ n >= 0 - Power(b, w) =>
               FromDigits(ToDigits(n, b, w), b) = n + Power(b, w)
         /\ Quotients(n, b, w)[w] = 0 => FromDigits(ToDigits(n, b, w), b) = n
<1>1. PICK d, q, p : /\ d = FromDigits(ToDigits(n, b, w), b)
                     /\ q = Quotients(n, b, w)[w] /\ p = Power(b, w)
  OBVIOUS
<1>2. q \in Int /\ p \in Nat /\ p >= 1 /\ d = n - q * p
  <2>1. q \in Int
    BY <1>1, QuotientsAre
  <2>2. p \in Nat /\ p >= 1
    BY <1>1, PowerIs
  <2>3. d = n - q * p
    BY <1>1, DigitsOf, Zenon
  <2> QED BY <2>1, <2>2, <2>3
<1>3. d \in 0 .. p - 1
  BY <1>1, ToDigitsType, DigitsBelow
<1>4. CASE q = 0
  <2>1. d = n
    BY <1>2, <1>4
  <2> QED BY <1>1, <1>2, <1>3, <2>1
<1>5. CASE q = 0 - 1
  <2>1. d = n + p
    BY <1>2, <1>5
  <2> QED BY <1>1, <1>2, <1>3, <1>5, <2>1
<1>6. CASE q >= 1
  <2>1. 1 * p <= q * p
    BY <1>2, <1>6, TimesMonotone
  <2>2. PICK qp : qp = q * p
    OBVIOUS
  <2>3. p <= qp /\ qp \in Int /\ d = n - qp
    BY <1>2, <2>1, <2>2
  <2>4. n >= p
    BY <1>2, <1>3, <2>3
  <2> QED BY <1>1, <1>2, <1>6, <2>4
<1>7. CASE q <= 0 - 2
  <2>1. q * p <= (0 - 2) * p
    BY <1>2, <1>7, TimesMonotone
  <2>2. PICK qp : qp = q * p
    OBVIOUS
  <2>3. qp <= 0 - 2 * p /\ qp \in Int /\ d = n - qp
    BY <1>2, <2>1, <2>2
  <2>4. n < 0 - p
    BY <1>2, <1>3, <2>3
  <2> QED BY <1>1, <1>2, <1>7, <2>4
<1> QED BY <1>2, <1>4, <1>5, <1>6, <1>7
=============================================================================
