--------------------------- MODULE AccountingProofs ---------------------------
(***************************************************************************)
(* What the operators of Accounting compute, for every number of parties,  *)
(* every K and every S.                                                    *)
(*                                                                         *)
(* Total is a recursive function of the prefix length, and so its facts    *)
(* need induction.  The induction principle is stated of a set of naturals *)
(* (NatSetInduction), which makes it a first-order fact the provers can    *)
(* use, and follows from the least-number principle.                       *)
(***************************************************************************)
EXTENDS Accounting, FoldProofs

-----------------------------------------------------------------------------
(***************************************************************************)
(* Total: the prefix sums of a vector exist, so that the recursive         *)
(* function in Total's definition is the one its equation says.            *)
(***************************************************************************)
Vectors == [Parties -> Int]

IsPrefixSum(g, f, n) ==
    g = [i \in 0 .. n |-> IF i = 0 THEN 0 ELSE g[i - 1] + f[i - 1]]

LEMMA PrefixSumExists ==
  ASSUME NEW f, NEW n \in Nat
  PROVE  \E g : IsPrefixSum(g, f, n)
<1> DEFINE T == {m \in Nat : \E g : IsPrefixSum(g, f, m)}
<1>1. 0 \in T
  <2> DEFINE g == [i \in 0 .. 0 |-> 0]
  <2>1. IsPrefixSum(g, f, 0)
    BY DEF IsPrefixSum
  <2> QED BY <2>1
<1>2. ASSUME NEW m \in Nat, m \in T PROVE m + 1 \in T
  <2>1. PICK g : IsPrefixSum(g, f, m)
    BY <1>2
  <2> DEFINE h == [i \in 0 .. m + 1 |-> IF i <= m THEN g[i] ELSE g[m] + f[m]]
  <2>2. ASSUME NEW i \in 0 .. m + 1
        PROVE  h[i] = IF i = 0 THEN 0 ELSE h[i - 1] + f[i - 1]
    BY <2>1 DEF IsPrefixSum
  <2>3. IsPrefixSum(h, f, m + 1)
    BY <2>2 DEF IsPrefixSum
  <2> QED BY <2>3
<1> HIDE DEF T
<1>3. Nat \subseteq T
  BY <1>1, <1>2, NatSetInduction
<1>4. n \in T
  BY <1>3
<1> QED BY <1>4 DEF T

\* Total(f) is the last prefix sum, and the prefix sums of a vector of
\* integers are integers.
LEMMA TotalIsPrefixSum ==
  ASSUME NEW f
  PROVE  \E g : IsPrefixSum(g, f, N) /\ Total(f) = g[N]
<1> DEFINE sum == CHOOSE g : g = [i \in 0 .. N |-> IF i = 0 THEN 0 ELSE g[i - 1] + f[i - 1]]
<1>1. IsPrefixSum(sum, f, N)
  BY PrefixSumExists, ConfigAssumption DEF IsPrefixSum
<1>2. Total(f) = sum[N]
  BY DEF Total
<1> QED BY <1>1, <1>2

\* Induction along the parties.
LEMMA PrefixInduction ==
  ASSUME NEW T, 0 \in T, \A p \in Parties : p \in T => p + 1 \in T
  PROVE  0 .. N \subseteq T
<1> DEFINE U == {n \in Nat : n <= N => n \in T}
<1>1. 0 \in U
  OBVIOUS
<1>2. ASSUME NEW n \in Nat, n \in U PROVE n + 1 \in U
  BY <1>2, ConfigAssumption DEF Parties
<1> HIDE DEF U
<1>3. Nat \subseteq U
  BY <1>1, <1>2, NatSetInduction
<1> QED BY <1>3, ConfigAssumption DEF U

\* What Total's recursive function computes, step by step.
LEMMA TotalPrefix ==
  ASSUME NEW f \in Vectors
  PROVE  \E g \in [0 .. N -> Int] :
           /\ g[0] = 0
           /\ \A p \in Parties : g[p + 1] = g[p] + f[p]
           /\ Total(f) = g[N]
<1>1. PICK g : IsPrefixSum(g, f, N) /\ Total(f) = g[N]
  BY TotalIsPrefixSum
<1>2. g[0] = 0 /\ \A p \in Parties : g[p + 1] = g[p] + f[p]
  BY <1>1, ConfigAssumption DEF IsPrefixSum, Parties
<1> DEFINE T == {i \in 0 .. N : g[i] \in Int}
<1>3. 0 \in T
  BY <1>2, ConfigAssumption
<1>4. ASSUME NEW p \in Parties, p \in T PROVE p + 1 \in T
  BY <1>2, <1>4, ConfigAssumption DEF Parties, Vectors
<1> HIDE DEF T
<1>5. 0 .. N \subseteq T
  BY <1>3, <1>4, PrefixInduction
<1>6. g \in [0 .. N -> Int]
  <2>1. \A i \in 0 .. N : g[i] \in Int
    BY <1>5 DEF T
  <2>2. g = [i \in 0 .. N |-> g[i]]
    BY <1>1 DEF IsPrefixSum
  <2> QED BY <2>1, <2>2
<1> QED BY <1>1, <1>2, <1>6

LEMMA TotalType ==
  ASSUME NEW f \in Vectors
  PROVE  Total(f) \in Int
  BY TotalPrefix, ConfigAssumption

\* The total of a sum of vectors.
LEMMA TotalAdd ==
  ASSUME NEW f \in Vectors, NEW g \in Vectors, NEW h \in Vectors,
         \A p \in Parties : h[p] = f[p] + g[p]
  PROVE  Total(h) = Total(f) + Total(g)
<1>1. PICK F \in [0 .. N -> Int] : /\ F[0] = 0 /\ Total(f) = F[N]
                                  /\ \A p \in Parties : F[p + 1] = F[p] + f[p]
  BY TotalPrefix
<1>2. PICK G \in [0 .. N -> Int] : /\ G[0] = 0 /\ Total(g) = G[N]
                                  /\ \A p \in Parties : G[p + 1] = G[p] + g[p]
  BY TotalPrefix
<1>3. PICK H \in [0 .. N -> Int] : /\ H[0] = 0 /\ Total(h) = H[N]
                                  /\ \A p \in Parties : H[p + 1] = H[p] + h[p]
  BY TotalPrefix
<1> DEFINE T == {i \in 0 .. N : H[i] = F[i] + G[i]}
<1>4. 0 \in T
  BY <1>1, <1>2, <1>3, ConfigAssumption
<1>5. ASSUME NEW p \in Parties, p \in T PROVE p + 1 \in T
  <2>1. p \in 0 .. N /\ p + 1 \in 0 .. N
    BY ConfigAssumption DEF Parties
  <2>2. f[p] \in Int /\ g[p] \in Int /\ h[p] = f[p] + g[p]
    BY DEF Vectors
  <2> QED BY <1>1, <1>2, <1>3, <1>5, <2>1, <2>2
<1> HIDE DEF T
<1>6. 0 .. N \subseteq T
  BY <1>4, <1>5, PrefixInduction
<1>7. N \in T
  BY <1>6, ConfigAssumption
<1> QED BY <1>1, <1>2, <1>3, <1>7 DEF T

\* The total of a multiple of a vector.
LEMMA TotalScale ==
  ASSUME NEW f \in Vectors, NEW g \in Vectors, NEW c \in Int,
         \A p \in Parties : g[p] = c * f[p]
  PROVE  Total(g) = c * Total(f)
<1>1. PICK F \in [0 .. N -> Int] : /\ F[0] = 0 /\ Total(f) = F[N]
                                  /\ \A p \in Parties : F[p + 1] = F[p] + f[p]
  BY TotalPrefix
<1>2. PICK G \in [0 .. N -> Int] : /\ G[0] = 0 /\ Total(g) = G[N]
                                  /\ \A p \in Parties : G[p + 1] = G[p] + g[p]
  BY TotalPrefix
<1> DEFINE T == {i \in 0 .. N : G[i] = c * F[i]}
<1>4. 0 \in T
  BY <1>1, <1>2, ConfigAssumption
<1>5. ASSUME NEW p \in Parties, p \in T PROVE p + 1 \in T
  <2>1. p \in 0 .. N /\ p + 1 \in 0 .. N /\ F[p] \in Int /\ f[p] \in Int /\ G[p] = c * F[p]
    BY <1>5, ConfigAssumption DEF Parties, Vectors
  <2>2. c * (F[p] + f[p]) = c * F[p] + c * f[p]
    BY <2>1
  <2> QED BY <1>1, <1>2, <2>1, <2>2
<1> HIDE DEF T
<1>6. 0 .. N \subseteq T
  BY <1>4, <1>5, PrefixInduction
<1>7. N \in T
  BY <1>6, ConfigAssumption
<1> QED BY <1>1, <1>2, <1>7 DEF T

\* A vector that is nowhere larger has no larger total.
LEMMA TotalMonotone ==
  ASSUME NEW f \in Vectors, NEW g \in Vectors,
         \A p \in Parties : f[p] <= g[p]
  PROVE  Total(f) <= Total(g)
<1>1. PICK F \in [0 .. N -> Int] : /\ F[0] = 0 /\ Total(f) = F[N]
                                  /\ \A p \in Parties : F[p + 1] = F[p] + f[p]
  BY TotalPrefix
<1>2. PICK G \in [0 .. N -> Int] : /\ G[0] = 0 /\ Total(g) = G[N]
                                  /\ \A p \in Parties : G[p + 1] = G[p] + g[p]
  BY TotalPrefix
<1> DEFINE T == {i \in 0 .. N : F[i] <= G[i]}
<1>4. 0 \in T
  BY <1>1, <1>2, ConfigAssumption
<1>5. ASSUME NEW p \in Parties, p \in T PROVE p + 1 \in T
  <2>1. p \in 0 .. N /\ p + 1 \in 0 .. N
    BY ConfigAssumption DEF Parties
  <2>2. f[p] \in Int /\ g[p] \in Int /\ f[p] <= g[p]
    BY DEF Vectors
  <2> QED BY <1>1, <1>2, <1>5, <2>1, <2>2
<1> HIDE DEF T
<1>6. 0 .. N \subseteq T
  BY <1>4, <1>5, PrefixInduction
<1>7. N \in T
  BY <1>6, ConfigAssumption
<1> QED BY <1>1, <1>2, <1>7 DEF T

\* The total of the vector that counts the members of a set of parties.
Indicator(W) == [p \in Parties |-> IF p \in W THEN 1 ELSE 0]

LEMMA TotalIndicator ==
  ASSUME NEW W, W \subseteq Parties
  PROVE  IsFiniteSet(W) /\ Total(Indicator(W)) = Cardinality(W)
<1>1. Indicator(W) \in Vectors
  BY DEF Indicator, Vectors
<1>2. PICK G \in [0 .. N -> Int] :
        /\ G[0] = 0 /\ Total(Indicator(W)) = G[N]
        /\ \A p \in Parties : G[p + 1] = G[p] + Indicator(W)[p]
  BY <1>1, TotalPrefix
<1> DEFINE Below(i) == {p \in W : p < i}
           T == {i \in 0 .. N : IsFiniteSet(Below(i)) /\ G[i] = Cardinality(Below(i))}
<1>a. \A p \in W : p \in Int /\ 0 <= p /\ p < N
  BY ConfigAssumption DEF Parties
<1>3. 0 \in T
  <2>1. Below(0) = {}
    <3>1. \A p \in W : ~(p < 0)
      BY <1>a
    <3> QED BY <3>1
  <2>2. 0 \in 0 .. N
    BY ConfigAssumption
  <2> QED BY <1>2, <2>1, <2>2, FS_EmptySet
<1>4. ASSUME NEW p \in Parties, p \in T PROVE p + 1 \in T
  <2>1. p \in 0 .. N /\ p + 1 \in 0 .. N /\ p \notin Below(p) /\ p \in Int
    BY ConfigAssumption DEF Parties
  <2>2. Below(p + 1) = IF p \in W THEN Below(p) \cup {p} ELSE Below(p)
    <3>1. \A q \in W : q < p + 1 <=> q < p \/ q = p
      BY <1>a, <2>1
    <3> QED BY <2>1, <3>1
  <2>3. IsFiniteSet(Below(p)) /\ G[p] = Cardinality(Below(p))
    BY <1>4
  <2>4. G[p + 1] = IF p \in W THEN G[p] + 1 ELSE G[p]
    BY <1>2, <2>1 DEF Indicator
  <2> HIDE DEF Below
  <2>5. IsFiniteSet(Below(p + 1)) /\ G[p + 1] = Cardinality(Below(p + 1))
    BY <2>1, <2>2, <2>3, <2>4, FS_AddElement
  <2> QED BY <2>1, <2>5
<1>5. Below(N) = W
  BY <1>a
<1> HIDE DEF T, Below
<1>6. 0 .. N \subseteq T
  BY <1>3, <1>4, PrefixInduction
<1>7. N \in T
  BY <1>6, ConfigAssumption
<1> QED BY <1>2, <1>5, <1>7 DEF T

-----------------------------------------------------------------------------
(***************************************************************************)
(* initial_state and transfer() conserve the channel.                      *)
(***************************************************************************)

\* A vector with one entry that may differ from 0.
Unit(q, c) == [p \in Parties |-> IF p = q THEN c ELSE 0]

LEMMA TotalUnit ==
  ASSUME NEW q \in Parties, NEW c \in Int
  PROVE  Unit(q, c) \in Vectors /\ Total(Unit(q, c)) = c
<1>1. Unit(q, c) \in Vectors /\ Indicator({q}) \in Vectors
  BY DEF Unit, Indicator, Vectors
<1>2. \A p \in Parties : Unit(q, c)[p] = c * Indicator({q})[p]
  BY DEF Unit, Indicator
<1>3. Total(Unit(q, c)) = c * Total(Indicator({q}))
  BY <1>1, <1>2, TotalScale
<1>4. Total(Indicator({q})) = 1
  BY TotalIndicator, FS_Singleton
<1> QED BY <1>1, <1>3, <1>4

\* The funder's initial allocation is the whole channel.
LEMMA InitialConserved == InitialBalances \in Allocations /\ Conserved(InitialBalances)
<1>1. MicroUnits \in Nat /\ 0 \in Parties
  BY ConfigAssumption DEF MicroUnits, Parties
<1>2. InitialBalances = Unit(0, MicroUnits)
  BY DEF InitialBalances, Unit
<1> QED BY <1>1, <1>2, TotalUnit DEF Conserved, Allocations, InitialBalances

\* A transfer that does not raise returns an allocation of the same total.
LEMMA TransferConserves ==
  ASSUME NEW b \in Allocations, NEW s \in Parties, NEW r \in Parties, NEW d \in Nat,
         TransferOK(b, s, r, d)
  PROVE  /\ Transfer(b, s, r, d) \in Allocations
         /\ Total(Transfer(b, s, r, d)) = Total(b)
<1> DEFINE t == Transfer(b, s, r, d)
           mid == [p \in Parties |-> b[p] + Unit(s, -d)[p]]
<1>1. t \in Allocations
  BY DEF TransferOK, Transfer, Allocations
<1>2. /\ Unit(s, -d) \in Vectors /\ Total(Unit(s, -d)) = -d
      /\ Unit(r, d) \in Vectors /\ Total(Unit(r, d)) = d
  <2>1. d \in Int /\ -d \in Int
    OBVIOUS
  <2> QED BY <2>1, TotalUnit
<1>3. b \in Vectors /\ t \in Vectors /\ mid \in Vectors
  BY <1>1, <1>2 DEF Allocations, Vectors
<1>4. Total(mid) = Total(b) + (-d)
  BY <1>2, <1>3, TotalAdd
<1>5. \A p \in Parties : t[p] = mid[p] + Unit(r, d)[p]
  BY DEF TransferOK, Transfer, Unit, Allocations
<1>6. Total(t) = Total(mid) + d
  <2> HIDE DEF t, mid
  <2> QED BY <1>2, <1>3, <1>5, TotalAdd
<1>7. Total(b) \in Int
  BY <1>3, TotalType
<1> QED BY <1>1, <1>4, <1>6, <1>7

-----------------------------------------------------------------------------
(***************************************************************************)
(* quantise.                                                               *)
(***************************************************************************)

\* The remainders the parties are ranked by.
Remainders(b) == [p \in Parties |-> b[p] % K]

LEMMA DivMod ==
  ASSUME NEW x \in Nat
  PROVE  /\ x \div K \in Nat /\ x % K \in 0 .. K - 1
         /\ x = K * (x \div K) + (x % K)
  BY ConfigAssumption

\* R, the number of satoshis the floors leave over, is the total of the
\* remainders in satoshis, and so lies between 0 and n - 1.
LEMMA LeftoverBounds ==
  ASSUME NEW b \in Allocations, Conserved(b)
  PROVE  /\ Floors(b) \in Vectors /\ Total(Floors(b)) \in Int
         /\ Leftover(b) \in 0 .. N - 1
         /\ Remainders(b) \in Vectors /\ Total(Remainders(b)) = K * Leftover(b)
<1> DEFINE F == Floors(b)
           R == Remainders(b)
           KF == [p \in Parties |-> K * F[p]]
           Ones == [p \in Parties |-> 1]
           Top == [p \in Parties |-> K - 1]
           Zero == [p \in Parties |-> 0]
<1>1. \A p \in Parties : /\ F[p] \in Nat /\ R[p] \in 0 .. K - 1
                         /\ b[p] = K * F[p] + R[p]
  <2> SUFFICES ASSUME NEW p \in Parties
               PROVE  /\ F[p] \in Nat /\ R[p] \in 0 .. K - 1
                      /\ b[p] = K * F[p] + R[p]
    OBVIOUS
  <2>1. b[p] \in Nat
    BY DEF Allocations
  <2> QED BY <2>1, DivMod DEF Floors, Remainders
<1>2. K * 1 = K /\ K \in Int /\ K - 1 \in Int /\ \A x \in Int : K * x \in Int
  BY ConfigAssumption
<1>3. /\ F \in Vectors /\ R \in Vectors /\ b \in Vectors /\ KF \in Vectors
      /\ Ones \in Vectors /\ Top \in Vectors /\ Zero \in Vectors
  BY <1>1, <1>2 DEF Floors, Remainders, Allocations, Vectors
<1>4. Total(b) = Total(KF) + Total(R)
  <2>1. \A p \in Parties : b[p] = KF[p] + R[p]
    BY <1>1
  <2> QED BY <1>3, <2>1, TotalAdd
<1>5. Total(KF) = K * Total(F)
  BY <1>2, <1>3, TotalScale
<1>6. Total(Ones) = N
  <2>1. Ones = Indicator(Parties)
    BY DEF Indicator
  <2>2. Cardinality(Parties) = N
    BY FS_Interval, ConfigAssumption DEF Parties
  <2> QED BY <2>1, <2>2, TotalIndicator
<1>7. Total(Top) = (K - 1) * N
  <2>1. \A p \in Parties : Top[p] = (K - 1) * Ones[p]
    BY <1>2
  <2> QED BY <1>2, <1>3, <1>6, <2>1, TotalScale
<1>8. Total(Zero) = 0
  <2>1. \A p \in Parties : Zero[p] = 0 * Ones[p]
    OBVIOUS
  <2>2. 0 * N = 0
    BY ConfigAssumption
  <2> QED BY <1>3, <1>6, <2>1, <2>2, TotalScale
<1>9. 0 <= Total(R) /\ Total(R) <= (K - 1) * N
  <2>1. \A p \in Parties : Zero[p] <= R[p] /\ R[p] <= Top[p]
    BY <1>1, ConfigAssumption
  <2> HIDE DEF R, Zero, Top
  <2> QED BY <1>3, <1>7, <1>8, <2>1, TotalMonotone
<1>10. Total(F) \in Int /\ Total(R) \in Int
  BY <1>3, TotalType
<1> HIDE DEF F, R
<1>11. ASSUME NEW f \in Int, NEW t \in Int, K * S = K * f + t, 0 <= t, t <= (K - 1) * N
       PROVE  S - f \in 0 .. N - 1 /\ t = K * (S - f)
  <2>1. K * (S - f) = t
    BY <1>11, ConfigAssumption
  <2>2. S - f >= 0
    BY <1>11, <2>1, ConfigAssumption
  <2>3. (K - 1) * N < K * N
    BY ConfigAssumption
  <2>4. ~(S - f >= N)
    <3>1. SUFFICES ASSUME S - f >= N PROVE FALSE
      OBVIOUS
    <3>2. K * (S - f) >= K * N
      BY <3>1, ConfigAssumption
    <3> QED BY <1>11, <2>1, <2>3, <3>2, ConfigAssumption
  <2> QED BY <2>1, <2>2, <2>4, ConfigAssumption
<1>12. K * S = K * Total(F) + Total(R)
  BY <1>4, <1>5 DEF Conserved, MicroUnits
<1>13. S - Total(F) \in 0 .. N - 1 /\ Total(R) = K * (S - Total(F))
  BY <1>9, <1>10, <1>11, <1>12
<1> QED BY <1>3, <1>10, <1>13 DEF F, R, Leftover

\* The order quantise sorts by is total.
LEMMA BeforeIsTotalOrder ==
  ASSUME NEW b \in Allocations
  PROVE  /\ \A i \in Parties : ~Before(b, i, i)
         /\ \A i, j \in Parties : i # j => Before(b, i, j) \/ Before(b, j, i)
         /\ \A i, j, k \in Parties :
              Before(b, i, j) /\ Before(b, j, k) => Before(b, i, k)
<1>1. \A i \in Parties : i \in Int /\ b[i] % K \in Int
  <2>1. \A i \in Parties : b[i] \in Nat /\ i \in Int
    BY DEF Allocations, Parties
  <2> QED BY <2>1, DivMod
<1> DEFINE m == [i \in Parties |-> b[i] % K]
<1>2. \A i, j \in Parties :
        Before(b, i, j) <=> \/ m[i] > m[j]
                            \/ m[i] = m[j] /\ i < j
  BY DEF Before
<1>3. \A i \in Parties : i \in Int /\ m[i] \in Int
  BY <1>1
<1> HIDE DEF m
<1>4. \A i \in Parties : ~Before(b, i, i)
  BY <1>2, <1>3
<1>5. \A i, j \in Parties : i # j => Before(b, i, j) \/ Before(b, j, i)
  BY <1>2, <1>3
<1>6. ASSUME NEW i \in Parties, NEW j \in Parties, NEW k \in Parties,
             Before(b, i, j), Before(b, j, k)
      PROVE  Before(b, i, k)
  BY <1>2, <1>3, <1>6
<1> QED BY <1>4, <1>5, <1>6

\* The place of a party in that order, counted from 0.
Preceding(b, i) == {j \in Parties : Before(b, j, i)}
Rank(b, i) == Cardinality(Preceding(b, i))

LEMMA PartiesFinite == IsFiniteSet(Parties) /\ Cardinality(Parties) = N
  BY FS_Interval, ConfigAssumption DEF Parties

LEMMA RankProperties ==
  ASSUME NEW b \in Allocations
  PROVE  /\ \A i \in Parties : Rank(b, i) \in Parties
         /\ \A i, j \in Parties : Before(b, i, j) => Rank(b, i) < Rank(b, j)
<1>1. ASSUME NEW i \in Parties
      PROVE  /\ IsFiniteSet(Preceding(b, i)) /\ Rank(b, i) \in Nat
             /\ IsFiniteSet(Preceding(b, i) \cup {i})
             /\ Cardinality(Preceding(b, i) \cup {i}) = Rank(b, i) + 1
  <2>1. Preceding(b, i) \in SUBSET Parties
    BY DEF Preceding
  <2>2. i \notin Preceding(b, i)
    BY BeforeIsTotalOrder DEF Preceding
  <2>3. IsFiniteSet(Preceding(b, i))
    BY <2>1, PartiesFinite, FS_Subset
  <2> QED BY <2>2, <2>3, FS_CardinalityType, FS_AddElement DEF Rank
<1>2. ASSUME NEW i \in Parties PROVE Rank(b, i) \in Parties
  <2>1. Preceding(b, i) \cup {i} \in SUBSET Parties
    BY DEF Preceding
  <2>2. Rank(b, i) + 1 <= N
    BY <1>1, <2>1, PartiesFinite, FS_Subset
  <2>3. Rank(b, i) \in Nat
    BY <1>1
  <2> QED BY <2>2, <2>3, ConfigAssumption DEF Parties
<1>3. ASSUME NEW i \in Parties, NEW j \in Parties, Before(b, i, j)
      PROVE  Rank(b, i) < Rank(b, j)
  <2>1. Preceding(b, i) \cup {i} \in SUBSET Preceding(b, j)
    BY <1>3, BeforeIsTotalOrder DEF Preceding
  <2>2. Cardinality(Preceding(b, i) \cup {i}) <= Cardinality(Preceding(b, j))
    BY <1>1, <2>1, FS_Subset
  <2>3. Cardinality(Preceding(b, j)) = Rank(b, j)
    BY DEF Rank
  <2>4. /\ Rank(b, i) \in Nat /\ Rank(b, j) \in Nat
        /\ Cardinality(Preceding(b, i) \cup {i}) = Rank(b, i) + 1
    BY <1>1
  <2> QED BY <2>2, <2>3, <2>4
<1> QED BY <1>2, <1>3

\* Exactly n parties have one of the first n places.
LEMMA FirstPlaces ==
  ASSUME NEW b \in Allocations, NEW n \in 0 .. N
  PROVE  Cardinality({i \in Parties : Rank(b, i) < n}) = n
<1> DEFINE f == [i \in Parties |-> Rank(b, i)]
           W == {i \in Parties : Rank(b, i) < n}
           g == [i \in W |-> Rank(b, i)]
<1>1. f \in [Parties -> Parties]
  BY RankProperties
<1>2. \A i, j \in Parties : Rank(b, i) = Rank(b, j) => i = j
  <2> SUFFICES ASSUME NEW i \in Parties, NEW j \in Parties,
                      Rank(b, i) = Rank(b, j), i # j
               PROVE  FALSE
    OBVIOUS
  <2>1. Rank(b, i) \in Int /\ Rank(b, j) \in Int
    BY RankProperties DEF Parties
  <2>2. Rank(b, i) < Rank(b, j) \/ Rank(b, j) < Rank(b, i)
    BY BeforeIsTotalOrder, RankProperties
  <2> QED BY <2>1, <2>2
<1>3. f \in Injection(Parties, Parties)
  BY <1>1, <1>2 DEF Injection, IsInjective
<1>4. f \in Surjection(Parties, Parties)
  BY <1>3, PartiesFinite, FS_Injection
<1>5. \A k \in Parties : \E i \in Parties : Rank(b, i) = k
  BY <1>4 DEF Surjection
<1>6. g \in Bijection(W, 0 .. n - 1)
  <2>1. \A i \in W : Rank(b, i) \in 0 .. n - 1
    BY RankProperties, ConfigAssumption DEF Parties
  <2>2. g \in [W -> 0 .. n - 1]
    BY <2>1
  <2>3. g \in Injection(W, 0 .. n - 1)
    BY <1>2, <2>2 DEF Injection, IsInjective
  <2>4. \A k \in 0 .. n - 1 : \E i \in W : g[i] = k
    <3> SUFFICES ASSUME NEW k \in 0 .. n - 1 PROVE \E i \in W : g[i] = k
      OBVIOUS
    <3>1. k \in Parties /\ k < n
      BY ConfigAssumption DEF Parties
    <3>2. PICK i \in Parties : Rank(b, i) = k
      BY <1>5, <3>1
    <3>3. i \in W /\ g[i] = k
      BY <3>1, <3>2
    <3> QED BY <3>3
  <2>5. g \in Surjection(W, 0 .. n - 1)
    BY <2>2, <2>4 DEF Surjection
  <2> QED BY <2>3, <2>5 DEF Bijection
<1>7. IsFiniteSet(W)
  BY PartiesFinite, FS_Subset
<1> HIDE DEF W, g
<1>8. Cardinality(0 .. n - 1) = Cardinality(W)
  BY <1>6, <1>7, FS_Bijection DEF ExistsBijection
<1>9. Cardinality(0 .. n - 1) = n
  <2>1. n \in Int /\ n - 1 \in Int /\ n >= 0
    OBVIOUS
  <2> QED BY <2>1, FS_Interval
<1> QED BY <1>8, <1>9 DEF W

\* Q-star pays out the funded satoshis, no more and no less, whatever the
\* balances: the floors, and one more to each of the first R parties.
LEMMA QuantiseTotal ==
  ASSUME NEW b \in Allocations, Conserved(b)
  PROVE  /\ Quantise(b) \in [Parties -> Nat]
         /\ Total(Quantise(b)) = S
<1> DEFINE W == Winners(b)
<1>1. /\ Floors(b) \in [Parties -> Nat] /\ Floors(b) \in Vectors
      /\ Total(Floors(b)) \in Int /\ Leftover(b) \in 0 .. N - 1
  <2>1. \A p \in Parties : b[p] \in Nat
    BY DEF Allocations
  <2>2. \A p \in Parties : b[p] \div K \in Nat
    BY <2>1, DivMod
  <2> QED BY <2>2, LeftoverBounds DEF Floors
<1>2. W \subseteq Parties /\ Cardinality(W) = Leftover(b)
  <2>1. W = {i \in Parties : Rank(b, i) < Leftover(b)}
    BY DEF Winners, Rank, Preceding
  <2>2. Leftover(b) \in 0 .. N
    BY <1>1, ConfigAssumption
  <2> QED BY <2>1, <2>2, FirstPlaces
<1>3. Total(Indicator(W)) = Leftover(b)
  BY <1>2, TotalIndicator
<1>4. Indicator(W) \in Vectors
  BY DEF Indicator, Vectors
<1>5. /\ Quantise(b) \in [Parties -> Nat]
      /\ \A p \in Parties : Quantise(b)[p] = Floors(b)[p] + Indicator(W)[p]
  BY <1>1 DEF Quantise, Indicator
<1>6. Quantise(b) \in Vectors
  BY <1>5 DEF Vectors
<1>7. Total(Quantise(b)) = Total(Floors(b)) + Leftover(b)
  BY <1>1, <1>3, <1>4, <1>5, <1>6, TotalAdd
<1> QED BY <1>1, <1>5, <1>7, ConfigAssumption DEF Leftover

-----------------------------------------------------------------------------
(***************************************************************************)
(* The order of the winners.                                               *)
(***************************************************************************)

\* What quantise pays a party.
LEMMA QuantiseEntry ==
  ASSUME NEW b \in Allocations, NEW p \in Parties
  PROVE  /\ Floors(b)[p] \in Nat /\ Remainders(b)[p] \in 0 .. K - 1
         /\ b[p] = K * Floors(b)[p] + Remainders(b)[p]
         /\ Quantise(b)[p] = Floors(b)[p] + (IF p \in Winners(b) THEN 1 ELSE 0)
         /\ p \in Winners(b) <=> Rank(b, p) < Leftover(b)
<1>1. b[p] \in Nat
  BY DEF Allocations
<1> QED BY <1>1, DivMod DEF Floors, Remainders, Quantise, Winners, Rank, Preceding

\* A party with the larger remainder comes first.
LEMMA LargerRemainderFirst ==
  ASSUME NEW b \in Allocations, NEW p \in Parties, NEW w \in Parties,
         Remainders(b)[p] > Remainders(b)[w]
  PROVE  Before(b, p, w)
  BY DEF Before, Remainders

\* No party without an extra satoshi has a larger remainder than one with.
LEMMA WinnersLead ==
  ASSUME NEW b \in Allocations, Conserved(b), NEW w \in Winners(b),
         NEW p \in Parties, p \notin Winners(b)
  PROVE  Remainders(b)[p] <= Remainders(b)[w]
<1>1. w \in Parties
  BY DEF Winners
<1>2. Remainders(b)[p] \in Int /\ Remainders(b)[w] \in Int
  BY <1>1, QuantiseEntry, ConfigAssumption
<1>3. SUFFICES ASSUME Remainders(b)[p] > Remainders(b)[w] PROVE FALSE
  BY <1>2
<1>4. Rank(b, p) < Rank(b, w)
  BY <1>1, <1>3, LargerRemainderFirst, RankProperties
<1>5. Rank(b, p) \in Int /\ Rank(b, w) \in Int /\ Leftover(b) \in Int
  BY <1>1, RankProperties, LeftoverBounds DEF Parties
<1>6. Rank(b, w) < Leftover(b) /\ ~(Rank(b, p) < Leftover(b))
  BY <1>1, QuantiseEntry
<1> QED BY <1>4, <1>5, <1>6

\* An extra satoshi goes only to a party that was rounded down.
LEMMA WinnersWereRounded ==
  ASSUME NEW b \in Allocations, Conserved(b), NEW w \in Winners(b)
  PROVE  Remainders(b)[w] >= 1
<1> DEFINE R == Remainders(b)
           L == Leftover(b)
           P == Preceding(b, w)
           C == [p \in Parties |-> (K - 1) * Indicator(P)[p]]
<1>1. w \in Parties
  BY DEF Winners
<1>2. \A p \in Parties : R[p] \in 0 .. K - 1
  BY QuantiseEntry
<1>3. SUFFICES ASSUME R[w] = 0 PROVE FALSE
  BY <1>1, <1>2, ConfigAssumption
<1>4. P \subseteq Parties /\ Indicator(P) \in Vectors
  BY DEF Preceding, Indicator, Vectors
<1>5. Total(Indicator(P)) = Rank(b, w)
  BY <1>4, TotalIndicator DEF Rank
<1>6. K - 1 \in Int /\ \A x \in Int : (K - 1) * x \in Int
  BY ConfigAssumption
<1>7. C \in Vectors
  BY <1>4, <1>6 DEF Vectors
<1>8. Total(C) = (K - 1) * Rank(b, w)
  BY <1>4, <1>5, <1>6, <1>7, TotalScale
<1>9. \A p \in Parties : R[p] <= C[p]
  <2> SUFFICES ASSUME NEW p \in Parties PROVE R[p] <= C[p]
    OBVIOUS
  <2>1. CASE R[p] = 0
    <3>1. C[p] = 0 \/ C[p] = K - 1
      BY ConfigAssumption DEF Indicator
    <3> QED BY <2>1, <3>1, ConfigAssumption
  <2>2. CASE R[p] # 0
    <3>1. Before(b, p, w)
      BY <1>1, <1>2, <1>3, <2>2, LargerRemainderFirst, ConfigAssumption
    <3>2. C[p] = K - 1
      BY <3>1, ConfigAssumption DEF Preceding, Indicator
    <3> QED BY <1>2, <3>2, ConfigAssumption
  <2> QED BY <2>1, <2>2
<1>10. R \in Vectors /\ Total(R) = K * L /\ L \in Nat
  BY LeftoverBounds
<1>11. K * L <= (K - 1) * Rank(b, w)
  <2> HIDE DEF R, C, L
  <2> QED BY <1>7, <1>8, <1>9, <1>10, TotalMonotone
<1>12. Rank(b, w) \in Nat /\ Rank(b, w) < L
  BY <1>1, RankProperties, QuantiseEntry DEF Parties
<1> HIDE DEF R, C, L
<1>13. ASSUME NEW l \in Nat, NEW k \in Nat, k < l, K * l <= (K - 1) * k PROVE FALSE
  <2>1. K * k + K <= K * l
    <3>1. K * (k + 1) <= K * l
      BY <1>13, ConfigAssumption
    <3> QED BY <3>1, ConfigAssumption
  <2>2. (K - 1) * k = K * k - k
    BY ConfigAssumption
  <2>3. K * k \in Int /\ K * l \in Int
    BY ConfigAssumption
  <2> QED BY <1>13, <2>1, <2>2, <2>3, ConfigAssumption
<1> QED BY <1>10, <1>11, <1>12, <1>13
=============================================================================
