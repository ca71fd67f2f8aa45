--------------------------- MODULE AlgorithmsProofs ---------------------------
(***************************************************************************)
(* The pure algorithms, for every value of their parameters.               *)
(*                                                                         *)
(* Q-star settles a channel, whatever the number of parties, K, S and the  *)
(* transfers: the payouts are exact, within a satoshi of each share,       *)
(* closest in total, and fair to a transfer.                               *)
(*                                                                         *)
(* Every output is spent by the signatures its path requires and by no     *)
(* others: counts are read back as they were pushed, each opcode is a      *)
(* lemma about the stack it finds, each path is run by them token by       *)
(* token, and signing keeps what the runs ask of the signatures.           *)
(***************************************************************************)
EXTENDS Algorithms, AccountingProofs

\* What every step of transfer() keeps.
BalancesInv == alloc \in Allocations /\ Conserved(alloc)

LEMMA BalancesInvariant == AlgorithmsSpec => []BalancesInv
<1>1. AlgorithmsInit => BalancesInv
  BY InitialConserved DEF AlgorithmsInit, BalancesInv
<1>2. BalancesInv /\ [AlgorithmsNext]_algorithmVars => BalancesInv'
  <2> SUFFICES ASSUME BalancesInv, [AlgorithmsNext]_algorithmVars PROVE BalancesInv'
    OBVIOUS
  <2>1. ASSUME NEW s \in Parties, NEW r \in Parties, NEW d \in 0 .. MicroUnits,
               ApplyTransfer(s, r, d)
        PROVE  BalancesInv'
    <3>1. d \in Nat
      BY ConfigAssumption DEF MicroUnits
    <3> QED BY <2>1, <3>1, TransferConserves
            DEF ApplyTransfer, BalancesInv, Conserved
  <2>2. CASE UNCHANGED alloc
    BY <2>2 DEF BalancesInv
  <2> QED BY <2>1, <2>2 DEF AlgorithmsNext, algorithmVars
<1> QED BY <1>1, <1>2, PTL DEF AlgorithmsSpec

-----------------------------------------------------------------------------
\* The distance of a payout x from the share K * f + r, compared with that of
\* the payout q: no closer than q, up to a price of K - 2 * t per satoshi.
LEMMA PriceBound ==
  ASSUME NEW f \in Nat, NEW r \in 0 .. K - 1, NEW t \in 0 .. K, NEW x \in Int,
         NEW q \in Int,
         \/ q = f /\ r <= t
         \/ q = f + 1 /\ t <= r
  PROVE  Abs(q * K - (K * f + r)) + (K - 2 * t) * (x - q) <= Abs(x * K - (K * f + r))
<1>1. K \in Nat /\ K >= 1 /\ r \in Int /\ t \in Int
  BY ConfigAssumption
<1> DEFINE y == x - f
<1>2. y \in Int /\ x = f + y
  OBVIOUS
<1> HIDE DEF y
<1>3. x * K - (K * f + r) = y * K - r
  BY <1>1, <1>2
<1>4. CASE q = f /\ r <= t
  <2>1. q * K - (K * f + r) = -r /\ x - q = y
    BY <1>1, <1>2, <1>4
  <2>2. (K - 2 * t) * y = y * K - 2 * (y * t)
    BY <1>1, <1>2
  <2>3. y * K \in Int /\ y * t \in Int
    BY <1>1, <1>2
  <2>4. CASE y >= 1
    <3>1. K <= y * K /\ t <= y * t
      BY <1>1, <1>2, <2>4
    <3>2. Abs(-r) = r /\ Abs(y * K - r) = y * K - r
      BY <1>1, <2>3, <3>1 DEF Abs
    <3>3. r + (K - 2 * t) * y <= y * K - r
      BY <1>1, <1>4, <2>2, <2>3, <3>1
    <3> QED BY <1>3, <2>1, <3>2, <3>3
  <2>5. CASE y = 0
    <3>1. y * K = 0 /\ (K - 2 * t) * y = 0
      BY <1>1, <2>5
    <3>2. Abs(-r) \in Int
      BY <1>1 DEF Abs
    <3>3. y * K - r = -r
      BY <1>1, <3>1
    <3> QED BY <1>3, <2>1, <3>1, <3>2, <3>3
  <2>6. CASE y <= -1
    <3>1. y * K <= y * t
      BY <1>1, <1>2, <2>6
    <3>2. y * K <= 0
      BY <1>1, <1>2, <2>6
    <3>3. Abs(-r) = r /\ Abs(y * K - r) = r - y * K
      BY <1>1, <2>3, <3>2 DEF Abs
    <3>4. r + (K - 2 * t) * y <= r - y * K
      BY <1>1, <2>2, <2>3, <3>1
    <3> QED BY <1>3, <2>1, <3>3, <3>4
  <2> QED BY <1>2, <2>4, <2>5, <2>6
<1>5. CASE q = f + 1 /\ t <= r
  <2> DEFINE z == 1 - y
  <2>0. z \in Int /\ y = 1 - z
    BY <1>2
  <2> HIDE DEF z
  <2>1. q * K - (K * f + r) = K - r /\ x - q = -z
    BY <1>1, <1>2, <1>5, <2>0
  <2>2. (K - 2 * t) * (-z) = 2 * (z * t) - z * K /\ y * K = K - z * K
    BY <1>1, <2>0
  <2>3. z * K \in Int /\ z * t \in Int
    BY <1>1, <2>0
  <2>4. CASE z >= 1
    <3>1. K - t <= z * (K - t) /\ z * (K - t) = z * K - z * t
      BY <1>1, <2>0, <2>4
    <3>2. K <= z * K
      BY <1>1, <2>0, <2>4
    <3>3. Abs(K - r) = K - r /\ Abs(y * K - r) = r - y * K
      BY <1>1, <2>2, <2>3, <3>2 DEF Abs
    <3>4. K - r + (K - 2 * t) * (-z) <= r - y * K
      BY <1>1, <1>5, <2>2, <2>3, <3>1
    <3> QED BY <1>3, <2>1, <3>3, <3>4
  <2>5. CASE z <= 0
    <3>1. z * t <= 0 /\ z * K <= 0
      BY <1>1, <2>0, <2>5
    <3>2. Abs(K - r) = K - r /\ Abs(y * K - r) = y * K - r
      BY <1>1, <2>2, <2>3, <3>1 DEF Abs
    <3>3. K - r + (K - 2 * t) * (-z) <= y * K - r
      BY <1>1, <2>2, <2>3, <3>1
    <3> QED BY <1>3, <2>1, <3>2, <3>3
  <2> QED BY <2>0, <2>4, <2>5
<1> QED BY <1>4, <1>5

\* A remainder that separates the parties with an extra satoshi from those
\* without.
LEMMA Threshold ==
  ASSUME NEW b \in Allocations, Conserved(b)
  PROVE  \E t \in 0 .. K : \A p \in Parties :
            IF p \in Winners(b) THEN t <= Remainders(b)[p] ELSE Remainders(b)[p] <= t
<1> DEFINE R == Remainders(b)
           T == {R[w] : w \in Winners(b)}
<1>1. \A p \in Parties : R[p] \in 0 .. K - 1
  BY QuantiseEntry
<1>2. Winners(b) \subseteq Parties
  BY DEF Winners
<1>3. CASE Winners(b) = {}
  <2>1. \A p \in Parties : R[p] <= K
    BY <1>1, ConfigAssumption
  <2> QED BY <1>3, <2>1, ConfigAssumption
<1>4. CASE Winners(b) # {}
  <2>1. T \subseteq Nat /\ T # {}
    BY <1>1, <1>2, <1>4, ConfigAssumption
  <2>2. PICK t \in T : \A y \in T : t <= y
    BY <2>1, LeastNatural
  <2>3. PICK v \in Winners(b) : t = R[v]
    OBVIOUS
  <2>4. t \in 0 .. K
    BY <1>1, <1>2, <2>3, ConfigAssumption
  <2>5. \A p \in Parties : IF p \in Winners(b) THEN t <= R[p] ELSE R[p] <= t
    BY <2>2, <2>3, WinnersLead
  <2> QED BY <2>4, <2>5
<1> QED BY <1>3, <1>4

\* No other split of S into whole satoshis is closer to the shares in total.
LEMMA QuantiseIsClosest ==
  ASSUME NEW b \in Allocations, Conserved(b),
         NEW x \in [Parties -> 0 .. S], Total(x) = S
  PROVE  Deviation(Quantise(b), b) <= Deviation(x, b)
<1> DEFINE q == Quantise(b)
           Dq == [p \in Parties |-> Abs(q[p] * K - b[p])]
           Dx == [p \in Parties |-> Abs(x[p] * K - b[p])]
           diff == [p \in Parties |-> x[p] - q[p]]
<1>1. PICK t \in 0 .. K : \A p \in Parties :
        IF p \in Winners(b) THEN t <= Remainders(b)[p] ELSE Remainders(b)[p] <= t
  BY Threshold
<1> DEFINE c == K - 2 * t
           price == [p \in Parties |-> c * diff[p]]
           low == [p \in Parties |-> Dq[p] + price[p]]
<1>2. q \in [Parties -> Nat] /\ Total(q) = S
  BY QuantiseTotal
<1>3. /\ q \in Vectors /\ x \in Vectors /\ diff \in Vectors
      /\ \A p \in Parties : b[p] \in Int
  BY <1>2 DEF Vectors, Allocations
<1>4. c \in Int /\ K \in Int /\ \A a \in Int : c * a \in Int /\ a * K \in Int
  BY ConfigAssumption
<1>5. price \in Vectors
  BY <1>3, <1>4 DEF Vectors
<1>6. Dq \in Vectors /\ Dx \in Vectors
  <2>1. \A p \in Parties : q[p] * K - b[p] \in Int /\ x[p] * K - b[p] \in Int
    BY <1>3, <1>4 DEF Vectors
  <2> QED BY <2>1 DEF Vectors, Abs
<1>7. low \in Vectors
  BY <1>5, <1>6 DEF Vectors
<1>8. Total(diff) = 0
  <2>1. \A p \in Parties : x[p] = q[p] + diff[p]
    BY <1>3 DEF Vectors
  <2>2. Total(x) = Total(q) + Total(diff)
    <3> HIDE DEF q, diff
    <3> QED BY <1>3, <2>1, TotalAdd
  <2>3. Total(diff) \in Int
    BY <1>3, TotalType
  <2> QED BY <1>2, <2>2, <2>3, ConfigAssumption
<1>9. Total(price) = 0
  <2>1. Total(price) = c * Total(diff)
    <3> HIDE DEF diff, c
    <3> QED BY <1>3, <1>4, <1>5, TotalScale
  <2> QED BY <1>4, <1>8, <2>1
<1>10. Total(low) = Total(Dq)
  <2> HIDE DEF Dq, price
  <2>1. Total(low) = Total(Dq) + Total(price)
    BY <1>5, <1>6, <1>7, TotalAdd
  <2> QED BY <1>6, <1>9, <2>1, TotalType
<1>11. \A p \in Parties : low[p] <= Dx[p]
  <2> SUFFICES ASSUME NEW p \in Parties PROVE low[p] <= Dx[p]
    OBVIOUS
  <2>1. /\ Floors(b)[p] \in Nat /\ Remainders(b)[p] \in 0 .. K - 1
        /\ b[p] = K * Floors(b)[p] + Remainders(b)[p]
        /\ q[p] = Floors(b)[p] + (IF p \in Winners(b) THEN 1 ELSE 0)
    BY QuantiseEntry
  <2>2. q[p] \in Int /\ x[p] \in Int
    BY <1>3 DEF Vectors
  <2>3. \/ q[p] = Floors(b)[p] /\ Remainders(b)[p] <= t
        \/ q[p] = Floors(b)[p] + 1 /\ t <= Remainders(b)[p]
    BY <1>1, <2>1
  <2> HIDE DEF q
  <2>4. Abs(q[p] * K - b[p]) + c * (x[p] - q[p]) <= Abs(x[p] * K - b[p])
    BY <2>1, <2>2, <2>3, PriceBound
  <2> QED BY <2>4
<1>12. Total(low) <= Total(Dx)
  <2> HIDE DEF low, Dx
  <2> QED BY <1>6, <1>7, <1>11, TotalMonotone
<1> QED BY <1>10, <1>12 DEF Deviation

\* Every payout is less than one satoshi away from the party's share.
LEMMA QuantiseIsNear ==
  ASSUME NEW b \in Allocations, Conserved(b), NEW p \in Parties
  PROVE  Abs(Quantise(b)[p] * K - b[p]) < K
<1> DEFINE f == Floors(b)[p]
           r == Remainders(b)[p]
<1>1. /\ f \in Nat /\ r \in 0 .. K - 1 /\ b[p] = K * f + r
      /\ Quantise(b)[p] = f + (IF p \in Winners(b) THEN 1 ELSE 0)
  BY QuantiseEntry
<1>2. p \in Winners(b) => r >= 1
  BY WinnersWereRounded
<1> HIDE DEF f, r
<1>3. /\ (f + 1) * K - (K * f + r) = K - r
      /\ (f + 0) * K - (K * f + r) = -r
  BY <1>1, ConfigAssumption
<1> QED BY <1>1, <1>2, <1>3, ConfigAssumption DEF Abs

\* accounting.py, quantise: whatever the transfers, the balances are conserved
\* and Q-star settles them exactly, within a satoshi of every share and as
\* close in total as whole satoshis allow.
THEOREM QuantiseAlwaysSettles == AlgorithmsSpec => []QuantiseSettles
<1>1. ASSUME BalancesInv PROVE QuantiseSettles
  BY <1>1, LeftoverBounds, QuantiseTotal, QuantiseIsNear, QuantiseIsClosest
     DEF BalancesInv, QuantiseSettles
<1> QED BY <1>1, BalancesInvariant, PTL

-----------------------------------------------------------------------------
(***************************************************************************)
(* What a transfer does to the settlement.                                 *)
(***************************************************************************)

\* A smaller balance has no larger floor, and with the same floor no larger
\* remainder.
LEMMA DivMonotone ==
  ASSUME NEW f \in Nat, NEW r \in 0 .. K - 1, NEW g \in Nat, NEW q \in 0 .. K - 1,
         K * f + r <= K * g + q
  PROVE  f <= g /\ (f = g => r <= q)
<1>1. K \in Nat /\ K >= 1 /\ r \in Int /\ q \in Int /\ K * f \in Int /\ K * g \in Int
  BY ConfigAssumption
<1>2. f <= g
  <2>1. SUFFICES ASSUME f >= g + 1 PROVE FALSE
    OBVIOUS
  <2>2. K * f >= K * (g + 1) /\ K * (g + 1) = K * g + K
    BY <1>1, <2>1
  <2> QED BY <1>1, <2>2
<1>3. f = g => r <= q
  BY <1>1
<1> QED BY <1>2, <1>3

\* The facts about a transfer that decide the payouts.
LEMMA TransferEffect ==
  ASSUME NEW b \in Allocations, Conserved(b), NEW s \in Parties, NEW r \in Parties,
         NEW d \in Nat, TransferOK(b, s, r, d),
         NEW a, a = Transfer(b, s, r, d)
  PROVE  /\ a \in Allocations /\ Conserved(a)
         /\ \A p \in Parties \ {s, r} : /\ Floors(a)[p] = Floors(b)[p]
                                         /\ Remainders(a)[p] = Remainders(b)[p]
         /\ Floors(a)[s] <= Floors(b)[s]
         /\ Floors(a)[s] = Floors(b)[s] => Remainders(a)[s] <= Remainders(b)[s]
         /\ Floors(b)[r] <= Floors(a)[r]
         /\ Floors(b)[r] = Floors(a)[r] => Remainders(b)[r] <= Remainders(a)[r]
         /\ Leftover(a) = Leftover(b) + (Floors(b)[s] - Floors(a)[s])
                                      - (Floors(a)[r] - Floors(b)[r])
<1>1. a \in Allocations /\ Conserved(a)
  BY TransferConserves DEF Conserved
<1>2. /\ s # r /\ a[s] <= b[s] /\ b[r] <= a[r]
      /\ \A p \in Parties \ {s, r} : a[p] = b[p]
  BY DEF TransferOK, Transfer, Allocations
<1>3. \A p \in Parties \ {s, r} : /\ Floors(a)[p] = Floors(b)[p]
                                  /\ Remainders(a)[p] = Remainders(b)[p]
  BY <1>2 DEF Floors, Remainders
<1>4. \A p \in Parties : /\ Floors(a)[p] \in Nat /\ Remainders(a)[p] \in 0 .. K - 1
                         /\ Floors(b)[p] \in Nat /\ Remainders(b)[p] \in 0 .. K - 1
                         /\ a[p] = K * Floors(a)[p] + Remainders(a)[p]
                         /\ b[p] = K * Floors(b)[p] + Remainders(b)[p]
  BY <1>1, QuantiseEntry
<1>5. /\ Floors(a)[s] <= Floors(b)[s]
      /\ Floors(a)[s] = Floors(b)[s] => Remainders(a)[s] <= Remainders(b)[s]
  BY <1>2, <1>4, DivMonotone
<1>6. /\ Floors(b)[r] <= Floors(a)[r]
      /\ Floors(b)[r] = Floors(a)[r] => Remainders(b)[r] <= Remainders(a)[r]
  BY <1>2, <1>4, DivMonotone
<1>7. Leftover(a) = Leftover(b) + (Floors(b)[s] - Floors(a)[s])
                                - (Floors(a)[r] - Floors(b)[r])
  <2> DEFINE u == Floors(a)[s] - Floors(b)[s]
             v == Floors(a)[r] - Floors(b)[r]
             mid == [p \in Parties |-> Floors(b)[p] + Unit(s, u)[p]]
  <2>1. u \in Int /\ v \in Int
    BY <1>4
  <2>2. /\ Unit(s, u) \in Vectors /\ Total(Unit(s, u)) = u
        /\ Unit(r, v) \in Vectors /\ Total(Unit(r, v)) = v
    <3> HIDE DEF u, v
    <3> QED BY <2>1, TotalUnit
  <2>3. /\ Floors(a) \in Vectors /\ Floors(b) \in Vectors
        /\ Total(Floors(a)) \in Int /\ Total(Floors(b)) \in Int
    BY <1>1, LeftoverBounds
  <2>4. mid \in Vectors
    BY <2>2, <2>3 DEF Vectors
  <2>5. Total(mid) = Total(Floors(b)) + u
    BY <2>2, <2>3, <2>4, TotalAdd
  <2>6. \A p \in Parties : Floors(a)[p] = mid[p] + Unit(r, v)[p]
    BY <1>2, <1>3, <1>4 DEF Unit
  <2>7. Total(Floors(a)) = Total(mid) + v
    <3> HIDE DEF mid
    <3> QED BY <2>2, <2>3, <2>4, <2>6, TotalAdd
  <2> QED BY <1>4, <2>3, <2>5, <2>7, ConfigAssumption DEF Leftover
<1> QED BY <1>1, <1>3, <1>5, <1>6, <1>7

\* Before, in terms of the remainders.
LEMMA BeforeByRemainder ==
  ASSUME NEW b \in Allocations, NEW i \in Parties, NEW j \in Parties
  PROVE  Before(b, i, j) <=> \/ Remainders(b)[i] > Remainders(b)[j]
                             \/ Remainders(b)[i] = Remainders(b)[j] /\ i < j
  BY DEF Before, Remainders

\* A party's place falls by at most the others that stop preceding it.
LEMMA RankCompare ==
  ASSUME NEW b \in Allocations, NEW a \in Allocations, NEW p \in Parties,
         NEW x \in Parties, Preceding(b, p) \subseteq Preceding(a, p) \cup {x}
  PROVE  /\ Rank(b, p) <= Rank(a, p) + 1
         /\ Preceding(b, p) \subseteq Preceding(a, p) => Rank(b, p) <= Rank(a, p)
<1>1. Preceding(a, p) \in SUBSET Parties
  BY DEF Preceding
<1>2. IsFiniteSet(Preceding(a, p)) /\ Rank(a, p) \in Nat
  BY <1>1, PartiesFinite, FS_Subset, FS_CardinalityType DEF Rank
<1>3. /\ IsFiniteSet(Preceding(a, p) \cup {x})
      /\ Cardinality(Preceding(a, p) \cup {x}) <= Rank(a, p) + 1
  BY <1>2, FS_AddElement DEF Rank
<1>4. Preceding(b, p) \in SUBSET (Preceding(a, p) \cup {x})
  OBVIOUS
<1>5. Rank(b, p) <= Cardinality(Preceding(a, p) \cup {x})
  BY <1>3, <1>4, FS_Subset DEF Rank
<1>6. Rank(b, p) \in Int /\ Cardinality(Preceding(a, p) \cup {x}) \in Int
  BY <1>3, RankProperties, FS_CardinalityType DEF Parties
<1>7. Preceding(b, p) \subseteq Preceding(a, p) => Rank(b, p) <= Rank(a, p)
  BY <1>2, FS_Subset DEF Rank
<1> QED BY <1>2, <1>3, <1>5, <1>6, <1>7

\* The sender of a transfer is paid no more at settlement, its recipient no
\* less, and nobody else's payout moves by more than a satoshi.
LEMMA TransferMovesPayouts ==
  ASSUME NEW b \in Allocations, Conserved(b), NEW s \in Parties, NEW r \in Parties,
         NEW d \in Nat, TransferOK(b, s, r, d),
         NEW a, a = Transfer(b, s, r, d)
  PROVE  /\ Quantise(a)[s] <= Quantise(b)[s]
         /\ Quantise(a)[r] >= Quantise(b)[r]
         /\ \A p \in Parties \ {s, r} : Abs(Quantise(a)[p] - Quantise(b)[p]) <= 1
<1> DEFINE Fa == Floors(a)
           Fb == Floors(b)
           Ra == Remainders(a)
           Rb == Remainders(b)
<1>1. /\ a \in Allocations /\ Conserved(a)
      /\ \A p \in Parties \ {s, r} : Fa[p] = Fb[p] /\ Ra[p] = Rb[p]
      /\ Fa[s] <= Fb[s] /\ (Fa[s] = Fb[s] => Ra[s] <= Rb[s])
      /\ Fb[r] <= Fa[r] /\ (Fb[r] = Fa[r] => Rb[r] <= Ra[r])
      /\ Leftover(a) = Leftover(b) + (Fb[s] - Fa[s]) - (Fa[r] - Fb[r])
  BY TransferEffect
<1>2. \A p \in Parties :
        /\ Fa[p] \in Nat /\ Fb[p] \in Nat /\ Ra[p] \in Int /\ Rb[p] \in Int /\ p \in Int
        /\ Quantise(a)[p] = Fa[p] + (IF p \in Winners(a) THEN 1 ELSE 0)
        /\ Quantise(b)[p] = Fb[p] + (IF p \in Winners(b) THEN 1 ELSE 0)
        /\ p \in Winners(a) <=> Rank(a, p) < Leftover(a)
        /\ p \in Winners(b) <=> Rank(b, p) < Leftover(b)
  BY <1>1, QuantiseEntry, ConfigAssumption DEF Parties
<1>3. /\ Leftover(a) \in Int /\ Leftover(b) \in Int
      /\ \A p \in Parties : Rank(a, p) \in Int /\ Rank(b, p) \in Int
  BY <1>1, LeftoverBounds, RankProperties DEF Parties
<1>4. /\ \A i, j \in Parties : Before(a, i, j) <=> \/ Ra[i] > Ra[j]
                                                   \/ Ra[i] = Ra[j] /\ i < j
      /\ \A i, j \in Parties : Before(b, i, j) <=> \/ Rb[i] > Rb[j]
                                                   \/ Rb[i] = Rb[j] /\ i < j
  BY <1>1, BeforeByRemainder
<1> HIDE DEF Fa, Fb, Ra, Rb
<1>5. s # r
  BY DEF TransferOK
<1>6. Quantise(a)[s] <= Quantise(b)[s]
  <2>1. CASE Fa[s] # Fb[s]
    BY <1>1, <1>2, <2>1
  <2>2. CASE Fa[s] = Fb[s]
    <3>1. SUFFICES ASSUME s \in Winners(a) PROVE s \in Winners(b)
      BY <1>2, <2>2
    <3>2. Ra[s] <= Rb[s]
      BY <1>1, <2>2
    <3>3. ASSUME NEW j \in Parties \ {r}, Before(b, j, s) PROVE Before(a, j, s)
      <4>1. j # s
        BY <1>2, <1>4, <3>3
      <4>2. Ra[j] = Rb[j]
        BY <1>1, <4>1
      <4> QED BY <1>2, <1>4, <3>2, <3>3, <4>2
    <3>4. Preceding(b, s) \subseteq Preceding(a, s) \cup {r}
      BY <3>3 DEF Preceding
    <3>5. CASE Fa[r] # Fb[r]
      <4>1. Leftover(a) <= Leftover(b) - 1
        BY <1>1, <1>2, <1>3, <2>2, <3>5
      <4>2. Rank(b, s) <= Rank(a, s) + 1
        BY <1>1, <3>4, RankCompare
      <4> QED BY <1>2, <1>3, <3>1, <4>1, <4>2
    <3>6. CASE Fa[r] = Fb[r]
      <4>1. Leftover(a) = Leftover(b)
        BY <1>1, <1>2, <1>3, <2>2, <3>6
      <4>2. Rb[r] <= Ra[r]
        BY <1>1, <3>6
      <4>3. Before(b, r, s) => Before(a, r, s)
        BY <1>2, <1>4, <3>2, <4>2
      <4>4. Preceding(b, s) \subseteq Preceding(a, s)
        BY <3>3, <4>3 DEF Preceding
      <4>5. Rank(b, s) <= Rank(a, s)
        BY <1>1, <3>4, <4>4, RankCompare
      <4> QED BY <1>2, <1>3, <3>1, <4>1, <4>5
    <3> QED BY <3>5, <3>6
  <2> QED BY <2>1, <2>2
<1>7. Quantise(a)[r] >= Quantise(b)[r]
  <2>1. CASE Fa[r] # Fb[r]
    BY <1>1, <1>2, <2>1
  <2>2. CASE Fa[r] = Fb[r]
    <3>1. SUFFICES ASSUME r \in Winners(b) PROVE r \in Winners(a)
      BY <1>2, <2>2
    <3>2. Rb[r] <= Ra[r]
      BY <1>1, <2>2
    <3>3. ASSUME NEW j \in Parties \ {s}, Before(a, j, r) PROVE Before(b, j, r)
      <4>1. j # r
        BY <1>2, <1>4, <3>3
      <4>2. Ra[j] = Rb[j]
        BY <1>1, <4>1
      <4> QED BY <1>2, <1>4, <3>2, <3>3, <4>2
    <3>4. Preceding(a, r) \subseteq Preceding(b, r) \cup {s}
      BY <3>3 DEF Preceding
    <3>5. CASE Fa[s] # Fb[s]
      <4>1. Leftover(a) >= Leftover(b) + 1
        BY <1>1, <1>2, <1>3, <2>2, <3>5
      <4>2. Rank(a, r) <= Rank(b, r) + 1
        BY <1>1, <3>4, RankCompare
      <4> QED BY <1>2, <1>3, <3>1, <4>1, <4>2
    <3>6. CASE Fa[s] = Fb[s]
      <4>1. Leftover(a) = Leftover(b)
        BY <1>1, <1>2, <1>3, <2>2, <3>6
      <4>2. Ra[s] <= Rb[s]
        BY <1>1, <3>6
      <4>3. Before(a, s, r) => Before(b, s, r)
        BY <1>2, <1>4, <3>2, <4>2
      <4>4. Preceding(a, r) \subseteq Preceding(b, r)
        BY <3>3, <4>3 DEF Preceding
      <4>5. Rank(a, r) <= Rank(b, r)
        BY <1>1, <3>4, <4>4, RankCompare
      <4> QED BY <1>2, <1>3, <3>1, <4>1, <4>5
    <3> QED BY <3>5, <3>6
  <2> QED BY <2>1, <2>2
<1>8. ASSUME NEW p \in Parties \ {s, r}
      PROVE  Abs(Quantise(a)[p] - Quantise(b)[p]) <= 1
  <2>1. Fa[p] = Fb[p]
    BY <1>1
  <2> QED BY <1>2, <2>1 DEF Abs
<1> QED BY <1>6, <1>7, <1>8

\* accounting.py, transfer and quantise: a transfer never pays its sender more
\* at settlement, nor its recipient less, and moves nobody else's payout by
\* more than a satoshi.
THEOREM TransfersAreFair == AlgorithmsSpec => TransferIsFair
<1> DEFINE Fair ==
      \A s, r \in Parties, d \in 0 .. MicroUnits :
        (TransferOK(alloc, s, r, d) /\ alloc' = Transfer(alloc, s, r, d)) =>
            LET q == Quantise(alloc)  n == Quantise(alloc') IN
            /\ n[s] <= q[s] /\ n[r] >= q[r]
            /\ \A p \in Parties \ {s, r} : Abs(n[p] - q[p]) <= 1
<1>1. ASSUME BalancesInv PROVE Fair
  <2> SUFFICES ASSUME NEW s \in Parties, NEW r \in Parties, NEW d \in 0 .. MicroUnits,
                      TransferOK(alloc, s, r, d), alloc' = Transfer(alloc, s, r, d)
               PROVE  /\ Quantise(alloc')[s] <= Quantise(alloc)[s]
                      /\ Quantise(alloc')[r] >= Quantise(alloc)[r]
                      /\ \A p \in Parties \ {s, r} :
                           Abs(Quantise(alloc')[p] - Quantise(alloc)[p]) <= 1
    BY DEF Fair
  <2>1. d \in Nat
    BY ConfigAssumption DEF MicroUnits
  <2> QED BY <1>1, <2>1, TransferMovesPayouts DEF BalancesInv
<1> HIDE DEF Fair
<1>2. BalancesInv => [Fair]_algorithmVars
  BY <1>1
<1>3. AlgorithmsSpec => [][Fair]_algorithmVars
  BY <1>2, BalancesInvariant, PTL
<1> QED BY <1>3 DEF TransferIsFair, Fair

-----------------------------------------------------------------------------
(***************************************************************************)
(* Script numbers.                                                         *)
(***************************************************************************)
\* Quotients of two lengths agree where both are defined.
LEMMA QuotientsAgree ==
  ASSUME NEW n \in Int, NEW b \in Nat, b >= 2, NEW v \in Nat, NEW w \in Nat, v <= w
  PROVE  \A i \in 0 .. v : Quotients(n, b, v)[i] = Quotients(n, b, w)[i]
<1> DEFINE p == Quotients(n, b, v)
           q == Quotients(n, b, w)
           T == {i \in 0 .. v : p[i] = q[i]}
<1>1. /\ p[0] = n /\ \A i \in 1 .. v : p[i] = p[i - 1] \div b
      /\ q[0] = n /\ \A i \in 1 .. w : q[i] = q[i - 1] \div b
  BY QuotientsAre
<1> HIDE DEF p, q
<1>2. 0 \in T /\ \A i \in 1 .. v : i - 1 \in T => i \in T
  BY <1>1
<1> HIDE DEF T
<1>3. 0 .. v \subseteq T
  BY <1>2, SetInduction
<1> QED BY <1>3 DEF T, p, q

\* The digits of a number in base 256.
LEMMA BytesAre ==
  ASSUME NEW n \in Int, NEW w \in Nat
  PROVE  /\ Quotients(n, 256, w) \in [0 .. w -> Int]
         /\ Quotients(n, 256, w)[0] = n
         /\ \A i \in 1 .. w : Quotients(n, 256, w)[i] = Quotients(n, 256, w)[i - 1] \div 256
         /\ ToDigits(n, 256, w) \in Seq(0 .. 255) /\ ToDigits(n, 256, w) \in Seq(Int)
         /\ Len(ToDigits(n, 256, w)) = w
         /\ \A v \in 0 .. w : \A i \in 0 .. v :
               Quotients(n, 256, v)[i] = Quotients(n, 256, w)[i]
<1> SUFFICES ASSUME NEW b, b = 256
             PROVE  /\ Quotients(n, b, w) \in [0 .. w -> Int]
                    /\ Quotients(n, b, w)[0] = n
                    /\ \A i \in 1 .. w : Quotients(n, b, w)[i] = Quotients(n, b, w)[i - 1] \div b
                    /\ ToDigits(n, b, w) \in Seq(0 .. 255) /\ ToDigits(n, b, w) \in Seq(Int)
                    /\ Len(ToDigits(n, b, w)) = w
                    /\ \A v \in 0 .. w : \A i \in 0 .. v :
                          Quotients(n, b, v)[i] = Quotients(n, b, w)[i]
  BY Zenon
<1>1. b \in Nat /\ b >= 2
  OBVIOUS
<1>2. /\ Quotients(n, b, w) \in [0 .. w -> Int]
      /\ Quotients(n, b, w)[0] = n
      /\ \A i \in 1 .. w : Quotients(n, b, w)[i] = Quotients(n, b, w)[i - 1] \div b
  BY <1>1, QuotientsAre
<1>3. ToDigits(n, b, w) \in Seq(Int) /\ Len(ToDigits(n, b, w)) = w
  BY <1>1, ToDigitsType
<1>4. ToDigits(n, b, w) \in Seq(0 .. 255)
  <2>1. PICK s, q : s = ToDigits(n, b, w) /\ q = Quotients(n, b, w)
    OBVIOUS
  <2>2. s = [i \in 1 .. w |-> q[i - 1] % b]
    BY <2>1 DEF ToDigits
  <2>3. \A i \in 1 .. w : q[i - 1] \in Int
    BY <1>2, <2>1
  <2>4. \A v \in Int : v % b \in 0 .. 255
    OBVIOUS
  <2>5. s \in [1 .. w -> 0 .. 255]
    BY <2>2, <2>3, <2>4
  <2> QED BY <2>1, <2>5, SeqDef
<1>6. \A v \in 0 .. w : \A i \in 0 .. v : Quotients(n, b, v)[i] = Quotients(n, b, w)[i]
  <2> SUFFICES ASSUME NEW v \in 0 .. w
               PROVE  \A i \in 0 .. v : Quotients(n, b, v)[i] = Quotients(n, b, w)[i]
    BY Zenon
  <2>1. v \in Nat /\ v <= w
    OBVIOUS
  <2> QED BY <1>1, <2>1, QuotientsAgree
<1> QED BY <1>1, <1>2, <1>3, <1>4, <1>6

LEMMA BytesBack ==
  ASSUME NEW n \in Int, NEW w \in Nat, Quotients(n, 256, w)[w] = 0
  PROVE  FromDigits(ToDigits(n, 256, w), 256) = n
<1> SUFFICES ASSUME NEW b, b = 256, Quotients(n, b, w)[w] = 0
             PROVE  FromDigits(ToDigits(n, b, w), b) = n
  BY Zenon
<1>1. b \in Nat /\ b >= 2
  OBVIOUS
<1> QED BY <1>1, DigitsBack

\* A positive number is run out of bytes after as many shifts at most.
LEMMA QuotientsEnd ==
  ASSUME NEW n \in Nat
  PROVE  Quotients(n, 256, n)[n] = 0
<1> DEFINE q == Quotients(n, 256, n)
           T == {i \in 0 .. n : q[i] \in 0 .. n - i}
<1>1. /\ q \in [0 .. n -> Int] /\ q[0] = n
      /\ \A i \in 1 .. n : q[i] = q[i - 1] \div 256
  BY BytesAre
<1> HIDE DEF q
<1>2. 0 \in T
  BY <1>1
<1>3. ASSUME NEW i \in 1 .. n, i - 1 \in T PROVE i \in T
  <2>1. q[i - 1] \in 0 .. n - i + 1 /\ q[i] = q[i - 1] \div 256
    BY <1>1, <1>3
  <2>2. q[i] \in 0 .. n - i
    BY <2>1
  <2> QED BY <2>2
<1> HIDE DEF T
<1>4. 0 .. n \subseteq T
  BY <1>2, <1>3, SetInduction
<1>5. n \in T /\ n - n = 0
  BY <1>4
<1> QED BY <1>5 DEF T, q

\* The bytes that _encode_script_num shifts out of a positive number: as many as
\* hold it, the last one not zero.
LEMMA MagnitudeIs ==
  ASSUME NEW n \in Nat
  PROVE  \E w \in 0 .. n : /\ Magnitude(n) = ToDigits(n, 256, w)
                           /\ Quotients(n, 256, w)[w] = 0
                           /\ n # 0 => w # 0
<1> DEFINE q == Quotients(n, 256, n)
           P(w) == q[w] = 0 /\ \A v \in 0 .. w - 1 : q[v] # 0
           w == CHOOSE w \in 0 .. n : P(w)
<1>1. Magnitude(n) = ToDigits(n, 256, w)
  <2>1. ~(n < 0)
    OBVIOUS
  <2> QED BY <2>1, Zenon DEF Magnitude
<1>2. \E x \in 0 .. n : P(x)
  <2> DEFINE T == {x \in 0 .. n : q[x] = 0}
  <2>1. T \subseteq Nat /\ n \in T
    BY QuotientsEnd
  <2> HIDE DEF q
  <2>2. PICK x \in T : \A y \in T : x <= y
    BY <2>1, LeastNatural
  <2>3. \A v \in 0 .. x - 1 : v \in 0 .. n /\ ~(x <= v)
    BY <2>2
  <2>4. P(x)
    BY <2>2, <2>3
  <2> QED BY <2>4
<1>3. w \in 0 .. n /\ P(w)
  <2> HIDE DEF P
  <2> QED BY <1>2, Zenon
<1>4. Quotients(n, 256, w)[w] = q[w]
  <2>1. w \in 0 .. n /\ w \in 0 .. w
    BY <1>3
  <2> HIDE DEF w
  <2> QED BY <2>1, BytesAre
<1>5. q[0] = n
  BY BytesAre
<1> HIDE DEF w, q
<1>6. n # 0 => w # 0
  BY <1>3, <1>5
<1> QED BY <1>1, <1>3, <1>4, <1>6

\* What push_count pushes as a number, the interpreter reads as that number.
LEMMA NumberBack ==
  ASSUME NEW n \in Nat
  PROVE  /\ EncodeScriptNum(n) \in Seq(Nat)
         /\ DecodeScriptNum(EncodeScriptNum(n)) = n
<1>1. CASE n = 0
  <2>1. EncodeScriptNum(n) = << >>
    BY <1>1 DEF EncodeScriptNum
  <2>2. DecodeScriptNum(<< >>) = 0
    BY DEF DecodeScriptNum
  <2> QED BY <1>1, <2>1, <2>2, EmptySeq
<1>2. CASE n # 0
  <2>1. PICK w \in 0 .. n : /\ Magnitude(n) = ToDigits(n, 256, w)
                            /\ Quotients(n, 256, w)[w] = 0 /\ w # 0
    BY <1>2, MagnitudeIs
  <2>2. PICK m : m = Magnitude(n)
    OBVIOUS
  <2>3. m \in Seq(0 .. 255) /\ m \in Seq(Int) /\ Len(m) = w /\ w \in Nat
    <3>1. w \in Nat
      BY <2>1
    <3> QED BY <2>1, <2>2, <3>1, BytesAre
  <2>4. /\ DOMAIN m = 1 .. w /\ m # << >>
        /\ \A i \in 1 .. w : m[i] \in 0 .. 255
    <3>1. DOMAIN m = 1 .. w
      BY <2>3, LenProperties
    <3>2. \A i \in 1 .. w : m[i] \in 0 .. 255
      BY <2>3, ElementOfSeq
    <3>3. 1 \in 1 .. w
      BY <2>1
    <3> QED BY <3>1, <3>2, <3>3
  <2>5. m \in Seq(Nat)
    <3>1. m \in [1 .. w -> Nat]
      <4>1. \A i \in 1 .. w : m[i] \in Nat
        <5>1. \A x \in 0 .. 255 : x \in Nat
          OBVIOUS
        <5> QED BY <2>4, <5>1
      <4> QED BY <2>3, <2>4, <4>1, LenProperties
    <3> QED BY <2>3, <3>1, SeqDef
  <2>6. FromDigits(m, 256) = n
    <3>1. FromDigits(ToDigits(n, 256, w), 256) = n
      BY <2>1, <2>3, BytesBack
    <3> QED BY <2>1, <2>2, <3>1, Zenon
  <2>7. Last(m) = m[w]
    BY <2>3 DEF Last
  <2>8. CASE m[w] >= 128
    <3>1. PICK s : s = Append(m, 0)
      OBVIOUS
    <3>2. EncodeScriptNum(n) = s
      BY <1>2, <2>2, <2>7, <2>8, <3>1 DEF EncodeScriptNum
    <3>3. /\ s \in Seq(Nat) /\ Len(s) = w + 1 /\ s[w + 1] = 0
          /\ \A i \in 1 .. w : s[i] = m[i]
      BY <2>3, <2>4, <2>5, <3>1, AppendProperties
    <3>4. s # << >> /\ DOMAIN s = 1 .. w + 1 /\ Last(s) = 0
      BY <2>3, <3>3, LenProperties DEF Last
    <3>5. [s EXCEPT ![Len(s)] = @ % 128] = s
      <4>1. 0 % 128 = 0
        OBVIOUS
      <4> QED BY <3>3, <3>4, <4>1
    <3>6. s = ToDigits(n, 256, w + 1)
      <4>1. PICK d : d = ToDigits(n, 256, w + 1)
        OBVIOUS
      <4>2. d \in Seq(0 .. 255) /\ Len(d) = w + 1
        <5>1. w + 1 \in Nat
          BY <2>3
        <5> QED BY <4>1, <5>1, BytesAre
      <4>3. \A i \in 1 .. w + 1 : d[i] = Quotients(n, 256, w + 1)[i - 1] % 256
        BY <4>1 DEF ToDigits
      <4>4. \A i \in 0 .. w : Quotients(n, 256, w)[i] = Quotients(n, 256, w + 1)[i]
        <5>1. w + 1 \in Nat /\ w \in 0 .. w + 1
          BY <2>3
        <5> QED BY <5>1, BytesAre
      <4>5. \A i \in 1 .. w : m[i] = Quotients(n, 256, w)[i - 1] % 256
        BY <2>1, <2>2 DEF ToDigits
      <4>6. \A i \in 1 .. w : d[i] = m[i]
        <5> SUFFICES ASSUME NEW i \in 1 .. w PROVE d[i] = m[i]
          OBVIOUS
        <5>1. i \in 1 .. w + 1 /\ i - 1 \in 0 .. w
          BY <2>3
        <5> QED BY <4>3, <4>4, <4>5, <5>1
      <4>7. d[w + 1] = 0
        <5>1. w + 1 \in 1 .. w + 1 /\ (w + 1) - 1 = w /\ w \in 0 .. w
          BY <2>3
        <5>2. d[w + 1] = 0 % 256
          BY <2>1, <4>3, <4>4, <5>1
        <5> QED BY <5>2
      <4>8. \A i \in 1 .. w + 1 : s[i] = d[i]
        BY <2>3, <3>3, <4>6, <4>7
      <4>9. DOMAIN d = 1 .. w + 1
        BY <4>2, LenProperties
      <4> QED BY <3>3, <3>4, <4>1, <4>2, <4>8, <4>9, SeqEqual
    <3>7. Quotients(n, 256, w + 1)[w + 1] = 0
      <4>1. /\ w + 1 \in 1 .. w + 1 /\ (w + 1) - 1 = w /\ w + 1 \in Nat
            /\ w \in 0 .. w /\ w \in 0 .. w + 1
        BY <2>3
      <4>2. Quotients(n, 256, w + 1)[w] = 0
        <5>1. \A i \in 0 .. w : Quotients(n, 256, w)[i] = Quotients(n, 256, w + 1)[i]
          BY <2>3, <4>1, BytesAre
        <5> QED BY <2>1, <4>1, <5>1
      <4>3. Quotients(n, 256, w + 1)[w + 1] = Quotients(n, 256, w + 1)[w] \div 256
        BY <4>1, BytesAre
      <4>4. 0 \div 256 = 0
        OBVIOUS
      <4> QED BY <4>2, <4>3, <4>4
    <3>8. FromDigits(s, 256) = n
      <4>1. w + 1 \in Nat
        BY <2>3
      <4>2. FromDigits(ToDigits(n, 256, w + 1), 256) = n
        BY <3>7, <4>1, BytesBack
      <4> QED BY <3>6, <4>2, Zenon
    <3>9. DecodeScriptNum(s) = n
      <4>1. ~(Last(s) >= 128)
        BY <3>4
      <4> QED BY <3>4, <3>5, <3>8, <4>1, Zenon DEF DecodeScriptNum
    <3> QED BY <3>2, <3>3, <3>9
  <2>9. CASE ~(m[w] >= 128)
    <3>1. EncodeScriptNum(n) = m
      BY <1>2, <2>2, <2>7, <2>9 DEF EncodeScriptNum
    <3>2. [m EXCEPT ![Len(m)] = @ % 128] = m
      <4>1. m[w] \in 0 .. 127
        <5>1. m[w] \in 0 .. 255
          BY <2>1, <2>4
        <5> QED BY <2>9, <5>1
      <4>2. m[w] % 128 = m[w]
        BY <4>1
      <4> QED BY <2>3, <2>4, <4>2
    <3>3. DecodeScriptNum(m) = n
      BY <2>4, <2>6, <2>7, <2>9, <3>2 DEF DecodeScriptNum
    <3> QED BY <2>5, <3>1, <3>3
  <2> QED BY <2>8, <2>9
<1> QED BY <1>1, <1>2

\* A count, by OP_n or as a number, is read back.
LEMMA CountIs ==
  ASSUME NEW n \in Nat
  PROVE  \E bytes \in Seq(Nat) : /\ PushCount(n) = Push(It("num", bytes))
                                 /\ DecodeScriptNum(bytes) = n
<1>1. CASE n \in 1 .. 16
  <2>1. PICK s : s = <<n>>
    OBVIOUS
  <2>2. s \in Seq(Int) /\ s \in Seq(Nat) /\ Len(s) = 1 /\ s[1] = n /\ DOMAIN s = 1 .. 1
    BY <2>1
  <2>3. PushCount(n) = Push(It("num", s))
    BY <1>1, <2>1 DEF PushCount, PushNum, OpN
  <2>4. FromDigits(s, 256) = n
    <3>1. PICK h : DigitRun(h, s, 256)
      BY <2>2, DigitRunExists
    <3>2. h[2] = 0 /\ h[1] = h[2] * 256 + s[1] /\ FromDigits(s, 256) = h[1]
      BY <2>2, <3>1 DEF DigitRun
    <3> QED BY <2>2, <3>2
  <2>5. [s EXCEPT ![Len(s)] = @ % 128] = s
    <3>1. n % 128 = n
      BY <1>1
    <3> QED BY <2>2, <3>1
  <2>6. s # << >> /\ Last(s) = n
    BY <2>1, <2>2 DEF Last
  <2>7. DecodeScriptNum(s) = n
    BY <1>1, <2>4, <2>5, <2>6 DEF DecodeScriptNum
  <2> QED BY <2>2, <2>3, <2>7
<1>2. CASE n = 0
  <2>1. PushCount(n) = Push(It("num", << >>))
    BY <1>2 DEF PushCount, PushNum, OpN
  <2> QED BY <1>2, <2>1 DEF DecodeScriptNum
<1>3. CASE n > 16
  <2>1. PushCount(n) = Push(It("num", EncodeScriptNum(n)))
    BY <1>3 DEF PushCount, PushNum
  <2> QED BY <2>1, NumberBack
<1> QED BY <1>1, <1>2, <1>3

\* The function that runs a script token by token exists, and the interpreter's
\* result is the last state of the run.
IsScriptIter(g, toks, m0, n) ==
    g = [t \in SUBSET (1 .. n) |->
           IF t = {} THEN m0 ELSE Step(g[t \ {Max(t)}], toks[Max(t)])]

LEMMA ScriptIterExists ==
  ASSUME NEW m0, NEW toks, NEW n \in Nat
  PROVE  \E g : IsScriptIter(g, toks, m0, n)
<1> DEFINE T == {m \in 0 .. n : \E g : IsScriptIter(g, toks, m0, m)}
<1>1. 0 \in T
  <2> DEFINE g == [t \in SUBSET (1 .. 0) |-> m0]
  <2>1. \A t \in SUBSET (1 .. 0) : t = {}
    OBVIOUS
  <2>2. IsScriptIter(g, toks, m0, 0)
    BY <2>1 DEF IsScriptIter
  <2> QED BY <2>2
<1>2. ASSUME NEW m \in 1 .. n, m - 1 \in T PROVE m \in T
  <2> DEFINE P == SUBSET (1 .. m - 1)
             Q == SUBSET (1 .. m)
  <2>1. PICK g : IsScriptIter(g, toks, m0, m - 1)
    BY <1>2
  <2>2. \A t \in P : g[t] = IF t = {} THEN m0 ELSE Step(g[t \ {Max(t)}], toks[Max(t)])
    BY <2>1 DEF IsScriptIter
  <2> DEFINE h == [t \in Q |-> IF m \in t THEN Step(g[t \ {m}], toks[m]) ELSE g[t]]
  <2>3. ASSUME NEW t \in Q PROVE t \ {m} \in P /\ (m \notin t => t \in P)
    <3>1. \A i \in 1 .. m : i # m => i \in 1 .. m - 1
      OBVIOUS
    <3> QED BY <3>1
  <2>5. \A t \in P : t \in Q /\ h[t] = g[t]
    OBVIOUS
  <2>6. ASSUME NEW t \in Q
        PROVE  h[t] = IF t = {} THEN m0 ELSE Step(h[t \ {Max(t)}], toks[Max(t)])
    <3>1. CASE m \in t
      <4>1. Max(t) = m
        <5>1. m \in Int /\ \A i \in t : i \in Int /\ i <= m
          OBVIOUS
        <5> QED BY <3>1, <5>1, MaxIs
      <4>2. h[t \ {m}] = g[t \ {m}]
        BY <2>3, <2>5
      <4>3. h[t] = Step(g[t \ {m}], toks[m])
        BY <3>1
      <4> HIDE DEF h
      <4> QED BY <3>1, <4>1, <4>2, <4>3
    <3>2. CASE m \notin t
      <4>0. t \in P
        BY <2>3, <3>2
      <4>1. t \ {Max(t)} \in P
        BY <4>0
      <4>2. h[t] = g[t] /\ h[t \ {Max(t)}] = g[t \ {Max(t)}]
        BY <2>5, <4>0, <4>1
      <4> HIDE DEF h, P
      <4> QED BY <2>2, <4>0, <4>2
    <3> QED BY <3>1, <3>2
  <2>7. h = [t \in Q |-> h[t]]
    OBVIOUS
  <2> HIDE DEF h
  <2>8. IsScriptIter(h, toks, m0, m)
    BY <2>6, <2>7 DEF IsScriptIter
  <2> QED BY <2>8
<1> HIDE DEF T
<1>3. n \in T
  <2>1. 0 .. n \subseteq T
    BY <1>1, <1>2, SetInduction
  <2> QED BY <2>1
<1> QED BY <1>3 DEF T

IsRun(h, m0, toks, n) ==
    /\ h[0] = m0
    /\ \A i \in 1 .. n : h[i] = Step(h[i - 1], toks[i])
    /\ FoldLeft(Step, m0, toks) = h[n]

\* A script is run token by token.
LEMMA RunExists ==
  ASSUME NEW m0, NEW toks, NEW n \in Nat, DOMAIN toks = 1 .. n
  PROVE  \E h : IsRun(h, m0, toks, n)
<1> DEFINE D(f) == [t \in SUBSET (1 .. n) |->
                      IF t = {} THEN m0 ELSE Step(f[t \ {Max(t)}], toks[Max(t)])]
           G == CHOOSE f : f = D(f)
<1>1. FoldLeft(Step, m0, toks) = G[1 .. n]
  BY Zenon DEF FoldLeft, MapThenFoldSet
<1>2. PICK g : IsScriptIter(g, toks, m0, n)
  BY ScriptIterExists
<1>3. g = D(g)
  BY <1>2, Zenon DEF IsScriptIter
<1>4. G = D(G)
  <2> HIDE DEF D
  <2> QED BY <1>3, Zenon
<1>5. \A t \in SUBSET (1 .. n) :
         G[t] = IF t = {} THEN m0 ELSE Step(G[t \ {Max(t)}], toks[Max(t)])
  <2> HIDE DEF G
  <2> QED BY <1>4
<1> HIDE DEF G, D
<1> DEFINE h == [i \in 0 .. n |-> G[1 .. i]]
<1>6. h[0] = m0
  <2>1. 1 .. 0 = {}
    BY PrefixSets
  <2>2. h[0] = G[1 .. 0] /\ {} \in SUBSET (1 .. n)
    OBVIOUS
  <2>3. G[{}] = m0
    BY <1>5, <2>2
  <2> HIDE DEF h
  <2> QED BY <2>1, <2>2, <2>3
<1>7. ASSUME NEW i \in 1 .. n PROVE h[i] = Step(h[i - 1], toks[i])
  <2>1. /\ 1 .. i \in SUBSET (1 .. n) /\ 1 .. i # {}
        /\ Max(1 .. i) = i /\ (1 .. i) \ {i} = 1 .. i - 1
    BY PrefixSets
  <2>2. G[1 .. i] = Step(G[1 .. i - 1], toks[i])
    BY <1>5, <2>1
  <2>3. h[i] = G[1 .. i] /\ h[i - 1] = G[1 .. i - 1]
    OBVIOUS
  <2> QED BY <2>2, <2>3
<1>8. h[n] = G[1 .. n]
  OBVIOUS
<1> HIDE DEF h
<1>9. IsRun(h, m0, toks, n)
  BY <1>1, <1>6, <1>7, <1>8 DEF IsRun
<1> QED BY <1>9

-----------------------------------------------------------------------------
(***************************************************************************)
(* What each opcode does.                                                  *)
(***************************************************************************)
Fields(m) == DOMAIN m = {"stack", "on", "ok"}
On(m, s) == Fields(m) /\ m.ok /\ m.on /\ m.stack = s
Off(m, s) == Fields(m) /\ m.ok /\ ~m.on /\ m.stack = s
Failed(m) == Fields(m) /\ ~m.ok

\* After an error nothing is executed.
LEMMA FailedStays ==
  ASSUME NEW m, Failed(m), NEW t
  PROVE  Failed(Step(m, t))
<1>1. Step(m, t) = m
  BY DEF Step, Failed
<1> QED BY <1>1

\* OP_ELSE and OP_ENDIF, executing or skipping.
LEMMA ElseIs ==
  ASSUME NEW m, NEW s
  PROVE  /\ On(m, s) => Off(Step(m, Op("OP_ELSE")), s)
         /\ Off(m, s) => On(Step(m, Op("OP_ELSE")), s)
<1> SUFFICES ASSUME On(m, s) \/ Off(m, s)
             PROVE  /\ On(m, s) => Off(Step(m, Op("OP_ELSE")), s)
                    /\ Off(m, s) => On(Step(m, Op("OP_ELSE")), s)
  OBVIOUS
<1>1. PICK t : t = Op("OP_ELSE")
  OBVIOUS
<1>2. Step(m, t) = [m EXCEPT !.on = ~@]
  <2>1. m.ok /\ t.op = "OP_ELSE"
    BY <1>1 DEF On, Off, Op
  <2> QED BY <2>1 DEF Step
<1> QED BY <1>1, <1>2 DEF On, Off, Fields

LEMMA EndifIs ==
  ASSUME NEW m, NEW s, On(m, s) \/ Off(m, s)
  PROVE  On(Step(m, Op("OP_ENDIF")), s)
<1>1. PICK t : t = Op("OP_ENDIF")
  OBVIOUS
<1>2. Step(m, t) = [m EXCEPT !.on = TRUE]
  <2>1. m.ok /\ t.op = "OP_ENDIF"
    BY <1>1 DEF On, Off, Op
  <2> QED BY <2>1 DEF Step
<1> QED BY <1>1, <1>2 DEF On, Off, Fields

\* Any other opcode is skipped on the branch that was not taken.
LEMMA Skipped ==
  ASSUME NEW m, NEW s, Off(m, s), NEW t, t.op \notin {"OP_ELSE", "OP_ENDIF"}
  PROVE  Off(Step(m, t), s)
<1>1. Step(m, t) = m
  BY DEF Step, Off
<1> QED BY <1>1

LEMMA PushIs ==
  ASSUME NEW m, NEW s, On(m, s), NEW items
  PROVE  On(Step(m, Pushes(items)), s \o items)
<1>1. PICK t : t = Pushes(items)
  OBVIOUS
<1>2. t.op = "PUSH" /\ t.items = items
  BY <1>1 DEF Pushes
<1>3. Step(m, t) = [m EXCEPT !.stack = @ \o t.items]
  BY <1>2 DEF Step, On
<1> QED BY <1>1, <1>2, <1>3 DEF On, Fields

Kinds == {"num", "key", "sig", "pre", "hash"}
Items == [kind : Kinds, val : Seq(Nat)]

\* The two items on top.
LEMMA OnTop ==
  ASSUME NEW r \in Seq(Items), NEW x \in Items, NEW m, m.stack = Append(r, x)
  PROVE  Len(m.stack) \in Nat /\ Len(m.stack) >= 1 /\ Top(m, 0) = x /\ Below(m, 1) = r
<1>2. PICK s : s = Append(r, x)
  OBVIOUS
<1>4. /\ s \in Seq(Items) /\ Len(s) = Len(r) + 1 /\ s[Len(s)] = x
      /\ \A i \in 1 .. Len(r) : s[i] = r[i]
  BY <1>2, AppendProperties
<1>5. Len(r) \in Nat
  BY LenProperties
<1>6. SubSeq(s, 1, Len(s) - 1) = r
  <2>1. PICK u : u = SubSeq(s, 1, Len(r))
    OBVIOUS
  <2>2. \A i \in 1 .. Len(r) : s[i] \in Items
    BY <1>4, ElementOfSeq
  <2>3. u \in Seq(Items) /\ Len(u) = Len(r) /\ \A i \in 1 .. Len(r) : u[i] = s[i]
    BY <1>5, <2>1, <2>2, SubSeqProperties
  <2>4. u = r
    BY <1>4, <2>3, SeqEqual
  <2> QED BY <1>4, <1>5, <2>1, <2>4
<1>7. Len(s) \in Nat /\ Len(s) >= 1 /\ s[Len(s) - 0] = x
  BY <1>4, <1>5
<1> QED BY <1>2, <1>6, <1>7 DEF Top, Below

LEMMA OnTopTwo ==
  ASSUME NEW r \in Seq(Items), NEW x \in Items, NEW y \in Items,
         NEW m, m.stack = Append(Append(r, x), y)
  PROVE  /\ Len(m.stack) \in Nat /\ Len(m.stack) >= 2
         /\ Top(m, 0) = y /\ Top(m, 1) = x /\ Below(m, 2) = r
<1>2. PICK q : q = Append(r, x)
  OBVIOUS
<1>2a. PICK s : s = Append(q, y)
  OBVIOUS
<1>4. /\ q \in Seq(Items) /\ Len(q) = Len(r) + 1 /\ q[Len(r) + 1] = x
      /\ \A i \in 1 .. Len(r) : q[i] = r[i]
  BY <1>2, AppendProperties
<1>5. Len(r) \in Nat
  BY LenProperties
<1>5a. /\ s \in Seq(Items) /\ Len(s) = Len(r) + 2 /\ s[Len(r) + 2] = y
       /\ s[Len(r) + 1] = x /\ \A i \in 1 .. Len(r) : s[i] = r[i]
  <2>1. /\ s \in Seq(Items) /\ Len(s) = Len(q) + 1 /\ s[Len(q) + 1] = y
        /\ \A i \in 1 .. Len(q) : s[i] = q[i]
    BY <1>2a, <1>4, AppendProperties
  <2> QED BY <1>4, <1>5, <2>1
<1>6. SubSeq(s, 1, Len(s) - 2) = r
  <2>1. PICK u : u = SubSeq(s, 1, Len(r))
    OBVIOUS
  <2>2. \A i \in 1 .. Len(r) : s[i] \in Items
    BY <1>5a, ElementOfSeq
  <2>3. u \in Seq(Items) /\ Len(u) = Len(r) /\ \A i \in 1 .. Len(r) : u[i] = s[i]
    BY <1>5, <2>1, <2>2, SubSeqProperties
  <2>4. u = r
    BY <1>5a, <2>3, SeqEqual
  <2> QED BY <1>5, <1>5a, <2>1, <2>4
<1>7. Len(s) \in Nat /\ Len(s) >= 2 /\ s[Len(s) - 0] = y /\ s[Len(s) - 1] = x
  BY <1>5, <1>5a
<1> QED BY <1>2, <1>2a, <1>6, <1>7 DEF Top, Below

LEMMA PushOne ==
  ASSUME NEW r \in Seq(Items), NEW x \in Items, NEW m, On(m, r)
  PROVE  On(Step(m, Push(x)), Append(r, x))
<1>1. r \o <<x>> = Append(r, x)
  BY AppendIsConcat
<1>2. On(Step(m, Pushes(<<x>>)), r \o <<x>>)
  BY PushIs
<1> QED BY <1>1, <1>2, Zenon DEF Push

LEMMA DupIs ==
  ASSUME NEW r \in Seq(Items), NEW x \in Items, NEW m, On(m, Append(r, x))
  PROVE  On(Step(m, Op("OP_DUP")), Append(Append(r, x), x))
<1>1. PICK t : t = Op("OP_DUP")
  OBVIOUS
<1>2. t.op = "OP_DUP" /\ m.stack = Append(r, x)
  BY <1>1 DEF On, Op
<1>3. Step(m, t) = Needs(m, 1, [m EXCEPT !.stack = Append(@, Top(m, 0))])
  BY <1>2 DEF Step, On
<1>4. Len(m.stack) >= 1 /\ Top(m, 0) = x /\ Len(m.stack) \in Nat
  BY <1>2, OnTop
<1>5. Step(m, t) = [m EXCEPT !.stack = Append(@, Top(m, 0))]
  BY <1>3, <1>4 DEF Needs
<1> QED BY <1>1, <1>2, <1>4, <1>5 DEF On, Fields

\* OP_IF takes the selector from the stack.
LEMMA IfIs ==
  ASSUME NEW r \in Seq(Items), NEW x \in Items, NEW m, On(m, Append(r, x))
  PROVE  /\ Truthy(x) => On(Step(m, Op("OP_IF")), r)
         /\ ~Truthy(x) => Off(Step(m, Op("OP_IF")), r)
<1>1. PICK t : t = Op("OP_IF")
  OBVIOUS
<1>2. t.op = "OP_IF" /\ m.stack = Append(r, x)
  BY <1>1 DEF On, Op
<1>3. Step(m, t) = Needs(m, 1, [m EXCEPT !.stack = Below(m, 1), !.on = Truthy(Top(m, 0))])
  BY <1>2 DEF Step, On
<1>4. Len(m.stack) >= 1 /\ Top(m, 0) = x /\ Below(m, 1) = r /\ Len(m.stack) \in Nat
  BY <1>2, OnTop
<1>5. Step(m, t) = [m EXCEPT !.stack = Below(m, 1), !.on = Truthy(Top(m, 0))]
  BY <1>3, <1>4 DEF Needs
<1> QED BY <1>1, <1>4, <1>5 DEF On, Off, Fields

LEMMA HashIs ==
  ASSUME NEW r \in Seq(Items), NEW x \in Items, NEW m, On(m, Append(r, x))
  PROVE  On(Step(m, Op("OP_HASH160")), Append(r, Hash160(x)))
<1>1. PICK t : t = Op("OP_HASH160")
  OBVIOUS
<1>2. t.op = "OP_HASH160" /\ m.stack = Append(r, x)
  BY <1>1 DEF On, Op
<1>3. Step(m, t) = Needs(m, 1, [m EXCEPT !.stack = Append(Below(m, 1), Hash160(Top(m, 0)))])
  BY <1>2 DEF Step, On
<1>4. Len(m.stack) >= 1 /\ Top(m, 0) = x /\ Below(m, 1) = r /\ Len(m.stack) \in Nat
  BY <1>2, OnTop
<1>5. Step(m, t) = [m EXCEPT !.stack = Append(Below(m, 1), Hash160(Top(m, 0)))]
  BY <1>3, <1>4 DEF Needs
<1> QED BY <1>1, <1>4, <1>5 DEF On, Fields

\* OP_EQUALVERIFY fails unless the two items on top are the same.
LEMMA EqualIs ==
  ASSUME NEW r \in Seq(Items), NEW x \in Items, NEW y \in Items,
         NEW m, On(m, Append(Append(r, x), y))
  PROVE  /\ y = x => On(Step(m, Op("OP_EQUALVERIFY")), r)
         /\ y # x => Failed(Step(m, Op("OP_EQUALVERIFY")))
<1>1. PICK t : t = Op("OP_EQUALVERIFY")
  OBVIOUS
<1>2. t.op = "OP_EQUALVERIFY" /\ m.stack = Append(Append(r, x), y)
  BY <1>1 DEF On, Op
<1>3. Step(m, t) = Needs(m, 2, [m EXCEPT !.stack = Below(m, 2), !.ok = (Top(m, 0) = Top(m, 1))])
  BY <1>2 DEF Step, On
<1>4. /\ Len(m.stack) >= 2 /\ Top(m, 0) = y /\ Top(m, 1) = x /\ Below(m, 2) = r
      /\ Len(m.stack) \in Nat
  BY <1>2, OnTopTwo
<1>5. Step(m, t) = [m EXCEPT !.stack = Below(m, 2), !.ok = (Top(m, 0) = Top(m, 1))]
  BY <1>3, <1>4 DEF Needs
<1> QED BY <1>1, <1>4, <1>5 DEF On, Failed, Fields

LEMMA CheckSigIs ==
  ASSUME NEW r \in Seq(Items), NEW x \in Items, NEW y \in Items,
         NEW m, On(m, Append(Append(r, x), y))
  PROVE  On(Step(m, Op("OP_CHECKSIG")), Append(r, Bool(CheckSig(x, y))))
<1>1. PICK t : t = Op("OP_CHECKSIG")
  OBVIOUS
<1>2. t.op = "OP_CHECKSIG" /\ m.stack = Append(Append(r, x), y)
  BY <1>1 DEF On, Op
<1>3. Step(m, t) = Needs(m, 2, [m EXCEPT !.stack = Append(Below(m, 2), Bool(CheckSig(Top(m, 1), Top(m, 0))))])
  BY <1>2 DEF Step, On
<1>4. /\ Len(m.stack) >= 2 /\ Top(m, 0) = y /\ Top(m, 1) = x /\ Below(m, 2) = r
      /\ Len(m.stack) \in Nat
  BY <1>2, OnTopTwo
<1>5. Step(m, t) = [m EXCEPT !.stack = Append(Below(m, 2), Bool(CheckSig(Top(m, 1), Top(m, 0))))]
  BY <1>3, <1>4 DEF Needs
<1>6. PICK b : b = Bool(CheckSig(Top(m, 1), Top(m, 0)))
  OBVIOUS
<1>7. b = Bool(CheckSig(x, y))
  BY <1>4, <1>6, Zenon
<1>8. On(Step(m, t), Append(r, b))
  BY <1>4, <1>5, <1>6 DEF On, Fields
<1> QED BY <1>1, <1>7, <1>8

\* The scan of OP_CHECKMULTISIG: h[j] is the signature it looks for after key j.
ScanRun(h, ss, keys, n) ==
    /\ h[0] = 1 /\ h \in [0 .. n -> Int]
    /\ \A j \in 1 .. n : h[j] = IF h[j - 1] <= Len(ss) /\ CheckSig(ss[h[j - 1]], keys[j])
                                THEN h[j - 1] + 1 ELSE h[j - 1]
    /\ Matches(ss, keys) <=> h[n] = Len(ss) + 1

LEMMA ScanExists ==
  ASSUME NEW ss, NEW n \in Nat, NEW keys \in Seq(Items), Len(keys) = n
  PROVE  \E h : ScanRun(h, ss, keys, n)
<1> DEFINE V == Int
           E == Items
           Op1(i, k) == IF i <= Len(ss) /\ CheckSig(ss[i], k) THEN i + 1 ELSE i
           F == [p \in V \X E |-> Op1(p[1], p[2])]
           base == 1
           Body(g, s) == IF s = {} THEN base ELSE Op1(g[s \ {Max(s)}], keys[Max(s)])
           iter == CHOOSE f : f = [s \in SUBSET (1 .. n) |-> Body(f, s)]
<1>1. keys \in [1 .. n -> E] /\ DOMAIN keys = 1 .. n /\ base \in V
  BY LenProperties
<1>2. ASSUME NEW i \in V, NEW k PROVE Op1(i, k) \in V
  BY <1>2
<1>3. F \in [V \X E -> V]
  BY <1>2
<1>4. Matches(ss, keys) <=> iter[1 .. n] = Len(ss) + 1
  BY <1>1 DEF Matches, FoldLeft, MapThenFoldSet
<1> HIDE DEF V, Op1, base
<1>5. PICK g \in [SUBSET (1 .. n) -> V] : IsIter(g, F, base, keys, n)
  <2> HIDE DEF F, E
  <2> QED BY <1>1, <1>2, <1>3, IterExists
<1>6. ASSUME NEW s \in SUBSET (1 .. n), s # {}
      PROVE  keys[Max(s)] \in E
  BY <1>1, <1>6, MaxInside
<1>7. ASSUME NEW s \in SUBSET (1 .. n) PROVE g[s] = Body(g, s)
  <2>1. CASE s = {}
    BY <1>5, <2>1 DEF IsIter
  <2>2. CASE s # {}
    <3>1. keys[Max(s)] \in E /\ g[s \ {Max(s)}] \in V
      BY <1>6, <2>2
    <3>2. g[s] = F[<<g[s \ {Max(s)}], keys[Max(s)]>>]
      BY <1>5, <2>2 DEF IsIter
    <3> HIDE DEF E
    <3> QED BY <2>2, <3>1, <3>2
  <2> QED BY <2>1, <2>2
<1>8. g = [s \in SUBSET (1 .. n) |-> Body(g, s)]
  BY <1>7
<1>9. iter = [s \in SUBSET (1 .. n) |-> Body(iter, s)]
  BY <1>8
<1> HIDE DEF iter
<1>10. ASSUME NEW s \in SUBSET (1 .. n) PROVE iter[s] = Body(iter, s)
  BY <1>9, Zenon
<1>11. iter[{}] = base
  BY <1>10
<1>12. ASSUME NEW s \in SUBSET (1 .. n), s # {}, iter[s \ {Max(s)}] \in V
       PROVE  iter[s] = F[<<iter[s \ {Max(s)}], keys[Max(s)]>>]
  <2>1. iter[s] = Op1(iter[s \ {Max(s)}], keys[Max(s)])
    BY <1>10, <1>12
  <2>2. keys[Max(s)] \in E
    BY <1>6, <1>12
  <2> HIDE DEF E
  <2> QED BY <1>12, <2>1, <2>2
<1>13. PICK h : Prefixed(h, iter, V, F, base, keys, n)
  <2>1. FoldsIn(iter, V, F, base, keys, n)
    BY <1>11, <1>12 DEF FoldsIn
  <2> HIDE DEF F, E
  <2> QED BY <1>1, <1>2, <1>3, <2>1, FoldPrefixes
<1>14. \A i \in 1 .. n : h[i - 1] \in V /\ keys[i] \in E
  BY <1>13 DEF Prefixed
<1>15. \A i \in 1 .. n : h[i] = Op1(h[i - 1], keys[i])
  <2> HIDE DEF E
  <2> QED BY <1>13, <1>14 DEF Prefixed
<1> QED BY <1>4, <1>13, <1>15 DEF Prefixed, ScanRun, V, Op1, base

\* With as many signatures as keys the scan succeeds when each signature is of
\* the key in its place: one key passed over is never made up for.
LEMMA MatchesIs ==
  ASSUME NEW n \in Nat, NEW ss, Len(ss) = n, NEW keys \in Seq(Items), Len(keys) = n
  PROVE  Matches(ss, keys) <=> \A i \in 1 .. n : CheckSig(ss[i], keys[i])
<1>1. PICK h : ScanRun(h, ss, keys, n)
  BY ScanExists
<1>2. /\ h[0] = 1 /\ h \in [0 .. n -> Int]
      /\ \A j \in 1 .. n : h[j] = IF h[j - 1] <= n /\ CheckSig(ss[h[j - 1]], keys[j])
                                  THEN h[j - 1] + 1 ELSE h[j - 1]
      /\ Matches(ss, keys) <=> h[n] = n + 1
  BY <1>1 DEF ScanRun
<1> DEFINE T == {j \in 0 .. n : /\ h[j] <= j + 1
                                /\ h[j] = j + 1 <=> \A i \in 1 .. j : CheckSig(ss[i], keys[i])}
<1>3. 0 \in T
  BY <1>2
<1>4. ASSUME NEW j \in 1 .. n, j - 1 \in T PROVE j \in T
  <2>1. h[j - 1] \in Int /\ h[j] \in Int
    BY <1>2
  <2>2. /\ h[j - 1] <= j
        /\ h[j - 1] = j <=> \A i \in 1 .. j - 1 : CheckSig(ss[i], keys[i])
    BY <1>4
  <2>3. (\A i \in 1 .. j : CheckSig(ss[i], keys[i])) <=>
          (\A i \in 1 .. j - 1 : CheckSig(ss[i], keys[i])) /\ CheckSig(ss[j], keys[j])
    <3>1. \A i \in 1 .. j : i = j \/ i \in 1 .. j - 1
      OBVIOUS
    <3>2. j \in 1 .. j /\ \A i \in 1 .. j - 1 : i \in 1 .. j
      OBVIOUS
    <3> QED BY <3>1, <3>2
  <2>4. CASE h[j - 1] = j
    <3>1. h[j] = IF CheckSig(ss[j], keys[j]) THEN j + 1 ELSE j
      <4>1. PICK q : q = h[j - 1]
        OBVIOUS
      <4>2. h[j] = IF q <= n /\ CheckSig(ss[q], keys[j]) THEN q + 1 ELSE q
        BY <1>2, <4>1
      <4>3. q = j /\ q <= n
        BY <2>4, <4>1
      <4> QED BY <4>2, <4>3
    <3>2. h[j] <= j + 1 /\ (h[j] = j + 1 <=> CheckSig(ss[j], keys[j]))
      BY <3>1
    <3> QED BY <2>2, <2>3, <2>4, <3>2
  <2>5. CASE h[j - 1] # j
    <3>0. h[j] = h[j - 1] + 1 \/ h[j] = h[j - 1]
      BY <1>2
    <3>1. h[j] <= j
      BY <2>1, <2>2, <2>5, <3>0
    <3> QED BY <2>1, <2>2, <2>3, <2>5, <3>1
  <2> QED BY <2>4, <2>5
<1> HIDE DEF T
<1>5. 0 .. n \subseteq T
  BY <1>3, <1>4, SetInduction
<1>6. n \in T
  BY <1>5
<1> QED BY <1>2, <1>6 DEF T

\* The stack OP_CHECKMULTISIG finds: the dummy, the signatures, the count, the
\* keys, the count.
MultisigStack(z, ss, c, keys) == Append(Append(Append(<< >>, z) \o ss, c) \o keys, c)

\* Where OP_CHECKMULTISIG finds its operands, counted from the bottom.
LEMMA MultisigPositions ==
  ASSUME NEW z \in Items, NEW c \in Items, NEW ss \in Seq(Items), NEW keys \in Seq(Items),
         NEW k \in Nat, NEW n \in Nat, Len(ss) = k, Len(keys) = n,
         NEW st, st = MultisigStack(z, ss, c, keys)
  PROVE  /\ st \in Seq(Items) /\ Len(st) = k + n + 3
         /\ st[k + n + 3] = c /\ st[k + 2] = c
         /\ \A i \in 1 .. k : st[1 + i] = ss[i]
         /\ \A i \in 1 .. n : st[k + 2 + i] = keys[i]
<1>1. PICK a : a = Append(<< >>, z)
  OBVIOUS
<1>2. a \in Seq(Items) /\ Len(a) = 1
  BY <1>1, EmptySeq, AppendProperties
<1>3. PICK b : b = a \o ss
  OBVIOUS
<1>4. /\ b \in Seq(Items) /\ Len(b) = 1 + k
      /\ \A i \in 1 .. k : b[1 + i] = ss[i]
  <2>1. /\ b \in Seq(Items) /\ Len(b) = 1 + k
        /\ \A i \in 1 .. 1 + k : b[i] = IF i <= 1 THEN a[i] ELSE ss[i - 1]
    <3>1. /\ b \in Seq(Items) /\ Len(b) = Len(a) + Len(ss)
          /\ \A i \in 1 .. Len(a) + Len(ss) : b[i] = IF i <= Len(a) THEN a[i] ELSE ss[i - Len(a)]
      BY <1>2, <1>3, ConcatProperties
    <3> QED BY <1>2, <3>1
  <2>2. ASSUME NEW i \in 1 .. k PROVE b[1 + i] = ss[i]
    <3>1. 1 + i \in 1 .. 1 + k /\ ~(1 + i <= 1) /\ (1 + i) - 1 = i
      OBVIOUS
    <3> QED BY <2>1, <3>1
  <2> QED BY <2>1, <2>2
<1>5. PICK d : d = Append(b, c)
  OBVIOUS
<1>6. /\ d \in Seq(Items) /\ Len(d) = k + 2 /\ d[k + 2] = c
      /\ \A i \in 1 .. k : d[1 + i] = ss[i]
  <2>1. /\ d \in Seq(Items) /\ Len(d) = Len(b) + 1 /\ d[Len(b) + 1] = c
        /\ \A i \in 1 .. Len(b) : d[i] = b[i]
    BY <1>4, <1>5, AppendProperties
  <2>2. \A i \in 1 .. k : 1 + i \in 1 .. Len(b)
    BY <1>4
  <2>3. Len(b) + 1 = k + 2
    BY <1>4
  <2> QED BY <1>4, <2>1, <2>2, <2>3
<1>7. PICK e : e = d \o keys
  OBVIOUS
<1>8. /\ e \in Seq(Items) /\ Len(e) = k + n + 2 /\ e[k + 2] = c
      /\ \A i \in 1 .. k : e[1 + i] = ss[i]
      /\ \A i \in 1 .. n : e[k + 2 + i] = keys[i]
  <2>1. /\ e \in Seq(Items) /\ Len(e) = (k + 2) + n
        /\ \A i \in 1 .. (k + 2) + n : e[i] = IF i <= k + 2 THEN d[i] ELSE keys[i - (k + 2)]
    <3>1. /\ e \in Seq(Items) /\ Len(e) = Len(d) + Len(keys)
          /\ \A i \in 1 .. Len(d) + Len(keys) : e[i] = IF i <= Len(d) THEN d[i] ELSE keys[i - Len(d)]
      <4>1. d \in Seq(Items)
        BY <1>6
      <4> QED BY <1>7, <4>1, ConcatProperties
    <3> QED BY <1>6, <3>1
  <2>2. \A i \in 1 .. k : 1 + i \in 1 .. (k + 2) + n /\ 1 + i <= k + 2
    OBVIOUS
  <2>3. k + 2 \in 1 .. (k + 2) + n /\ (k + 2) + n = k + n + 2
    OBVIOUS
  <2>4. ASSUME NEW i \in 1 .. n PROVE e[k + 2 + i] = keys[i]
    <3>1. /\ k + 2 + i \in 1 .. (k + 2) + n /\ ~(k + 2 + i <= k + 2)
          /\ (k + 2 + i) - (k + 2) = i
      OBVIOUS
    <3> QED BY <2>1, <3>1
  <2>5. \A i \in 1 .. k : e[1 + i] = d[1 + i]
    BY <2>1, <2>2
  <2>6. e[k + 2] = d[k + 2]
    BY <2>1, <2>3
  <2> QED BY <1>6, <2>1, <2>3, <2>4, <2>5, <2>6
<1>9. st = Append(e, c)
  BY <1>1, <1>3, <1>5, <1>7 DEF MultisigStack
<1>10. /\ st \in Seq(Items) /\ Len(st) = Len(e) + 1 /\ st[Len(e) + 1] = c
       /\ \A i \in 1 .. Len(e) : st[i] = e[i]
  <2>1. PICK u : u = Append(e, c)
    OBVIOUS
  <2>2. /\ u \in Seq(Items) /\ Len(u) = Len(e) + 1 /\ u[Len(e) + 1] = c
        /\ \A i \in 1 .. Len(e) : u[i] = e[i]
    <3>1. e \in Seq(Items)
      BY <1>8
    <3> QED BY <2>1, <3>1, AppendProperties
  <2> QED BY <1>9, <2>1, <2>2
<1>11. Len(e) + 1 = k + n + 3 /\ k + 2 \in 1 .. Len(e)
  BY <1>8
<1>12. /\ \A i \in 1 .. k : 1 + i \in 1 .. Len(e)
       /\ \A i \in 1 .. n : k + 2 + i \in 1 .. Len(e)
  BY <1>8
<1> QED BY <1>8, <1>10, <1>11, <1>12

\* A channel or a bond gives OP_CHECKMULTISIG as many signatures as keys; with
\* fewer it runs into the bottom of the stack.
LEMMA MultisigIs ==
  ASSUME NEW z \in Items, NEW c \in Items, NEW ss \in Seq(Items), NEW keys \in Seq(Items),
         NEW n \in Nat, Len(keys) = n, Len(ss) <= n,
         c.kind = "num", DecodeScriptNum(c.val) = n,
         NEW m, On(m, MultisigStack(z, ss, c, keys))
  PROVE  /\ Len(ss) = n => On(Step(m, Op("OP_CHECKMULTISIG")), Append(<< >>, Bool(Matches(ss, keys))))
         /\ Len(ss) # n => Failed(Step(m, Op("OP_CHECKMULTISIG")))
<1>1. PICK t : t = Op("OP_CHECKMULTISIG")
  OBVIOUS
<1>2. t.op = "OP_CHECKMULTISIG"
  BY <1>1 DEF Op
<1>3. Step(m, t) = CheckMultisig(m)
  BY <1>2 DEF Step, On
<1>4. PICK st, k : st = MultisigStack(z, ss, c, keys) /\ k = Len(ss)
  OBVIOUS
<1>5. k \in 0 .. n /\ m.stack = st
  BY <1>4, LenProperties DEF On
<1>6. /\ st \in Seq(Items) /\ Len(st) = k + n + 3
      /\ st[k + n + 3] = c /\ st[k + 2] = c
      /\ \A i \in 1 .. k : st[1 + i] = ss[i]
      /\ \A i \in 1 .. n : st[k + 2 + i] = keys[i]
  <2>1. k \in Nat /\ Len(ss) = k
    BY <1>4, <1>5
  <2>2. \A x : x = MultisigStack(z, ss, c, keys) =>
          /\ x \in Seq(Items) /\ Len(x) = k + n + 3
          /\ x[k + n + 3] = c /\ x[k + 2] = c
          /\ \A i \in 1 .. k : x[1 + i] = ss[i]
          /\ \A i \in 1 .. n : x[k + 2 + i] = keys[i]
    BY <2>1, MultisigPositions
  <2> QED BY <1>4, <2>2, Zenon
<1>7. Top(m, 0) = c /\ Top(m, n + 1) = c
  <2>1. Len(st) - 0 = k + n + 3 /\ Len(st) - (n + 1) = k + 2
    BY <1>5, <1>6
  <2> QED BY <1>5, <1>6, <2>1 DEF Top
<1> DEFINE keysAt == SubSeq(m.stack, Len(m.stack) - n, Len(m.stack) - 1)
           ssAt == SubSeq(m.stack, Len(m.stack) - n - 1 - n, Len(m.stack) - n - 2)
<1>8. CheckMultisig(m) =
        IF \/ Len(m.stack) < 1 \/ c.kind # "num" \/ n < 0
           \/ Len(m.stack) < n + 2 \/ c.kind # "num" \/ n \notin 0 .. n
           \/ Len(m.stack) < n + n + 3
        THEN [m EXCEPT !.ok = FALSE]
        ELSE [m EXCEPT !.stack = Append(Below(m, n + n + 3), Bool(Matches(ssAt, keysAt)))]
  BY <1>7 DEF CheckMultisig
<1>9. CASE k # n
  <2>1. Len(m.stack) < n + n + 3
    BY <1>5, <1>6, <1>9
  <2>2. CheckMultisig(m) = [m EXCEPT !.ok = FALSE]
    BY <1>8, <2>1
  <2> QED BY <1>1, <1>3, <1>4, <1>9, <2>2 DEF On, Failed, Fields
<1>10. CASE k = n
  <2>1. /\ ~(Len(m.stack) < n + n + 3) /\ ~(Len(m.stack) < n + 2) /\ ~(Len(m.stack) < 1)
        /\ ~(n < 0) /\ n \in 0 .. n
    BY <1>5, <1>6, <1>10
  <2>2. PICK a, b : a = ssAt /\ b = keysAt
    OBVIOUS
  <2>3. CheckMultisig(m) = [m EXCEPT !.stack = Append(Below(m, n + n + 3), Bool(Matches(a, b)))]
    BY <1>8, <2>1, <2>2
  <2>4. Below(m, n + n + 3) = << >>
    <3>1. Len(m.stack) - (n + n + 3) = 0
      BY <1>5, <1>6, <1>10
    <3> QED BY <3>1, SubSeqEmpty DEF Below
  <2>5. a = ss
    <3>1. /\ Len(m.stack) - n - 1 - n = 2 /\ Len(m.stack) - n - 2 = n + 1
      BY <1>5, <1>6, <1>10
    <3>2. a = SubSeq(st, 2, n + 1)
      BY <1>5, <2>2, <3>1
    <3>3. \A i \in 2 .. n + 1 : st[i] \in Items
      BY <1>6, <1>10, ElementOfSeq
    <3>4. /\ a \in Seq(Items) /\ Len(a) = n
          /\ \A i \in 1 .. (n + 1) - 2 + 1 : a[i] = st[2 + i - 1]
      BY <3>2, <3>3, SubSeqProperties
    <3>5. ASSUME NEW i \in 1 .. n PROVE a[i] = ss[i]
      <4>1. i \in 1 .. (n + 1) - 2 + 1 /\ 2 + i - 1 = 1 + i
        OBVIOUS
      <4> QED BY <1>6, <1>10, <3>4, <4>1
    <3> QED BY <1>4, <1>10, <3>4, <3>5, SeqEqual
  <2>6. b = keys
    <3>1. /\ Len(m.stack) - n = n + 3 /\ Len(m.stack) - 1 = n + n + 2
      BY <1>5, <1>6, <1>10
    <3>2. b = SubSeq(st, n + 3, n + n + 2)
      BY <1>5, <2>2, <3>1
    <3>3. \A i \in n + 3 .. n + n + 2 : st[i] \in Items
      BY <1>6, <1>10, ElementOfSeq
    <3>4. /\ b \in Seq(Items) /\ Len(b) = n
          /\ \A i \in 1 .. (n + n + 2) - (n + 3) + 1 : b[i] = st[(n + 3) + i - 1]
      BY <3>2, <3>3, SubSeqProperties
    <3>5. ASSUME NEW i \in 1 .. n PROVE b[i] = keys[i]
      <4>1. i \in 1 .. (n + n + 2) - (n + 3) + 1 /\ (n + 3) + i - 1 = n + 2 + i
        OBVIOUS
      <4> QED BY <1>6, <1>10, <3>4, <4>1
    <3> QED BY <3>4, <3>5, SeqEqual
  <2>7. PICK x : x = Append(<< >>, Bool(Matches(ss, keys)))
    OBVIOUS
  <2>8. CheckMultisig(m) = [m EXCEPT !.stack = x]
    BY <2>3, <2>4, <2>5, <2>6, <2>7, Zenon
  <2>9. On(CheckMultisig(m), x)
    BY <2>8 DEF On, Fields
  <2> QED BY <1>1, <1>3, <1>4, <1>10, <2>7, <2>9
<1> QED BY <1>9, <1>10

-----------------------------------------------------------------------------
(***************************************************************************)
(* Items and tokens.                                                       *)
(***************************************************************************)
Opcodes == {"PUSH", "OP_DUP", "OP_IF", "OP_ELSE", "OP_ENDIF", "OP_HASH160", "OP_EQUALVERIFY",
            "OP_CHECKSIG", "OP_CHECKMULTISIG"}
Tokens == [op : Opcodes, items : Seq(Items)]

\* Everything the templates push is an item.
LEMMA ItemType ==
  ASSUME NEW kind \in Kinds, NEW val \in Seq(Nat)
  PROVE  It(kind, val) \in Items
BY DEF It, Items

LEMMA ItemTypes ==
  \A val \in Seq(Nat) : /\ It("num", val) \in Items /\ It("key", val) \in Items
                        /\ It("sig", val) \in Items /\ It("pre", val) \in Items
                        /\ It("hash", val) \in Items
<1>1. "num" \in Kinds /\ "key" \in Kinds /\ "sig" \in Kinds /\ "pre" \in Kinds /\ "hash" \in Kinds
  BY DEF Kinds
<1> QED BY <1>1, ItemType, Zenon

LEMMA NumberItems ==
  /\ It("num", OpN(0)) \in Items /\ It("num", OpN(1)) \in Items
  /\ Truthy(It("num", OpN(1))) /\ ~Truthy(It("num", OpN(0)))
<1>1. PICK z, o : z = OpN(0) /\ o = OpN(1)
  OBVIOUS
<1>2. z = << >> /\ o = <<1>>
  BY <1>1 DEF OpN
<1>3. z \in Seq(Nat) /\ o \in Seq(Nat)
  BY <1>2, EmptySeq
<1>4. DOMAIN z = {} /\ 1 \in DOMAIN o /\ o[1] = 1
  BY <1>2
<1>5. It("num", z) \in Items /\ It("num", o) \in Items
  BY <1>3, ItemTypes
<1>6. Truthy(It("num", o)) /\ ~Truthy(It("num", z))
  BY <1>4 DEF Truthy, It
<1> QED BY <1>1, <1>5, <1>6

\* A result on the stack is true or false.
LEMMA Verdicts ==
  /\ \A s, k : /\ Bool(CheckSig(s, k)) \in Items
               /\ Truthy(Bool(CheckSig(s, k))) <=> CheckSig(s, k)
  /\ \A ss, ks : /\ Bool(Matches(ss, ks)) \in Items
                 /\ Truthy(Bool(Matches(ss, ks))) <=> Matches(ss, ks)
<1>1. ASSUME NEW s, NEW k
      PROVE  /\ Bool(CheckSig(s, k)) \in Items
             /\ Truthy(Bool(CheckSig(s, k))) <=> CheckSig(s, k)
  <2>1. CASE CheckSig(s, k)
    <3>1. Bool(CheckSig(s, k)) = It("num", OpN(1))
      BY <2>1 DEF Bool
    <3> QED BY <2>1, <3>1, NumberItems
  <2>2. CASE ~CheckSig(s, k)
    <3>1. Bool(CheckSig(s, k)) = It("num", OpN(0))
      BY <2>2 DEF Bool
    <3> QED BY <2>2, <3>1, NumberItems
  <2> QED BY <2>1, <2>2
<1>2. ASSUME NEW s, NEW k
      PROVE  /\ Bool(Matches(s, k)) \in Items
             /\ Truthy(Bool(Matches(s, k))) <=> Matches(s, k)
  <2>1. CASE Matches(s, k)
    <3>1. Bool(Matches(s, k)) = It("num", OpN(1))
      BY <2>1 DEF Bool
    <3> QED BY <2>1, <3>1, NumberItems
  <2>2. CASE ~Matches(s, k)
    <3>1. Bool(Matches(s, k)) = It("num", OpN(0))
      BY <2>2 DEF Bool
    <3> QED BY <2>2, <3>1, NumberItems
  <2> QED BY <2>1, <2>2
<1> QED BY <1>1, <1>2

LEMMA OpType ==
  ASSUME NEW name \in Opcodes
  PROVE  Op(name) \in Tokens /\ Op(name).op = name
<1>1. << >> \in Seq(Items)
  BY EmptySeq
<1> QED BY <1>1 DEF Op, Tokens

LEMMA PushType ==
  ASSUME NEW items \in Seq(Items)
  PROVE  Pushes(items) \in Tokens /\ Pushes(items).op = "PUSH"
<1>1. "PUSH" \in Opcodes
  BY DEF Opcodes
<1>2. Pushes(items) = [op |-> "PUSH", items |-> items]
  BY Zenon DEF Pushes
<1>3. [op |-> "PUSH", items |-> items] \in Tokens
  BY <1>1 DEF Tokens
<1>4. [op |-> "PUSH", items |-> items].op = "PUSH"
  OBVIOUS
<1> QED BY <1>2, <1>3, <1>4, Zenon

LEMMA PushOneType ==
  ASSUME NEW x \in Items
  PROVE  Push(x) \in Tokens /\ Push(x).op = "PUSH"
<1>1. <<x>> \in Seq(Items)
  OBVIOUS
<1> QED BY <1>1, PushType DEF Push

SigItem(s) == It("sig", s)
KeyItem(k) == It("key", <<k>>)

\* A key and a signature pushed one by one.
LEMMA SingleItems ==
  ASSUME NEW k \in Nat, NEW s \in Seq(Nat)
  PROVE  /\ PushKey(k) = Push(KeyItem(k)) /\ KeyItem(k) \in Items
         /\ PushSig(s) = Push(SigItem(s)) /\ SigItem(s) \in Items
         /\ PushPre(k) = Push(It("pre", <<k>>)) /\ It("pre", <<k>>) \in Items
<1>1. [i \in 1 .. Len(<<k>>) |-> It("key", <<(<<k>>)[i]>>)] = <<KeyItem(k)>>
  BY DEF KeyItem
<1>2. PushKey(k) = Push(KeyItem(k))
  BY <1>1, Zenon DEF PushKey, PushKeys, Push
<1>3. [i \in 1 .. Len(<<s>>) |-> It("sig", (<<s>>)[i])] = <<SigItem(s)>>
  BY DEF SigItem
<1>4. PushSig(s) = Push(SigItem(s))
  BY <1>3, Zenon DEF PushSig, PushSigs, Push
<1>5. <<k>> \in Seq(Nat)
  OBVIOUS
<1>6. KeyItem(k) \in Items /\ SigItem(s) \in Items /\ It("pre", <<k>>) \in Items
  BY <1>5, ItemTypes DEF KeyItem, SigItem
<1> QED BY <1>2, <1>4, <1>6 DEF PushPre

\* A signature verifies under its own key and for its own transaction.
LEMMA CheckSigOf ==
  ASSUME NEW k \in Nat, NEW s \in Seq(Nat)
  PROVE  CheckSig(SigItem(s), KeyItem(k)) <=> s = <<k, 1>>
BY DEF CheckSig, SigItem, KeyItem, It

\* Different keys and different preimages have different hashes.
LEMMA HashOf ==
  ASSUME NEW k \in Nat, NEW l \in Nat
  PROVE  /\ Hash160(KeyItem(k)) \in Items /\ Hash160(It("pre", <<k>>)) \in Items
         /\ Hash160(KeyItem(k)) = Hash160(KeyItem(l)) <=> k = l
         /\ Hash160(It("pre", <<k>>)) = Hash160(It("pre", <<l>>)) <=> k = l
<1>1. ASSUME NEW c \in Nat, NEW j \in Nat
      PROVE  <<c>> \o <<j>> \in Seq(Nat) /\ (<<c>> \o <<j>>)[2] = j
  <2>1. PICK x, y : x = <<c>> /\ y = <<j>>
    OBVIOUS
  <2>2. x \in Seq(Nat) /\ y \in Seq(Nat) /\ Len(x) = 1 /\ Len(y) = 1 /\ y[1] = j
    BY <2>1
  <2>3. /\ x \o y \in Seq(Nat)
        /\ \A i \in 1 .. Len(x) + Len(y) : (x \o y)[i] = IF i <= Len(x) THEN x[i] ELSE y[i - Len(x)]
    BY <2>2, ConcatProperties
  <2>4. (x \o y)[2] = j
    <3>1. Len(x) + Len(y) = 2 /\ ~(2 <= Len(x)) /\ 2 - Len(x) = 1 /\ 2 \in 1 .. 2
      BY <2>2
    <3>2. (x \o y)[2] = IF 2 <= Len(x) THEN x[2] ELSE y[2 - Len(x)]
      BY <2>3, <3>1
    <3> QED BY <2>2, <3>1, <3>2
  <2> QED BY <2>1, <2>3, <2>4
<1>2. \A j : /\ Hash160(KeyItem(j)) = It("hash", <<1>> \o <<j>>)
             /\ Hash160(It("pre", <<j>>)) = It("hash", <<3>> \o <<j>>)
  BY DEF Hash160, KeyItem, It, Codes
<1>3. \A v, w : It("hash", v) = It("hash", w) <=> v = w
  BY DEF It
<1>4. \A j \in Nat : /\ <<1>> \o <<j>> \in Seq(Nat) /\ (<<1>> \o <<j>>)[2] = j
                     /\ <<3>> \o <<j>> \in Seq(Nat) /\ (<<3>> \o <<j>>)[2] = j
  BY <1>1
<1>5. /\ It("hash", <<1>> \o <<k>>) \in Items /\ It("hash", <<3>> \o <<k>>) \in Items
  BY <1>4, ItemTypes
<1>6. /\ Hash160(KeyItem(k)) = Hash160(KeyItem(l)) <=> <<1>> \o <<k>> = <<1>> \o <<l>>
      /\ Hash160(It("pre", <<k>>)) = Hash160(It("pre", <<l>>)) <=> <<3>> \o <<k>> = <<3>> \o <<l>>
  <2>1. /\ Hash160(KeyItem(k)) = It("hash", <<1>> \o <<k>>)
        /\ Hash160(KeyItem(l)) = It("hash", <<1>> \o <<l>>)
        /\ Hash160(It("pre", <<k>>)) = It("hash", <<3>> \o <<k>>)
        /\ Hash160(It("pre", <<l>>)) = It("hash", <<3>> \o <<l>>)
    BY <1>2
  <2> QED BY <1>3, <2>1, Zenon
<1>7. \A i \in Nat : \A j \in Nat : /\ <<1>> \o <<i>> = <<1>> \o <<j>> => i = j
                                    /\ <<3>> \o <<i>> = <<3>> \o <<j>> => i = j
  BY <1>4, Zenon
<1>8. /\ <<1>> \o <<k>> = <<1>> \o <<l>> <=> k = l
      /\ <<3>> \o <<k>> = <<3>> \o <<l>> <=> k = l
  BY <1>7, Zenon
<1>9. Hash160(KeyItem(k)) \in Items /\ Hash160(It("pre", <<k>>)) \in Items
  BY <1>2, <1>5, Zenon
<1> QED BY <1>6, <1>8, <1>9, Zenon

\* A run of an unlocking script and then the locking script.
Executes(h, u, v) ==
    /\ h[0] = Machine(<< >>)
    /\ \A i \in 1 .. Len(u) : h[i] = Step(h[i - 1], u[i])
    /\ \A i \in 1 .. Len(v) : h[Len(u) + i] = Step(h[Len(u) + i - 1], v[i])
    /\ FoldLeft(Step, Machine(<< >>), u \o v) = h[Len(u) + Len(v)]

\* Both scripts are run, the locking script on what the unlocking one left.
LEMMA ExecutionExists ==
  ASSUME NEW u \in Seq(Tokens), NEW v \in Seq(Tokens)
  PROVE  \E h : Executes(h, u, v)
<1>1. PICK t, a, b : t = u \o v /\ a = Len(u) /\ b = Len(v)
  OBVIOUS
<1>2. a \in Nat /\ b \in Nat
  BY <1>1, LenProperties
<1>3. /\ t \in Seq(Tokens) /\ Len(t) = a + b
      /\ \A i \in 1 .. a + b : t[i] = IF i <= a THEN u[i] ELSE v[i - a]
  BY <1>1, ConcatProperties
<1>4. a + b \in Nat /\ DOMAIN t = 1 .. a + b
  BY <1>2, <1>3, LenProperties
<1>5. PICK h : IsRun(h, Machine(<< >>), t, a + b)
  BY <1>4, RunExists
<1>6. /\ h[0] = Machine(<< >>)
      /\ \A i \in 1 .. a + b : h[i] = Step(h[i - 1], t[i])
      /\ FoldLeft(Step, Machine(<< >>), t) = h[a + b]
  BY <1>5, Zenon DEF IsRun
<1>7. ASSUME NEW i \in 1 .. a PROVE h[i] = Step(h[i - 1], u[i])
  <2>1. i \in 1 .. a + b /\ i <= a
    BY <1>2
  <2> QED BY <1>3, <1>6, <2>1
<1>8. ASSUME NEW i \in 1 .. b PROVE h[a + i] = Step(h[a + i - 1], v[i])
  <2>1. a + i \in 1 .. a + b /\ ~(a + i <= a) /\ (a + i) - a = i
    BY <1>2
  <2>2. t[a + i] = v[i]
    BY <1>3, <2>1
  <2>3. h[a + i] = Step(h[a + i - 1], t[a + i])
    <3>1. PICK j : j = a + i
      OBVIOUS
    <3>2. h[j] = Step(h[j - 1], t[j])
      BY <1>6, <2>1, <3>1
    <3>3. j - 1 = a + i - 1
      BY <1>2, <3>1
    <3> QED BY <3>1, <3>2, <3>3, Zenon
  <2> QED BY <2>2, <2>3
<1>9. Executes(h, u, v)
  BY <1>1, <1>6, <1>7, <1>8, Zenon DEF Executes
<1> QED BY <1>9

LEMMA Started ==
  On(Machine(<< >>), << >>) /\ << >> \in Seq(Items)
BY EmptySeq DEF On, Fields, Machine

\* What is left on the stack decides.
LEMMA Ends ==
  ASSUME NEW u, NEW v, NEW m, m = FoldLeft(Step, Machine(<< >>), u \o v)
  PROVE  /\ Failed(m) => ~Verifies(u, v)
         /\ \A x \in Items : On(m, Append(<< >>, x)) => (Verifies(u, v) <=> Truthy(x))
<1>1. Verifies(u, v) <=> m.ok /\ m.stack # << >> /\ Truthy(Last(m.stack))
  BY DEF Verifies
<1>2. ASSUME NEW x \in Items
      PROVE  Append(<< >>, x) # << >> /\ Last(Append(<< >>, x)) = x
  <2>1. PICK s : s = Append(<< >>, x)
    OBVIOUS
  <2>2. s \in Seq(Items) /\ Len(s) = 1 /\ s[1] = x
    BY <2>1, EmptySeq, AppendProperties
  <2>3. s # << >>
    <3>1. Len(<< >>) = 0
      BY EmptySeq
    <3> QED BY <2>2, <3>1
  <2> QED BY <2>1, <2>2, <2>3 DEF Last
<1>3. ASSUME NEW x \in Items, On(m, Append(<< >>, x))
      PROVE  Verifies(u, v) <=> Truthy(x)
  <2>1. m.ok /\ m.stack = Append(<< >>, x)
    BY <1>3 DEF On
  <2> QED BY <1>1, <1>2, <2>1, Zenon
<1>4. Failed(m) => ~Verifies(u, v)
  BY <1>1 DEF Failed
<1> QED BY <1>3, <1>4

-----------------------------------------------------------------------------
(***************************************************************************)
(* Each path of each output, run from the first token to the last.         *)
(***************************************************************************)

\* p2pkh: a signature of the owner and its key.
LEMMA P2pkhSpend ==
  ASSUME NEW s \in Seq(Nat), NEW k \in Nat, NEW o \in Nat
  PROVE  Verifies(P2pkhUnlock(s, k), P2pkhScript(o)) <=> k = o /\ s = <<k, 1>>
<1>1. PICK u, v : u = P2pkhUnlock(s, k) /\ v = P2pkhScript(o)
  OBVIOUS
<1> DEFINE Sg == SigItem(s)
           Ky == KeyItem(k)
           H == Hash160(KeyItem(o))
<1>2. Sg \in Items /\ Ky \in Items /\ H \in Items /\ Hash160(Ky) \in Items
  BY SingleItems, HashOf
<1>3. u = <<Push(Sg), Push(Ky)>>
  BY <1>1, SingleItems DEF P2pkhUnlock
<1>4. v = <<Op("OP_DUP"), Op("OP_HASH160"), Push(H), Op("OP_EQUALVERIFY"), Op("OP_CHECKSIG")>>
  BY <1>1 DEF P2pkhScript, KeyItem
<1>5. (Hash160(Ky) = H <=> k = o) /\ (CheckSig(Sg, Ky) <=> s = <<k, 1>>)
  BY HashOf, CheckSigOf
<1> HIDE DEF Sg, Ky, H
<1>6. u \in Seq(Tokens) /\ v \in Seq(Tokens)
  <2>1. /\ Push(Sg) \in Tokens /\ Push(Ky) \in Tokens /\ Push(H) \in Tokens
    BY <1>2, PushOneType
  <2>2. /\ Op("OP_DUP") \in Tokens /\ Op("OP_HASH160") \in Tokens
        /\ Op("OP_EQUALVERIFY") \in Tokens /\ Op("OP_CHECKSIG") \in Tokens
    BY OpType DEF Opcodes
  <2> QED BY <1>3, <1>4, <2>1, <2>2
<1>7. PICK h : Executes(h, u, v)
  BY <1>6, ExecutionExists
<1>8. /\ h[0] = Machine(<< >>)
      /\ h[1] = Step(h[0], Push(Sg)) /\ h[2] = Step(h[1], Push(Ky))
      /\ h[3] = Step(h[2], Op("OP_DUP")) /\ h[4] = Step(h[3], Op("OP_HASH160"))
      /\ h[5] = Step(h[4], Push(H)) /\ h[6] = Step(h[5], Op("OP_EQUALVERIFY"))
      /\ h[7] = Step(h[6], Op("OP_CHECKSIG"))
      /\ FoldLeft(Step, Machine(<< >>), u \o v) = h[7]
  <2>1. Len(u) = 2 /\ Len(v) = 5
    BY <1>3, <1>4
  <2>2. /\ \A i \in 1 .. 2 : h[i] = Step(h[i - 1], u[i])
        /\ \A i \in 1 .. 5 : h[2 + i] = Step(h[2 + i - 1], v[i])
        /\ FoldLeft(Step, Machine(<< >>), u \o v) = h[2 + 5]
    BY <1>7, <2>1 DEF Executes
  <2>3. h[1] = Step(h[0], u[1]) /\ h[2] = Step(h[1], u[2])
    BY <2>2
  <2>4. /\ h[3] = Step(h[2], v[1]) /\ h[4] = Step(h[3], v[2]) /\ h[5] = Step(h[4], v[3])
        /\ h[6] = Step(h[5], v[4]) /\ h[7] = Step(h[6], v[5])
    BY <2>2
  <2>5. h[0] = Machine(<< >>)
    BY <1>7 DEF Executes
  <2>6. FoldLeft(Step, Machine(<< >>), u \o v) = h[7]
    <3>1. 2 + 5 = 7
      OBVIOUS
    <3> QED BY <2>2, <3>1, Zenon
  <2>7. /\ u[1] = Push(Sg) /\ u[2] = Push(Ky)
        /\ v[1] = Op("OP_DUP") /\ v[2] = Op("OP_HASH160") /\ v[3] = Push(H)
        /\ v[4] = Op("OP_EQUALVERIFY") /\ v[5] = Op("OP_CHECKSIG")
    BY <1>3, <1>4
  <2> QED BY <2>3, <2>4, <2>5, <2>6, <2>7, Zenon
<1>9. On(h[2], Append(Append(<< >>, Sg), Ky))
  <2>1. On(h[1], Append(<< >>, Sg))
    BY <1>2, <1>8, Started, PushOne
  <2>2. Append(<< >>, Sg) \in Seq(Items)
    BY <1>2, Started, AppendProperties
  <2> QED BY <1>2, <1>8, <2>1, <2>2, PushOne
<1> DEFINE r == Append(<< >>, Sg)
<1>10. r \in Seq(Items) /\ Append(r, Ky) \in Seq(Items)
  BY <1>2, Started, AppendProperties
<1>11. On(h[3], Append(Append(r, Ky), Ky))
  BY <1>2, <1>8, <1>9, <1>10, DupIs
<1>12. On(h[4], Append(Append(r, Ky), Hash160(Ky)))
  BY <1>2, <1>8, <1>10, <1>11, HashIs
<1>13. On(h[5], Append(Append(Append(r, Ky), Hash160(Ky)), H))
  <2>1. Append(Append(r, Ky), Hash160(Ky)) \in Seq(Items)
    BY <1>2, <1>10, AppendProperties
  <2> QED BY <1>2, <1>8, <1>12, <2>1, PushOne
<1>14. CASE Hash160(Ky) # H
  <2>1. Failed(h[6])
    BY <1>2, <1>8, <1>10, <1>13, <1>14, EqualIs
  <2>2. Failed(h[7])
    BY <1>8, <2>1, FailedStays
  <2> QED BY <1>1, <1>5, <1>8, <1>14, <2>2, Ends
<1>15. CASE Hash160(Ky) = H
  <2>1. On(h[6], Append(r, Ky))
    BY <1>2, <1>8, <1>10, <1>13, <1>15, EqualIs
  <2>2. On(h[7], Append(<< >>, Bool(CheckSig(Sg, Ky))))
    BY <1>2, <1>8, <2>1, Started, CheckSigIs
  <2>3. Verifies(u, v) <=> Truthy(Bool(CheckSig(Sg, Ky)))
    BY <1>8, <2>2, Verdicts, Ends
  <2> QED BY <1>1, <1>5, <1>15, <2>3, Verdicts
<1> QED BY <1>14, <1>15

\* The tokens of a hop's output, and that its opcodes are skipped where they are
\* not selected.
SelectorOps == {"OP_ELSE", "OP_ENDIF"}

LEMMA Skippable ==
  /\ Op("OP_IF").op \notin SelectorOps /\ Op("OP_HASH160").op \notin SelectorOps
  /\ Op("OP_EQUALVERIFY").op \notin SelectorOps /\ Op("OP_CHECKSIG").op \notin SelectorOps
  /\ Op("OP_CHECKMULTISIG").op \notin SelectorOps
  /\ \A x : Push(x).op \notin SelectorOps
  /\ \A items : Pushes(items).op \notin SelectorOps
BY DEF Op, Push, Pushes, SelectorOps

LEMMA SkipOne ==
  ASSUME NEW m, NEW s, Off(m, s), NEW t, t.op \notin SelectorOps
  PROVE  Off(Step(m, t), s)
BY Skipped DEF SelectorOps

LEMMA HopTokens ==
  ASSUME NEW I \in Items, NEW E \in Nat, NEW R \in Nat, NEW v, v = HopScript(I, E, R)
  PROVE  /\ v \in Seq(Tokens)
         /\ v = << Op("OP_IF"), Op("OP_HASH160"), Push(I), Op("OP_EQUALVERIFY"),
                   Push(KeyItem(E)), Op("OP_CHECKSIG"), Op("OP_ELSE"), Push(KeyItem(R)),
                   Op("OP_CHECKSIG"), Op("OP_ENDIF") >>
<1>1. PushKey(E) = Push(KeyItem(E)) /\ PushKey(R) = Push(KeyItem(R))
      /\ KeyItem(E) \in Items /\ KeyItem(R) \in Items
  <2>1. << >> \in Seq(Nat)
    BY EmptySeq
  <2> QED BY <2>1, SingleItems
<1>2. v = << Op("OP_IF"), Op("OP_HASH160"), Push(I), Op("OP_EQUALVERIFY"),
             Push(KeyItem(E)), Op("OP_CHECKSIG"), Op("OP_ELSE"), Push(KeyItem(R)),
             Op("OP_CHECKSIG"), Op("OP_ENDIF") >>
  BY <1>1, Zenon DEF HopScript
<1>3. /\ Push(I) \in Tokens /\ Push(KeyItem(E)) \in Tokens /\ Push(KeyItem(R)) \in Tokens
  BY <1>1, PushOneType
<1>4. /\ Op("OP_IF") \in Tokens /\ Op("OP_HASH160") \in Tokens /\ Op("OP_EQUALVERIFY") \in Tokens
      /\ Op("OP_CHECKSIG") \in Tokens /\ Op("OP_ELSE") \in Tokens /\ Op("OP_ENDIF") \in Tokens
  BY OpType DEF Opcodes
<1> QED BY <1>2, <1>3, <1>4

\* A hop, returned: the payer's signature.
LEMMA HopReturnSpend ==
  ASSUME NEW s \in Seq(Nat), NEW x \in Nat, NEW e \in Nat, NEW r \in Nat
  PROVE  Verifies(HopReturnUnlock(s), HopScript(Hash160(It("pre", <<x>>)), e, r)) <=> s = <<r, 1>>
<1>1. PICK u, v : u = HopReturnUnlock(s) /\ v = HopScript(Hash160(It("pre", <<x>>)), e, r)
  OBVIOUS
<1> DEFINE Sg == SigItem(s)
           E == KeyItem(e)
           R == KeyItem(r)
           I == Hash160(It("pre", <<x>>))
           Z == It("num", OpN(0))
<1>2. Sg \in Items /\ E \in Items /\ R \in Items /\ I \in Items /\ Z \in Items /\ ~Truthy(Z)
  BY SingleItems, HashOf, NumberItems
<1>3. u = <<Push(Sg), Push(Z)>>
  BY <1>1, SingleItems, Zenon DEF HopReturnUnlock, PushNum
<1>4a. v \in Seq(Tokens) /\ v = << Op("OP_IF"), Op("OP_HASH160"), Push(I), Op("OP_EQUALVERIFY"),
                Push(E), Op("OP_CHECKSIG"), Op("OP_ELSE"), Push(R),
                Op("OP_CHECKSIG"), Op("OP_ENDIF") >>
  BY <1>1, <1>2, HopTokens
<1>4. v = << Op("OP_IF"), Op("OP_HASH160"), Push(I), Op("OP_EQUALVERIFY"),
                Push(E), Op("OP_CHECKSIG"), Op("OP_ELSE"), Push(R),
                Op("OP_CHECKSIG"), Op("OP_ENDIF") >>
  BY <1>4a, Zenon
<1>5. CheckSig(Sg, R) <=> s = <<r, 1>>
  BY CheckSigOf
<1> HIDE DEF Sg, E, R, I, Z
<1>6. u \in Seq(Tokens)
  <2>1. /\ Push(Sg) \in Tokens /\ Push(Z) \in Tokens
    BY <1>2, PushOneType
  <2> QED BY <1>3, <2>1
<1>7. PICK h : Executes(h, u, v)
  BY <1>4a, <1>6, ExecutionExists
<1>8. /\ h[0] = Machine(<< >>)
      /\ h[1] = Step(h[0], Push(Sg))
      /\ h[2] = Step(h[1], Push(Z))
      /\ h[3] = Step(h[2], Op("OP_IF"))
      /\ h[4] = Step(h[3], Op("OP_HASH160"))
      /\ h[5] = Step(h[4], Push(I))
      /\ h[6] = Step(h[5], Op("OP_EQUALVERIFY"))
      /\ h[7] = Step(h[6], Push(E))
      /\ h[8] = Step(h[7], Op("OP_CHECKSIG"))
      /\ h[9] = Step(h[8], Op("OP_ELSE"))
      /\ h[10] = Step(h[9], Push(R))
      /\ h[11] = Step(h[10], Op("OP_CHECKSIG"))
      /\ h[12] = Step(h[11], Op("OP_ENDIF"))
      /\ FoldLeft(Step, Machine(<< >>), u \o v) = h[12]
  <2>1. Len(u) = 2 /\ Len(v) = 10
    BY <1>3, <1>4
  <2>2. /\ \A i \in 1 .. 2 : h[i] = Step(h[i - 1], u[i])
        /\ \A i \in 1 .. 10 : h[2 + i] = Step(h[2 + i - 1], v[i])
        /\ FoldLeft(Step, Machine(<< >>), u \o v) = h[2 + 10]
    BY <1>7, <2>1 DEF Executes
  <2>3. /\ h[1] = Step(h[0], u[1])
        /\ h[2] = Step(h[1], u[2])
    BY <2>2
  <2>4. /\ h[3] = Step(h[2], v[1])
        /\ h[4] = Step(h[3], v[2])
        /\ h[5] = Step(h[4], v[3])
        /\ h[6] = Step(h[5], v[4])
        /\ h[7] = Step(h[6], v[5])
        /\ h[8] = Step(h[7], v[6])
        /\ h[9] = Step(h[8], v[7])
        /\ h[10] = Step(h[9], v[8])
        /\ h[11] = Step(h[10], v[9])
        /\ h[12] = Step(h[11], v[10])
    BY <2>2
  <2>5. h[0] = Machine(<< >>)
    BY <1>7 DEF Executes
  <2>6. FoldLeft(Step, Machine(<< >>), u \o v) = h[12]
    <3>1. 2 + 10 = 12
      OBVIOUS
    <3> QED BY <2>2, <3>1, Zenon
  <2>7. /\ u[1] = Push(Sg)
        /\ u[2] = Push(Z)
        /\ v[1] = Op("OP_IF")
        /\ v[2] = Op("OP_HASH160")
        /\ v[3] = Push(I)
        /\ v[4] = Op("OP_EQUALVERIFY")
        /\ v[5] = Push(E)
        /\ v[6] = Op("OP_CHECKSIG")
        /\ v[7] = Op("OP_ELSE")
        /\ v[8] = Push(R)
        /\ v[9] = Op("OP_CHECKSIG")
        /\ v[10] = Op("OP_ENDIF")
    BY <1>3, <1>4
  <2> QED BY <2>3, <2>4, <2>5, <2>6, <2>7, Zenon
<1> DEFINE q == Append(<< >>, Sg)
<1>9. q \in Seq(Items)
  BY <1>2, Started, AppendProperties
<1>10. On(h[1], q)
  BY <1>2, <1>8, Started, PushOne
<1>11. On(h[2], Append(q, Z))
  BY <1>2, <1>8, <1>9, <1>10, PushOne
<1>12. Off(h[3], q)
  BY <1>2, <1>8, <1>9, <1>11, IfIs
<1>13. Off(h[8], q)
  <2>1. Off(h[4], q)
    BY <1>8, <1>12, Skippable, SkipOne
  <2>2. Off(h[5], q)
    BY <1>8, <2>1, Skippable, SkipOne
  <2>3. Off(h[6], q)
    BY <1>8, <2>2, Skippable, SkipOne
  <2>4. Off(h[7], q)
    BY <1>8, <2>3, Skippable, SkipOne
  <2> QED BY <1>8, <2>4, Skippable, SkipOne
<1>14. On(h[9], q)
  BY <1>8, <1>13, ElseIs
<1>15. On(h[10], Append(q, R))
  BY <1>2, <1>8, <1>9, <1>14, PushOne
<1>16. On(h[11], Append(<< >>, Bool(CheckSig(Sg, R))))
  BY <1>2, <1>8, <1>15, Started, CheckSigIs
<1>17. On(h[12], Append(<< >>, Bool(CheckSig(Sg, R))))
  BY <1>8, <1>16, EndifIs
<1>18. Verifies(u, v) <=> Truthy(Bool(CheckSig(Sg, R)))
  BY <1>8, <1>17, Verdicts, Ends
<1> QED BY <1>1, <1>5, <1>18, Verdicts

\* A hop, claimed: the payee's signature and the preimage.
LEMMA HopClaimSpend ==
  ASSUME NEW s \in Seq(Nat), NEW x \in Nat, NEW y \in Nat, NEW e \in Nat, NEW r \in Nat
  PROVE  Verifies(HopClaimUnlock(s, y), HopScript(Hash160(It("pre", <<x>>)), e, r)) <=>
           s = <<e, 1>> /\ y = x
<1>1. PICK u, v : u = HopClaimUnlock(s, y) /\ v = HopScript(Hash160(It("pre", <<x>>)), e, r)
  OBVIOUS
<1> DEFINE Sg == SigItem(s)
           E == KeyItem(e)
           R == KeyItem(r)
           I == Hash160(It("pre", <<x>>))
           Y == It("pre", <<y>>)
           O == It("num", OpN(1))
<1>2. /\ Sg \in Items /\ E \in Items /\ R \in Items /\ I \in Items /\ O \in Items /\ Truthy(O)
      /\ Y \in Items /\ Hash160(Y) \in Items
  BY SingleItems, HashOf, NumberItems
<1>3. u = <<Push(Sg), Push(Y), Push(O)>>
  BY <1>1, SingleItems, Zenon DEF HopClaimUnlock, PushNum
<1>4a. v \in Seq(Tokens) /\ v = << Op("OP_IF"), Op("OP_HASH160"), Push(I), Op("OP_EQUALVERIFY"),
                Push(E), Op("OP_CHECKSIG"), Op("OP_ELSE"), Push(R),
                Op("OP_CHECKSIG"), Op("OP_ENDIF") >>
  BY <1>1, <1>2, HopTokens
<1>4. v = << Op("OP_IF"), Op("OP_HASH160"), Push(I), Op("OP_EQUALVERIFY"),
                Push(E), Op("OP_CHECKSIG"), Op("OP_ELSE"), Push(R),
                Op("OP_CHECKSIG"), Op("OP_ENDIF") >>
  BY <1>4a, Zenon
<1>5. (CheckSig(Sg, E) <=> s = <<e, 1>>) /\ (Hash160(Y) = I <=> y = x)
  BY CheckSigOf, HashOf
<1> HIDE DEF Sg, E, R, I, Y, O
<1>6. u \in Seq(Tokens)
  <2>1. /\ Push(Sg) \in Tokens /\ Push(Y) \in Tokens /\ Push(O) \in Tokens
    BY <1>2, PushOneType
  <2> QED BY <1>3, <2>1
<1>7. PICK h : Executes(h, u, v)
  BY <1>4a, <1>6, ExecutionExists
<1>8. /\ h[0] = Machine(<< >>)
      /\ h[1] = Step(h[0], Push(Sg))
      /\ h[2] = Step(h[1], Push(Y))
      /\ h[3] = Step(h[2], Push(O))
      /\ h[4] = Step(h[3], Op("OP_IF"))
      /\ h[5] = Step(h[4], Op("OP_HASH160"))
      /\ h[6] = Step(h[5], Push(I))
      /\ h[7] = Step(h[6], Op("OP_EQUALVERIFY"))
      /\ h[8] = Step(h[7], Push(E))
      /\ h[9] = Step(h[8], Op("OP_CHECKSIG"))
      /\ h[10] = Step(h[9], Op("OP_ELSE"))
      /\ h[11] = Step(h[10], Push(R))
      /\ h[12] = Step(h[11], Op("OP_CHECKSIG"))
      /\ h[13] = Step(h[12], Op("OP_ENDIF"))
      /\ FoldLeft(Step, Machine(<< >>), u \o v) = h[13]
  <2>1. Len(u) = 3 /\ Len(v) = 10
    BY <1>3, <1>4
  <2>2. /\ \A i \in 1 .. 3 : h[i] = Step(h[i - 1], u[i])
        /\ \A i \in 1 .. 10 : h[3 + i] = Step(h[3 + i - 1], v[i])
        /\ FoldLeft(Step, Machine(<< >>), u \o v) = h[3 + 10]
    BY <1>7, <2>1 DEF Executes
  <2>3. /\ h[1] = Step(h[0], u[1])
        /\ h[2] = Step(h[1], u[2])
        /\ h[3] = Step(h[2], u[3])
    BY <2>2
  <2>4. /\ h[4] = Step(h[3], v[1])
        /\ h[5] = Step(h[4], v[2])
        /\ h[6] = Step(h[5], v[3])
        /\ h[7] = Step(h[6], v[4])
        /\ h[8] = Step(h[7], v[5])
        /\ h[9] = Step(h[8], v[6])
        /\ h[10] = Step(h[9], v[7])
        /\ h[11] = Step(h[10], v[8])
        /\ h[12] = Step(h[11], v[9])
        /\ h[13] = Step(h[12], v[10])
    BY <2>2
  <2>5. h[0] = Machine(<< >>)
    BY <1>7 DEF Executes
  <2>6. FoldLeft(Step, Machine(<< >>), u \o v) = h[13]
    <3>1. 3 + 10 = 13
      OBVIOUS
    <3> QED BY <2>2, <3>1, Zenon
  <2>7. /\ u[1] = Push(Sg)
        /\ u[2] = Push(Y)
        /\ u[3] = Push(O)
        /\ v[1] = Op("OP_IF")
        /\ v[2] = Op("OP_HASH160")
        /\ v[3] = Push(I)
        /\ v[4] = Op("OP_EQUALVERIFY")
        /\ v[5] = Push(E)
        /\ v[6] = Op("OP_CHECKSIG")
        /\ v[7] = Op("OP_ELSE")
        /\ v[8] = Push(R)
        /\ v[9] = Op("OP_CHECKSIG")
        /\ v[10] = Op("OP_ENDIF")
    BY <1>3, <1>4
  <2> QED BY <2>3, <2>4, <2>5, <2>6, <2>7, Zenon
<1> DEFINE q == Append(<< >>, Sg)
<1>9. q \in Seq(Items) /\ Append(q, Y) \in Seq(Items) /\ Append(q, Hash160(Y)) \in Seq(Items)
  BY <1>2, Started, AppendProperties
<1>10. On(h[1], q)
  BY <1>2, <1>8, Started, PushOne
<1>11. On(h[2], Append(q, Y))
  BY <1>2, <1>8, <1>9, <1>10, PushOne
<1>12. On(h[3], Append(Append(q, Y), O))
  BY <1>2, <1>8, <1>9, <1>11, PushOne
<1>13. On(h[4], Append(q, Y))
  BY <1>2, <1>8, <1>9, <1>12, IfIs
<1>14. On(h[5], Append(q, Hash160(Y)))
  BY <1>2, <1>8, <1>9, <1>13, HashIs
<1>15. On(h[6], Append(Append(q, Hash160(Y)), I))
  BY <1>2, <1>8, <1>9, <1>14, PushOne
<1>16. CASE Hash160(Y) # I
  <2>1. Failed(h[7])
    BY <1>2, <1>8, <1>9, <1>15, <1>16, EqualIs
  <2>2. Failed(h[8])
    BY <1>8, <2>1, FailedStays
  <2>3. Failed(h[9])
    BY <1>8, <2>2, FailedStays
  <2>4. Failed(h[10])
    BY <1>8, <2>3, FailedStays
  <2>5. Failed(h[11])
    BY <1>8, <2>4, FailedStays
  <2>6. Failed(h[12])
    BY <1>8, <2>5, FailedStays
  <2>7. Failed(h[13])
    BY <1>8, <2>6, FailedStays
  <2> QED BY <1>1, <1>5, <1>8, <1>16, <2>7, Ends
<1>17. CASE Hash160(Y) = I
  <2>1. On(h[7], q)
    BY <1>2, <1>8, <1>9, <1>15, <1>17, EqualIs
  <2>2. On(h[8], Append(q, E))
    BY <1>2, <1>8, <1>9, <2>1, PushOne
  <2> DEFINE V == Append(<< >>, Bool(CheckSig(Sg, E)))
  <2>3. On(h[9], V)
    BY <1>2, <1>8, <2>2, Started, CheckSigIs
  <2> HIDE DEF V
  <2>4. Off(h[10], V)
    BY <1>8, <2>3, ElseIs
  <2>5. Off(h[11], V)
    BY <1>8, <2>4, Skippable, SkipOne
  <2>6. Off(h[12], V)
    BY <1>8, <2>5, Skippable, SkipOne
  <2>7. On(h[13], V)
    BY <1>8, <2>6, EndifIs
  <2>8. Verifies(u, v) <=> Truthy(Bool(CheckSig(Sg, E)))
    BY <1>8, <2>7, Verdicts, Ends DEF V
  <2> QED BY <1>1, <1>5, <1>17, <2>8, Verdicts
<1> QED BY <1>16, <1>17

KeyItems(keys) == [i \in 1 .. Len(keys) |-> KeyItem(keys[i])]
SigItems(ss) == [i \in 1 .. Len(ss) |-> SigItem(ss[i])]

\* Keys and signatures pushed as a list.
LEMMA ManyItems ==
  ASSUME NEW keys \in Seq(Nat), NEW ss \in Seq(Seq(Nat))
  PROVE  /\ KeyItems(keys) \in Seq(Items) /\ Len(KeyItems(keys)) = Len(keys)
         /\ SigItems(ss) \in Seq(Items) /\ Len(SigItems(ss)) = Len(ss)
         /\ PushKeys(keys) = Pushes(KeyItems(keys))
         /\ PushSigs(ss) = Pushes(SigItems(ss))
<1>1. PICK n, k : n = Len(keys) /\ k = Len(ss)
  OBVIOUS
<1>2. n \in Nat /\ k \in Nat
  BY <1>1, LenProperties
<1>3. \A i \in 1 .. n : KeyItem(keys[i]) \in Items
  <2>1. \A x \in Nat : KeyItem(x) \in Items
    BY SingleItems, EmptySeq
  <2>2. \A i \in 1 .. n : keys[i] \in Nat
    BY <1>1, ElementOfSeq
  <2> QED BY <2>1, <2>2
<1>4. \A i \in 1 .. k : SigItem(ss[i]) \in Items
  <2>1. \A x \in Seq(Nat) : SigItem(x) \in Items
    BY SingleItems
  <2>2. \A i \in 1 .. k : ss[i] \in Seq(Nat)
    BY <1>1, ElementOfSeq
  <2> QED BY <2>1, <2>2
<1>5. KeyItems(keys) \in [1 .. n -> Items]
  BY <1>1, <1>3 DEF KeyItems
<1>6. SigItems(ss) \in [1 .. k -> Items]
  BY <1>1, <1>4 DEF SigItems
<1>7. KeyItems(keys) \in Seq(Items) /\ Len(KeyItems(keys)) = n
  <2>1. PICK f : f = KeyItems(keys)
    OBVIOUS
  <2>2. f \in Seq(Items)
    BY <1>2, <1>5, <2>1, SeqDef
  <2>3. Len(f) = n
    BY <1>2, <1>5, <2>1, <2>2, LenProperties
  <2> QED BY <2>1, <2>2, <2>3
<1>8. SigItems(ss) \in Seq(Items) /\ Len(SigItems(ss)) = k
  <2>1. PICK f : f = SigItems(ss)
    OBVIOUS
  <2>2. f \in Seq(Items)
    BY <1>2, <1>6, <2>1, SeqDef
  <2>3. Len(f) = k
    BY <1>2, <1>6, <2>1, <2>2, LenProperties
  <2> QED BY <2>1, <2>2, <2>3
<1>9. PushKeys(keys) = Pushes(KeyItems(keys))
  BY Zenon DEF PushKeys, KeyItems, KeyItem
<1>10. PushSigs(ss) = Pushes(SigItems(ss))
  BY Zenon DEF PushSigs, SigItems, SigItem
<1> QED BY <1>1, <1>7, <1>8, <1>9, <1>10

\* The signatures of the keys, one each and in their order, for this transaction.
SignedBy(ss, keys) ==
    Len(ss) = Len(keys) /\ \A i \in 1 .. Len(keys) : ss[i] = <<keys[i], 1>>

LEMMA MatchesSigned ==
  ASSUME NEW keys \in Seq(Nat), NEW ss \in Seq(Seq(Nat)), Len(ss) = Len(keys)
  PROVE  Matches(SigItems(ss), KeyItems(keys)) <=> SignedBy(ss, keys)
<1>1. PICK n : n = Len(keys)
  OBVIOUS
<1>2. n \in Nat
  BY <1>1, LenProperties
<1>3. PICK Sg, Ky : Sg = SigItems(ss) /\ Ky = KeyItems(keys)
  OBVIOUS
<1>4. Sg \in Seq(Items) /\ Ky \in Seq(Items) /\ Len(Sg) = n /\ Len(Ky) = n
  BY <1>1, <1>3, ManyItems
<1>5. Matches(Sg, Ky) <=> \A i \in 1 .. n : CheckSig(Sg[i], Ky[i])
  BY <1>2, <1>4, MatchesIs
<1>6. ASSUME NEW i \in 1 .. n PROVE CheckSig(Sg[i], Ky[i]) <=> ss[i] = <<keys[i], 1>>
  <2>1. Sg[i] = SigItem(ss[i]) /\ Ky[i] = KeyItem(keys[i])
    BY <1>1, <1>3 DEF SigItems, KeyItems
  <2>2. ss[i] \in Seq(Nat) /\ keys[i] \in Nat
    BY <1>1, ElementOfSeq
  <2> QED BY <2>1, <2>2, CheckSigOf
<1> QED BY <1>1, <1>3, <1>5, <1>6 DEF SignedBy

LEMMA MultisigTokens ==
  ASSUME NEW keys \in Seq(Nat)
  PROVE  \E C \in Items :
           /\ C.kind = "num" /\ DecodeScriptNum(C.val) = Len(keys)
           /\ Multisig(keys) =
                << Push(C), Pushes(KeyItems(keys)), Push(C), Op("OP_CHECKMULTISIG") >>
<1>1. Len(keys) \in Nat
  BY LenProperties
<1>2. PICK bytes \in Seq(Nat) : /\ PushCount(Len(keys)) = Push(It("num", bytes))
                                /\ DecodeScriptNum(bytes) = Len(keys)
  BY <1>1, CountIs
<1>3. PICK C : C = It("num", bytes)
  OBVIOUS
<1>4. C \in Items
  BY <1>3, ItemTypes
<1>5. C.kind = "num" /\ C.val = bytes
  BY <1>3 DEF It
<1>6. PushKeys(keys) = Pushes(KeyItems(keys))
  BY ManyItems, EmptySeq
<1>7. Multisig(keys) = << Push(C), Pushes(KeyItems(keys)), Push(C), Op("OP_CHECKMULTISIG") >>
  BY <1>2, <1>3, <1>6, Zenon DEF Multisig
<1> QED BY <1>2, <1>4, <1>5, <1>7

\* The four tokens of a multisig, on the signatures and the dummy below them.
LEMMA MultisigRuns ==
  ASSUME NEW keys \in Seq(Nat), NEW ss \in Seq(Seq(Nat)), Len(ss) <= Len(keys),
         NEW C \in Items, C.kind = "num", DecodeScriptNum(C.val) = Len(keys),
         NEW Z \in Items,
         NEW m0, On(m0, Append(<< >>, Z) \o SigItems(ss)),
         NEW m1, m1 = Step(m0, Push(C)), NEW m2, m2 = Step(m1, Pushes(KeyItems(keys))),
         NEW m3, m3 = Step(m2, Push(C)), NEW m4, m4 = Step(m3, Op("OP_CHECKMULTISIG"))
  PROVE  \/ Failed(m4) /\ ~SignedBy(ss, keys)
         \/ \E x \in Items : On(m4, Append(<< >>, x)) /\ (Truthy(x) <=> SignedBy(ss, keys))
<1>1. PICK Sg, Ky, n : Sg = SigItems(ss) /\ Ky = KeyItems(keys) /\ n = Len(keys)
  OBVIOUS
<1>2. /\ Sg \in Seq(Items) /\ Ky \in Seq(Items) /\ Len(Sg) = Len(ss) /\ Len(Ky) = n /\ n \in Nat
      /\ Len(ss) <= n
  BY <1>1, ManyItems, LenProperties
<1>3. PICK a, b, c : /\ a = Append(<< >>, Z) \o Sg /\ b = Append(a, C) /\ c = b \o Ky
  OBVIOUS
<1>4. a \in Seq(Items)
  <2>1. Append(<< >>, Z) \in Seq(Items)
    BY Started, AppendProperties
  <2> QED BY <1>2, <1>3, <2>1, ConcatProperties
<1>5. b \in Seq(Items)
  BY <1>3, <1>4, AppendProperties
<1>6. c \in Seq(Items)
  BY <1>2, <1>3, <1>5, ConcatProperties
<1>7. On(m1, b)
  BY <1>1, <1>3, <1>4, PushOne
<1>8. On(m2, c)
  BY <1>1, <1>3, <1>7, PushIs
<1>9. On(m3, Append(c, C))
  BY <1>6, <1>8, PushOne
<1>10. Append(c, C) = MultisigStack(Z, Sg, C, Ky)
  BY <1>3 DEF MultisigStack
<1>11. On(m3, MultisigStack(Z, Sg, C, Ky))
  BY <1>9, <1>10, Zenon
<1>12. /\ Len(Sg) = n => On(m4, Append(<< >>, Bool(Matches(Sg, Ky))))
       /\ Len(Sg) # n => Failed(m4)
  BY <1>1, <1>2, <1>11, MultisigIs
<1>13. CASE Len(ss) # n
  BY <1>1, <1>2, <1>12, <1>13 DEF SignedBy
<1>14. CASE Len(ss) = n
  <2>1. Matches(Sg, Ky) <=> SignedBy(ss, keys)
    BY <1>1, <1>14, MatchesSigned
  <2>2. PICK x : x = Bool(Matches(Sg, Ky))
    OBVIOUS
  <2>3. x \in Items /\ (Truthy(x) <=> SignedBy(ss, keys))
    BY <2>1, <2>2, Verdicts
  <2>4. On(m4, Append(<< >>, x))
    BY <1>2, <1>12, <1>14, <2>2
  <2> QED BY <2>3, <2>4
<1> QED BY <1>13, <1>14

\* A channel's funding output: a signature of everyone, in the order of the keys.
LEMMA FundingSpend ==
  ASSUME NEW keys \in Seq(Nat), NEW ss \in Seq(Seq(Nat)), Len(ss) <= Len(keys)
  PROVE  Verifies(ChannelFundingUnlock(ss), ChannelFundingScript(keys)) <=> SignedBy(ss, keys)
<1>1. PICK u, v : u = ChannelFundingUnlock(ss) /\ v = ChannelFundingScript(keys)
  OBVIOUS
<1>2a. PICK C \in Items :
         /\ C.kind = "num" /\ DecodeScriptNum(C.val) = Len(keys)
         /\ Multisig(keys) = << Push(C), Pushes(KeyItems(keys)), Push(C), Op("OP_CHECKMULTISIG") >>
  BY MultisigTokens
<1> DEFINE Z == It("num", OpN(0))
           Sg == SigItems(ss)
           Ky == KeyItems(keys)
<1>2. Z \in Items /\ Sg \in Seq(Items) /\ Ky \in Seq(Items) /\ PushSigs(ss) = Pushes(Sg)
  BY NumberItems, ManyItems
<1>3. u = <<Push(Z), Pushes(Sg)>>
  BY <1>1, <1>2, Zenon DEF ChannelFundingUnlock, PushNum
<1>4. v = << Push(C), Pushes(Ky), Push(C), Op("OP_CHECKMULTISIG") >>
  BY <1>1, <1>2a, Zenon DEF ChannelFundingScript
<1> HIDE DEF Z, Sg, Ky
<1>6. u \in Seq(Tokens) /\ v \in Seq(Tokens)
  <2>1. /\ Push(Z) \in Tokens /\ Push(C) \in Tokens /\ Pushes(Sg) \in Tokens /\ Pushes(Ky) \in Tokens
    BY <1>2, PushOneType, PushType
  <2>2. Op("OP_CHECKMULTISIG") \in Tokens
    BY OpType DEF Opcodes
  <2> QED BY <1>3, <1>4, <2>1, <2>2
<1>7. PICK h : Executes(h, u, v)
  BY <1>6, ExecutionExists
<1>8. /\ h[0] = Machine(<< >>)
      /\ h[1] = Step(h[0], Push(Z))
      /\ h[2] = Step(h[1], Pushes(Sg))
      /\ h[3] = Step(h[2], Push(C))
      /\ h[4] = Step(h[3], Pushes(Ky))
      /\ h[5] = Step(h[4], Push(C))
      /\ h[6] = Step(h[5], Op("OP_CHECKMULTISIG"))
      /\ FoldLeft(Step, Machine(<< >>), u \o v) = h[6]
  <2>1. Len(u) = 2 /\ Len(v) = 4
    BY <1>3, <1>4
  <2>2. /\ \A i \in 1 .. 2 : h[i] = Step(h[i - 1], u[i])
        /\ \A i \in 1 .. 4 : h[2 + i] = Step(h[2 + i - 1], v[i])
        /\ FoldLeft(Step, Machine(<< >>), u \o v) = h[2 + 4]
    BY <1>7, <2>1 DEF Executes
  <2>3. /\ h[1] = Step(h[0], u[1])
        /\ h[2] = Step(h[1], u[2])
    BY <2>2
  <2>4. /\ h[3] = Step(h[2], v[1])
        /\ h[4] = Step(h[3], v[2])
        /\ h[5] = Step(h[4], v[3])
        /\ h[6] = Step(h[5], v[4])
    BY <2>2
  <2>5. h[0] = Machine(<< >>)
    BY <1>7 DEF Executes
  <2>6. FoldLeft(Step, Machine(<< >>), u \o v) = h[6]
    <3>1. 2 + 4 = 6
      OBVIOUS
    <3> QED BY <2>2, <3>1, Zenon
  <2>7. /\ u[1] = Push(Z)
        /\ u[2] = Pushes(Sg)
        /\ v[1] = Push(C)
        /\ v[2] = Pushes(Ky)
        /\ v[3] = Push(C)
        /\ v[4] = Op("OP_CHECKMULTISIG")
    BY <1>3, <1>4
  <2> QED BY <2>3, <2>4, <2>5, <2>6, <2>7, Zenon
<1>9. On(h[1], Append(<< >>, Z))
  BY <1>2, <1>8, Started, PushOne
<1>10. On(h[2], Append(<< >>, Z) \o SigItems(ss))
  BY <1>8, <1>9, PushIs DEF Sg
<1>11. \/ Failed(h[6]) /\ ~SignedBy(ss, keys)
       \/ \E x \in Items : On(h[6], Append(<< >>, x)) /\ (Truthy(x) <=> SignedBy(ss, keys))
  BY <1>2, <1>2a, <1>8, <1>10, MultisigRuns DEF Ky
<1> QED BY <1>1, <1>8, <1>11, Ends

LEMMA BondTokens ==
  ASSUME NEW k \in Nat, NEW keys \in Seq(Nat), NEW v, v = BondScript(k, keys)
  PROVE  \E C \in Items :
           /\ C.kind = "num" /\ DecodeScriptNum(C.val) = Len(keys)
           /\ v \in Seq(Tokens) /\ Len(v) = 9
           /\ v[1] = Op("OP_IF") /\ v[2] = Push(KeyItem(k)) /\ v[3] = Op("OP_CHECKSIG")
           /\ v[4] = Op("OP_ELSE") /\ v[5] = Push(C) /\ v[6] = Pushes(KeyItems(keys))
           /\ v[7] = Push(C) /\ v[8] = Op("OP_CHECKMULTISIG") /\ v[9] = Op("OP_ENDIF")
<1>1. PICK C \in Items :
         /\ C.kind = "num" /\ DecodeScriptNum(C.val) = Len(keys)
         /\ Multisig(keys) = << Push(C), Pushes(KeyItems(keys)), Push(C), Op("OP_CHECKMULTISIG") >>
  BY MultisigTokens
<1>2. PICK a, b, c : /\ a = << Op("OP_IF"), Push(KeyItem(k)), Op("OP_CHECKSIG"), Op("OP_ELSE") >>
                     /\ b = << Push(C), Pushes(KeyItems(keys)), Push(C), Op("OP_CHECKMULTISIG") >>
                     /\ c = << Op("OP_ENDIF") >>
  OBVIOUS
<1>3. PushKey(k) = Push(KeyItem(k)) /\ KeyItem(k) \in Items
  BY SingleItems, EmptySeq
<1>4. v = (a \o b) \o c
  BY <1>1, <1>2, <1>3, Zenon DEF BondScript
<1>5. a \in Seq(Tokens) /\ b \in Seq(Tokens) /\ c \in Seq(Tokens)
  <2>1. /\ Push(KeyItem(k)) \in Tokens /\ Push(C) \in Tokens /\ Pushes(KeyItems(keys)) \in Tokens
    BY <1>3, ManyItems, EmptySeq, PushOneType, PushType
  <2>2. /\ Op("OP_IF") \in Tokens /\ Op("OP_CHECKSIG") \in Tokens /\ Op("OP_ELSE") \in Tokens
        /\ Op("OP_CHECKMULTISIG") \in Tokens /\ Op("OP_ENDIF") \in Tokens
    BY OpType DEF Opcodes
  <2> QED BY <1>2, <2>1, <2>2
<1>6. Len(a) = 4 /\ Len(b) = 4 /\ Len(c) = 1
  BY <1>2
<1>7. PICK d : d = a \o b
  OBVIOUS
<1>8. /\ d \in Seq(Tokens) /\ Len(d) = 8
      /\ \A i \in 1 .. 8 : d[i] = IF i <= 4 THEN a[i] ELSE b[i - 4]
  <2>1. /\ d \in Seq(Tokens) /\ Len(d) = Len(a) + Len(b)
        /\ \A i \in 1 .. Len(a) + Len(b) : d[i] = IF i <= Len(a) THEN a[i] ELSE b[i - Len(a)]
    BY <1>5, <1>7, ConcatProperties
  <2> QED BY <1>6, <2>1
<1>9. /\ v \in Seq(Tokens) /\ Len(v) = 9
      /\ \A i \in 1 .. 9 : v[i] = IF i <= 8 THEN d[i] ELSE c[i - 8]
  <2>1. PICK w : w = d \o c
    OBVIOUS
  <2>2. /\ w \in Seq(Tokens) /\ Len(w) = Len(d) + Len(c)
        /\ \A i \in 1 .. Len(d) + Len(c) : w[i] = IF i <= Len(d) THEN d[i] ELSE c[i - Len(d)]
    <3>1. d \in Seq(Tokens)
      BY <1>8
    <3> QED BY <1>5, <2>1, <3>1, ConcatProperties
  <2>3. v = w
    BY <1>4, <1>7, <2>1
  <2> QED BY <1>6, <1>8, <2>2, <2>3
<1>10. /\ v[1] = a[1] /\ v[2] = a[2] /\ v[3] = a[3] /\ v[4] = a[4] /\ v[5] = b[1]
       /\ v[6] = b[2] /\ v[7] = b[3] /\ v[8] = b[4] /\ v[9] = c[1]
  <2>1. \A i \in 1 .. 8 : d[i] = IF i <= 4 THEN a[i] ELSE b[i - 4]
    BY <1>8
  <2>2. \A i \in 1 .. 9 : v[i] = IF i <= 8 THEN d[i] ELSE c[i - 8]
    BY <1>9
  <2>3. d[1] = a[1] /\ d[2] = a[2] /\ d[3] = a[3] /\ d[4] = a[4]
    BY <2>1
  <2>4. d[5] = b[1] /\ d[6] = b[2] /\ d[7] = b[3] /\ d[8] = b[4]
    BY <2>1
  <2>5. v[1] = d[1] /\ v[2] = d[2] /\ v[3] = d[3] /\ v[4] = d[4] /\ v[5] = d[5]
    BY <2>2
  <2>6. v[6] = d[6] /\ v[7] = d[7] /\ v[8] = d[8] /\ v[9] = c[1]
    BY <2>2
  <2> QED BY <2>3, <2>4, <2>5, <2>6
<1>11. /\ a[1] = Op("OP_IF") /\ a[2] = Push(KeyItem(k)) /\ a[3] = Op("OP_CHECKSIG")
       /\ a[4] = Op("OP_ELSE") /\ b[1] = Push(C) /\ b[2] = Pushes(KeyItems(keys))
       /\ b[3] = Push(C) /\ b[4] = Op("OP_CHECKMULTISIG") /\ c[1] = Op("OP_ENDIF")
  BY <1>2
<1> QED BY <1>1, <1>9, <1>10, <1>11

\* A bond, returned: a signature of its owner.
LEMMA BondReturnSpend ==
  ASSUME NEW k \in Nat, NEW keys \in Seq(Nat), NEW s \in Seq(Nat)
  PROVE  Verifies(BondReturnUnlock(s), BondScript(k, keys)) <=> s = <<k, 1>>
<1>1. PICK u, v : u = BondReturnUnlock(s) /\ v = BondScript(k, keys)
  OBVIOUS
<1>4. PICK C \in Items :
        /\ C.kind = "num" /\ DecodeScriptNum(C.val) = Len(keys)
        /\ v \in Seq(Tokens) /\ Len(v) = 9
        /\ v[1] = Op("OP_IF") /\ v[2] = Push(KeyItem(k)) /\ v[3] = Op("OP_CHECKSIG")
        /\ v[4] = Op("OP_ELSE") /\ v[5] = Push(C) /\ v[6] = Pushes(KeyItems(keys))
        /\ v[7] = Push(C) /\ v[8] = Op("OP_CHECKMULTISIG") /\ v[9] = Op("OP_ENDIF")
  BY <1>1, BondTokens
<1> DEFINE Sg == SigItem(s)
           O == It("num", OpN(1))
           E == KeyItem(k)
           Ky == KeyItems(keys)
<1>2. Sg \in Items /\ O \in Items /\ Truthy(O) /\ E \in Items
  BY SingleItems, NumberItems
<1>3. u = <<Push(Sg), Push(O)>>
  BY <1>1, SingleItems, Zenon DEF BondReturnUnlock, PushNum
<1>5. CheckSig(Sg, E) <=> s = <<k, 1>>
  BY CheckSigOf
<1> HIDE DEF Sg, O, E, Ky
<1>6. u \in Seq(Tokens)
  <2>1. Push(Sg) \in Tokens /\ Push(O) \in Tokens
    BY <1>2, PushOneType
  <2> QED BY <1>3, <2>1
<1>7. PICK h : Executes(h, u, v)
  BY <1>4, <1>6, ExecutionExists
<1>8. /\ h[0] = Machine(<< >>)
      /\ h[1] = Step(h[0], Push(Sg))
      /\ h[2] = Step(h[1], Push(O))
      /\ h[3] = Step(h[2], Op("OP_IF"))
      /\ h[4] = Step(h[3], Push(E))
      /\ h[5] = Step(h[4], Op("OP_CHECKSIG"))
      /\ h[6] = Step(h[5], Op("OP_ELSE"))
      /\ h[7] = Step(h[6], Push(C))
      /\ h[8] = Step(h[7], Pushes(Ky))
      /\ h[9] = Step(h[8], Push(C))
      /\ h[10] = Step(h[9], Op("OP_CHECKMULTISIG"))
      /\ h[11] = Step(h[10], Op("OP_ENDIF"))
      /\ FoldLeft(Step, Machine(<< >>), u \o v) = h[11]
  <2>1. Len(u) = 2 /\ Len(v) = 9
    BY <1>3, <1>4
  <2>2. /\ \A i \in 1 .. 2 : h[i] = Step(h[i - 1], u[i])
        /\ \A i \in 1 .. 9 : h[2 + i] = Step(h[2 + i - 1], v[i])
        /\ FoldLeft(Step, Machine(<< >>), u \o v) = h[2 + 9]
    BY <1>7, <2>1 DEF Executes
  <2>3. /\ h[1] = Step(h[0], u[1])
        /\ h[2] = Step(h[1], u[2])
    BY <2>2
  <2>4. /\ h[3] = Step(h[2], v[1])
        /\ h[4] = Step(h[3], v[2])
        /\ h[5] = Step(h[4], v[3])
        /\ h[6] = Step(h[5], v[4])
        /\ h[7] = Step(h[6], v[5])
        /\ h[8] = Step(h[7], v[6])
        /\ h[9] = Step(h[8], v[7])
        /\ h[10] = Step(h[9], v[8])
        /\ h[11] = Step(h[10], v[9])
    BY <2>2
  <2>5. h[0] = Machine(<< >>)
    BY <1>7 DEF Executes
  <2>6. FoldLeft(Step, Machine(<< >>), u \o v) = h[11]
    <3>1. 2 + 9 = 11
      OBVIOUS
    <3> QED BY <2>2, <3>1, Zenon
  <2>7. /\ u[1] = Push(Sg)
        /\ u[2] = Push(O)
        /\ v[1] = Op("OP_IF")
        /\ v[2] = Push(E)
        /\ v[3] = Op("OP_CHECKSIG")
        /\ v[4] = Op("OP_ELSE")
        /\ v[5] = Push(C)
        /\ v[6] = Pushes(Ky)
        /\ v[7] = Push(C)
        /\ v[8] = Op("OP_CHECKMULTISIG")
        /\ v[9] = Op("OP_ENDIF")
    BY <1>3, <1>4 DEF E, Ky
  <2> QED BY <2>3, <2>4, <2>5, <2>6, <2>7, Zenon
<1> DEFINE q == Append(<< >>, Sg)
<1>9. q \in Seq(Items)
  BY <1>2, Started, AppendProperties
<1>10. On(h[1], q)
  BY <1>2, <1>8, Started, PushOne
<1>11. On(h[2], Append(q, O))
  BY <1>2, <1>8, <1>9, <1>10, PushOne
<1>12. On(h[3], q)
  BY <1>2, <1>8, <1>9, <1>11, IfIs
<1>13. On(h[4], Append(q, E))
  BY <1>2, <1>8, <1>9, <1>12, PushOne
<1> DEFINE V == Append(<< >>, Bool(CheckSig(Sg, E)))
<1>14. On(h[5], V)
  BY <1>2, <1>8, <1>13, Started, CheckSigIs
<1> HIDE DEF V
<1>15. Off(h[6], V)
  BY <1>8, <1>14, ElseIs
<1>16. Off(h[7], V)
  BY <1>8, <1>15, Skippable, SkipOne
<1>17. Off(h[8], V)
  BY <1>8, <1>16, Skippable, SkipOne
<1>18. Off(h[9], V)
  BY <1>8, <1>17, Skippable, SkipOne
<1>19. Off(h[10], V)
  BY <1>8, <1>18, Skippable, SkipOne
<1>20. On(h[11], V)
  BY <1>8, <1>19, EndifIs
<1>21. Verifies(u, v) <=> Truthy(Bool(CheckSig(Sg, E)))
  BY <1>8, <1>20, Verdicts, Ends DEF V
<1> QED BY <1>1, <1>5, <1>21, Verdicts

\* A bond, forfeited: a signature of every counterparty, in the order of the keys.
LEMMA BondForfeitSpend ==
  ASSUME NEW k \in Nat, NEW keys \in Seq(Nat), NEW ss \in Seq(Seq(Nat)), Len(ss) <= Len(keys)
  PROVE  Verifies(BondForfeitUnlock(ss), BondScript(k, keys)) <=> SignedBy(ss, keys)
<1>1. PICK u, v : u = BondForfeitUnlock(ss) /\ v = BondScript(k, keys)
  OBVIOUS
<1>4. PICK C \in Items :
        /\ C.kind = "num" /\ DecodeScriptNum(C.val) = Len(keys)
        /\ v \in Seq(Tokens) /\ Len(v) = 9
        /\ v[1] = Op("OP_IF") /\ v[2] = Push(KeyItem(k)) /\ v[3] = Op("OP_CHECKSIG")
        /\ v[4] = Op("OP_ELSE") /\ v[5] = Push(C) /\ v[6] = Pushes(KeyItems(keys))
        /\ v[7] = Push(C) /\ v[8] = Op("OP_CHECKMULTISIG") /\ v[9] = Op("OP_ENDIF")
  BY <1>1, BondTokens
<1> DEFINE Sg == SigItems(ss)
           Z == It("num", OpN(0))
           E == KeyItem(k)
           Ky == KeyItems(keys)
<1>2. /\ Sg \in Seq(Items) /\ Z \in Items /\ ~Truthy(Z) /\ E \in Items
      /\ PushSigs(ss) = Pushes(Sg)
  BY SingleItems, NumberItems, ManyItems, EmptySeq
<1>3. u = <<Push(Z), Pushes(Sg), Push(Z)>>
  BY <1>1, <1>2, Zenon DEF BondForfeitUnlock, PushNum
<1> HIDE DEF Sg, Z, E, Ky
<1>6. u \in Seq(Tokens)
  <2>1. Push(Z) \in Tokens /\ Pushes(Sg) \in Tokens
    BY <1>2, PushOneType, PushType
  <2> QED BY <1>3, <2>1
<1>7. PICK h : Executes(h, u, v)
  BY <1>4, <1>6, ExecutionExists
<1>8. /\ h[0] = Machine(<< >>)
      /\ h[1] = Step(h[0], Push(Z))
      /\ h[2] = Step(h[1], Pushes(Sg))
      /\ h[3] = Step(h[2], Push(Z))
      /\ h[4] = Step(h[3], Op("OP_IF"))
      /\ h[5] = Step(h[4], Push(E))
      /\ h[6] = Step(h[5], Op("OP_CHECKSIG"))
      /\ h[7] = Step(h[6], Op("OP_ELSE"))
      /\ h[8] = Step(h[7], Push(C))
      /\ h[9] = Step(h[8], Pushes(Ky))
      /\ h[10] = Step(h[9], Push(C))
      /\ h[11] = Step(h[10], Op("OP_CHECKMULTISIG"))
      /\ h[12] = Step(h[11], Op("OP_ENDIF"))
      /\ FoldLeft(Step, Machine(<< >>), u \o v) = h[12]
  <2>1. Len(u) = 3 /\ Len(v) = 9
    BY <1>3, <1>4
  <2>2. /\ \A i \in 1 .. 3 : h[i] = Step(h[i - 1], u[i])
        /\ \A i \in 1 .. 9 : h[3 + i] = Step(h[3 + i - 1], v[i])
        /\ FoldLeft(Step, Machine(<< >>), u \o v) = h[3 + 9]
    BY <1>7, <2>1 DEF Executes
  <2>3. /\ h[1] = Step(h[0], u[1])
        /\ h[2] = Step(h[1], u[2])
        /\ h[3] = Step(h[2], u[3])
    BY <2>2
  <2>4. /\ h[4] = Step(h[3], v[1])
        /\ h[5] = Step(h[4], v[2])
        /\ h[6] = Step(h[5], v[3])
        /\ h[7] = Step(h[6], v[4])
        /\ h[8] = Step(h[7], v[5])
        /\ h[9] = Step(h[8], v[6])
        /\ h[10] = Step(h[9], v[7])
        /\ h[11] = Step(h[10], v[8])
        /\ h[12] = Step(h[11], v[9])
    BY <2>2
  <2>5. h[0] = Machine(<< >>)
    BY <1>7 DEF Executes
  <2>6. FoldLeft(Step, Machine(<< >>), u \o v) = h[12]
    <3>1. 3 + 9 = 12
      OBVIOUS
    <3> QED BY <2>2, <3>1, Zenon
  <2>7. /\ u[1] = Push(Z)
        /\ u[2] = Pushes(Sg)
        /\ u[3] = Push(Z)
        /\ v[1] = Op("OP_IF")
        /\ v[2] = Push(E)
        /\ v[3] = Op("OP_CHECKSIG")
        /\ v[4] = Op("OP_ELSE")
        /\ v[5] = Push(C)
        /\ v[6] = Pushes(Ky)
        /\ v[7] = Push(C)
        /\ v[8] = Op("OP_CHECKMULTISIG")
        /\ v[9] = Op("OP_ENDIF")
    BY <1>3, <1>4 DEF E, Ky
  <2> QED BY <2>3, <2>4, <2>5, <2>6, <2>7, Zenon
<1> DEFINE q == Append(<< >>, Z) \o Sg
<1>9. Append(<< >>, Z) \in Seq(Items) /\ q \in Seq(Items)
  <2>1. Append(<< >>, Z) \in Seq(Items)
    BY <1>2, Started, AppendProperties
  <2> QED BY <1>2, <2>1, ConcatProperties
<1>10. On(h[1], Append(<< >>, Z))
  BY <1>2, <1>8, Started, PushOne
<1>11. On(h[2], q)
  BY <1>8, <1>10, PushIs
<1> HIDE DEF q
<1>12. On(h[3], Append(q, Z))
  BY <1>2, <1>8, <1>9, <1>11, PushOne
<1>13. Off(h[4], q)
  BY <1>2, <1>8, <1>9, <1>12, IfIs
<1>14. Off(h[5], q)
  BY <1>8, <1>13, Skippable, SkipOne
<1>15. Off(h[6], q)
  BY <1>8, <1>14, Skippable, SkipOne
<1>16. On(h[7], q)
  BY <1>8, <1>15, ElseIs
<1>17. On(h[7], Append(<< >>, Z) \o SigItems(ss))
  BY <1>16 DEF q, Sg
<1>18. \/ Failed(h[11]) /\ ~SignedBy(ss, keys)
       \/ \E x \in Items : On(h[11], Append(<< >>, x)) /\ (Truthy(x) <=> SignedBy(ss, keys))
  <2>1. /\ h[8] = Step(h[7], Push(C)) /\ h[9] = Step(h[8], Pushes(KeyItems(keys)))
        /\ h[10] = Step(h[9], Push(C)) /\ h[11] = Step(h[10], Op("OP_CHECKMULTISIG"))
    BY <1>8, Zenon DEF Ky
  <2>2. C.kind = "num" /\ DecodeScriptNum(C.val) = Len(keys)
    BY <1>4
  <2>3. Z \in Items
    BY <1>2
  <2> QED BY <1>17, <2>1, <2>2, <2>3, MultisigRuns
<1>19. \/ Failed(h[12]) /\ ~SignedBy(ss, keys)
       \/ \E x \in Items : On(h[12], Append(<< >>, x)) /\ (Truthy(x) <=> SignedBy(ss, keys))
  BY <1>8, <1>18, FailedStays, EndifIs
<1> QED BY <1>1, <1>8, <1>19, Ends

\* What the signing of an output keeps.
ScriptsInv ==
    /\ path \in Paths /\ size \in Nat \ {0, 1} /\ owner \in 1 .. size /\ preimage \in Nat
    /\ book \in [1 .. size -> Nat]
    /\ sigs \in Seq(Nat \X Nat) /\ Len(sigs) <= Len(Signers)

\* Who signs an output.
LEMMA SignersAre ==
  ASSUME size \in Nat \ {0, 1}, owner \in 1 .. size
  PROVE  /\ AllKeys \in Seq(Nat) /\ Len(AllKeys) = size
         /\ Counterparties \in Seq(Nat) /\ Len(Counterparties) = size - 1
         /\ Payer \in Nat
         /\ Signers \in Seq(Nat) /\ Len(Signers) >= 1
<1>1. AllKeys \in [1 .. size -> Nat]
  BY DEF AllKeys
<1>2. AllKeys \in Seq(Nat) /\ Len(AllKeys) = size
  <2>1. PICK f : f = AllKeys
    OBVIOUS
  <2>2. f \in Seq(Nat)
    BY <1>1, <2>1, SeqDef
  <2>3. Len(f) = size
    BY <1>1, <2>1, <2>2, LenProperties
  <2> QED BY <2>1, <2>2, <2>3
<1>3. Counterparties \in Seq(Nat) /\ Len(Counterparties) = size - 1
  <2>1. PICK a, b : a = SubSeq(AllKeys, 1, owner - 1) /\ b = SubSeq(AllKeys, owner + 1, size)
    OBVIOUS
  <2>2. \A i \in 1 .. size : AllKeys[i] \in Nat
    BY <1>1
  <2>3. a \in Seq(Nat) /\ Len(a) = owner - 1
    <3>1. \A i \in 1 .. owner - 1 : AllKeys[i] \in Nat
      BY <2>2
    <3>2. owner - 1 \in Int
      OBVIOUS
    <3>3. a \in Seq(Nat) /\ Len(a) = IF 1 <= owner - 1 THEN (owner - 1) - 1 + 1 ELSE 0
      BY <2>1, <3>1, <3>2, SubSeqProperties
    <3> QED BY <3>3
  <2>4. b \in Seq(Nat) /\ Len(b) = size - owner
    <3>1. \A i \in owner + 1 .. size : AllKeys[i] \in Nat
      BY <2>2
    <3>2. owner + 1 \in Int /\ size \in Int
      OBVIOUS
    <3>3. b \in Seq(Nat) /\ Len(b) = IF owner + 1 <= size THEN size - (owner + 1) + 1 ELSE 0
      BY <2>1, <3>1, <3>2, SubSeqProperties
    <3> QED BY <3>3
  <2>5. Counterparties = a \o b
    BY <1>2, <2>1 DEF Counterparties, RemoveAt
  <2>6. a \o b \in Seq(Nat) /\ Len(a \o b) = Len(a) + Len(b)
    BY <2>3, <2>4, ConcatProperties
  <2> QED BY <2>3, <2>4, <2>5, <2>6
<1>4. Payer \in Nat
  BY DEF Payer
<1>5. \A k \in Nat : <<k>> \in Seq(Nat) /\ Len(<<k>>) = 1
  OBVIOUS
<1>6. Signers \in Seq(Nat) /\ Len(Signers) >= 1
  <2>1. CASE path = "funding"
    BY <1>2, <2>1 DEF Signers
  <2>2. CASE path = "bondForfeit"
    BY <1>3, <2>2 DEF Signers
  <2>3. CASE path = "hopReturn"
    BY <1>4, <1>5, <2>3 DEF Signers
  <2>4. CASE path \notin {"funding", "bondForfeit", "hopReturn"}
    <3>1. Signers = <<owner>>
      BY <2>4 DEF Signers
    <3> QED BY <1>5, <3>1
  <2> QED BY <2>1, <2>2, <2>3, <2>4
<1> QED BY <1>2, <1>3, <1>4, <1>6

\* Signing input after input, with keys replaced in between, keeps them.
LEMMA ScriptsInvariant == AlgorithmsSpec => []ScriptsInv
<1>1. ASSUME AlgorithmsInit PROVE ScriptsInv
  <2>1. CASE ScriptsInit
    <3>1. size \in Nat \ {0, 1} /\ owner \in 1 .. size
      BY <2>1, ScriptsAssumption DEF ScriptsInit
    <3>2. book \in [1 .. size -> Nat] /\ path \in Paths /\ preimage \in Nat
      BY <2>1, <3>1 DEF ScriptsInit, AllKeys
    <3>3. sigs \in Seq(Nat \X Nat) /\ Len(sigs) <= Len(Signers)
      <4>1. sigs = << >>
        BY <2>1 DEF ScriptsInit
      <4>2. << >> \in Seq(Nat \X Nat) /\ Len(<< >>) = 0
        BY EmptySeq
      <4>3. Len(Signers) \in Nat
        BY <3>1, SignersAre, LenProperties
      <4> QED BY <4>1, <4>2, <4>3
    <3> QED BY <3>1, <3>2, <3>3 DEF ScriptsInv
  <2>2. CASE ScriptsAtRest
    <3>1. size \in Nat \ {0, 1} /\ owner \in 1 .. size
      BY <2>2 DEF ScriptsAtRest
    <3>2. book \in [1 .. size -> Nat] /\ path \in Paths /\ preimage \in Nat
      BY <2>2 DEF ScriptsAtRest, Paths
    <3>3. sigs \in Seq(Nat \X Nat) /\ Len(sigs) <= Len(Signers)
      <4>1. sigs = << >>
        BY <2>2 DEF ScriptsAtRest
      <4>2. << >> \in Seq(Nat \X Nat) /\ Len(<< >>) = 0
        BY EmptySeq
      <4>3. Len(Signers) \in Nat
        BY <3>1, SignersAre, LenProperties
      <4> QED BY <4>1, <4>2, <4>3
    <3> QED BY <3>1, <3>2, <3>3 DEF ScriptsInv
  <2> QED BY <1>1, <2>1, <2>2 DEF AlgorithmsInit
<1>2. ScriptsInv /\ [AlgorithmsNext]_algorithmVars => ScriptsInv'
  <2> SUFFICES ASSUME ScriptsInv, [AlgorithmsNext]_algorithmVars PROVE ScriptsInv'
    OBVIOUS
  <2>1. CASE UNCHANGED scriptVars
    BY <2>1 DEF ScriptsInv, scriptVars, Signers, AllKeys, Counterparties, Payer
  <2>2. ASSUME NEW k \in 1 .. size, Replace(k) PROVE ScriptsInv'
    <3>1. UNCHANGED <<path, size, owner, preimage, sigs>> /\ Signers' = Signers
      BY <2>2 DEF Replace, Signers, AllKeys, Counterparties, Payer
    <3>2. book' \in [1 .. size -> Nat]
      BY <2>2 DEF Replace, ScriptsInv
    <3> QED BY <3>1, <3>2 DEF ScriptsInv
  <2>3. ASSUME NEW k \in 1 .. size, NEW tx \in {1, 2}, SignInput(k, tx) PROVE ScriptsInv'
    <3>1. UNCHANGED <<path, size, owner, preimage, book>> /\ Signers' = Signers
      BY <2>3 DEF SignInput, Signers, AllKeys, Counterparties, Payer
    <3>2. PICK x : x = <<book[k], tx>>
      OBVIOUS
    <3>3. x \in Nat \X Nat
      BY <3>2 DEF ScriptsInv
    <3>4. sigs \in Seq(Nat \X Nat) /\ Len(sigs) < Len(Signers) /\ sigs' = Append(sigs, x)
      BY <2>3, <3>2 DEF SignInput, ScriptsInv
    <3>5. sigs' \in Seq(Nat \X Nat) /\ Len(sigs') = Len(sigs) + 1
      BY <3>3, <3>4, AppendProperties
    <3>6. Len(sigs) \in Nat /\ Len(Signers) \in Nat
      BY <3>4, SignersAre, LenProperties DEF ScriptsInv
    <3> QED BY <3>1, <3>4, <3>5, <3>6 DEF ScriptsInv
  <2>4. CASE ScriptsNext
    BY <2>2, <2>3, <2>4 DEF ScriptsNext
  <2> QED BY <2>1, <2>4 DEF AlgorithmsNext, algorithmVars, ApplyTransfer
<1> QED BY <1>1, <1>2, PTL DEF AlgorithmsSpec

\* One signature, of one key.
LEMMA SignedByOne ==
  ASSUME NEW k, NEW ss, Len(ss) = 1
  PROVE  SignedBy(ss, <<k>>) <=> ss[1] = <<k, 1>>
<1>1. PICK ks : ks = <<k>>
  OBVIOUS
<1>2. Len(ks) = 1 /\ ks[1] = k
  BY <1>1
<1>3. SignedBy(ss, ks) <=> \A i \in 1 .. 1 : ss[i] = <<ks[i], 1>>
  BY <1>2 DEF SignedBy
<1>4. (\A i \in 1 .. 1 : ss[i] = <<ks[i], 1>>) <=> ss[1] = <<ks[1], 1>>
  <2>1. \A i \in 1 .. 1 : i = 1
    OBVIOUS
  <2>2. 1 \in 1 .. 1
    OBVIOUS
  <2> QED BY <2>1, <2>2, Zenon
<1> QED BY <1>1, <1>2, <1>3, <1>4

\* What the signatures of each path must be is what UnlocksExactly asks for.
LEMMA InvUnlocks == ASSUME ScriptsInv PROVE UnlocksExactly
<1>1. /\ path \in Paths /\ size \in Nat \ {0, 1} /\ owner \in 1 .. size /\ preimage \in Nat
      /\ sigs \in Seq(Nat \X Nat) /\ Len(sigs) <= Len(Signers)
  BY DEF ScriptsInv
<1>2. /\ AllKeys \in Seq(Nat) /\ Counterparties \in Seq(Nat) /\ Payer \in Nat
      /\ Signers \in Seq(Nat) /\ Len(Signers) >= 1 /\ Len(Signers) \in Nat /\ Len(sigs) \in Nat
      /\ owner \in Nat
  BY <1>1, SignersAre, LenProperties
<1>3. sigs \in Seq(Seq(Nat))
  <2>1. ASSUME NEW x \in Nat \X Nat PROVE x \in Seq(Nat)
    <3>1. PICK a \in Nat, b \in Nat : x = <<a, b>>
      OBVIOUS
    <3>2. <<a, b>> \in Seq(Nat)
      OBVIOUS
    <3> QED BY <3>1, <3>2
  <2>2. Nat \X Nat \subseteq Seq(Nat)
    BY <2>1
  <2> QED BY <1>1, <2>2, SeqMonotonic
<1>4. (sigs = [i \in 1 .. Len(Signers) |-> <<Signers[i], 1>>]) <=> SignedBy(sigs, Signers)
  <2>1. PICK t, n : t = [i \in 1 .. n |-> <<Signers[i], 1>>] /\ n = Len(Signers)
    OBVIOUS
  <2>2. \A i \in 1 .. n : Signers[i] \in Nat
    BY <1>2, <2>1, ElementOfSeq
  <2>3. t \in [1 .. n -> Nat \X Nat]
    BY <2>1, <2>2
  <2>4. t \in Seq(Nat \X Nat)
    BY <1>2, <2>1, <2>3, SeqDef
  <2>5. Len(t) = n
    BY <1>2, <2>1, <2>3, <2>4, LenProperties
  <2>6. \A i \in 1 .. n : t[i] = <<Signers[i], 1>>
    BY <2>1
  <2>7. SignedBy(sigs, Signers) => sigs = t
    <3>1. SUFFICES ASSUME SignedBy(sigs, Signers) PROVE sigs = t
      OBVIOUS
    <3>2. Len(sigs) = n /\ \A i \in 1 .. n : sigs[i] = t[i]
      BY <2>1, <2>6, <3>1 DEF SignedBy
    <3> QED BY <1>1, <2>4, <2>5, <3>2, SeqEqual
  <2>8. sigs = t => SignedBy(sigs, Signers)
    BY <2>1, <2>5, <2>6 DEF SignedBy
  <2> QED BY <2>1, <2>7, <2>8
<1>5. sigs # << >> <=> Len(sigs) # 0
  BY <1>1, EmptySeq
<1>6. CASE Len(sigs) = 0
  <2>1. ~SignedBy(sigs, Signers)
    BY <1>2, <1>6 DEF SignedBy
  <2>2. ~SpendVerifies
    BY <1>5, <1>6 DEF SpendVerifies
  <2> QED BY <1>4, <2>1, <2>2 DEF UnlocksExactly
<1>7. CASE Len(sigs) # 0
  <2>1. SpendVerifies <=> Verifies(UnlockingScript, LockingScript)
    BY <1>5, <1>7 DEF SpendVerifies
  <2>2. SUFFICES Verifies(UnlockingScript, LockingScript) <=>
                   SignedBy(sigs, Signers) /\ (path = "hopClaim" => preimage = 1)
    BY <1>4, <2>1 DEF UnlocksExactly
  <2>3. CASE path = "funding"
    <3>1. /\ UnlockingScript = ChannelFundingUnlock(sigs)
          /\ LockingScript = ChannelFundingScript(AllKeys) /\ Signers = AllKeys
      BY <2>3 DEF UnlockingScript, LockingScript, Signers
    <3>2. Verifies(ChannelFundingUnlock(sigs), ChannelFundingScript(AllKeys)) <=>
            SignedBy(sigs, AllKeys)
      BY <1>1, <1>2, <1>3, <3>1, FundingSpend
    <3> QED BY <2>3, <3>1, <3>2
  <2>4. CASE path = "bondForfeit"
    <3>1. /\ UnlockingScript = BondForfeitUnlock(sigs)
          /\ LockingScript = BondScript(owner, Counterparties) /\ Signers = Counterparties
      BY <2>4 DEF UnlockingScript, LockingScript, Signers
    <3>2. Verifies(BondForfeitUnlock(sigs), BondScript(owner, Counterparties)) <=>
            SignedBy(sigs, Counterparties)
      BY <1>1, <1>2, <1>3, <3>1, BondForfeitSpend
    <3> QED BY <2>4, <3>1, <3>2
  <2> DEFINE signer == IF path = "hopReturn" THEN Payer ELSE owner
             s == sigs[1]
  <2>5. ASSUME path \notin {"funding", "bondForfeit"}
        PROVE  /\ Signers = <<signer>> /\ Len(sigs) = 1 /\ s \in Seq(Nat)
               /\ s \in Nat \X Nat /\ s[1] \in Nat
               /\ SignedBy(sigs, Signers) <=> s = <<signer, 1>>
    <3>1. Signers = <<signer>>
      BY <2>5 DEF Signers
    <3>2. Len(Signers) = 1
      BY <3>1
    <3>3. Len(sigs) = 1
      BY <1>1, <1>2, <1>7, <3>2
    <3>4. s \in Seq(Nat) /\ s \in Nat \X Nat
      <4>1. 1 \in 1 .. Len(sigs)
        BY <3>3
      <4> QED BY <1>1, <1>3, <4>1, ElementOfSeq
    <3>5. SignedBy(sigs, <<signer>>) <=> s = <<signer, 1>>
      <4> HIDE DEF signer
      <4> QED BY <3>3, SignedByOne
    <3> QED BY <3>1, <3>3, <3>4, <3>5
  <2>6. CASE path = "bondReturn"
    <3>1. /\ UnlockingScript = BondReturnUnlock(s)
          /\ LockingScript = BondScript(owner, Counterparties)
      BY <2>6 DEF UnlockingScript, LockingScript
    <3>2. s \in Seq(Nat)
      BY <2>5, <2>6
    <3>3. Verifies(BondReturnUnlock(s), BondScript(owner, Counterparties)) <=> s = <<owner, 1>>
      BY <1>2, <3>2, BondReturnSpend
    <3> QED BY <2>5, <2>6, <3>1, <3>3
  <2>7. CASE path = "hopClaim"
    <3>1. /\ UnlockingScript = HopClaimUnlock(s, preimage)
          /\ LockingScript = HopScript(Hash160(It("pre", <<1>>)), owner, Payer)
      BY <2>7 DEF UnlockingScript, LockingScript
    <3>2. s \in Seq(Nat) /\ 1 \in Nat
      BY <2>5, <2>7
    <3>3. Verifies(HopClaimUnlock(s, preimage), HopScript(Hash160(It("pre", <<1>>)), owner, Payer))
            <=> s = <<owner, 1>> /\ preimage = 1
      <4>1. \A x \in Nat, y \in Nat, e \in Nat, r \in Nat :
              Verifies(HopClaimUnlock(s, y), HopScript(Hash160(It("pre", <<x>>)), e, r))
                <=> s = <<e, 1>> /\ y = x
        BY <3>2, HopClaimSpend
      <4> QED BY <1>1, <1>2, <3>2, <4>1, Zenon
    <3> QED BY <2>5, <2>7, <3>1, <3>3
  <2>8. CASE path = "hopReturn"
    <3>1. /\ UnlockingScript = HopReturnUnlock(s)
          /\ LockingScript = HopScript(Hash160(It("pre", <<1>>)), owner, Payer)
      BY <2>8 DEF UnlockingScript, LockingScript
    <3>2. s \in Seq(Nat) /\ 1 \in Nat
      BY <2>5, <2>8
    <3>3. Verifies(HopReturnUnlock(s), HopScript(Hash160(It("pre", <<1>>)), owner, Payer))
            <=> s = <<Payer, 1>>
      <4>1. \A x \in Nat, e \in Nat, r \in Nat :
              Verifies(HopReturnUnlock(s), HopScript(Hash160(It("pre", <<x>>)), e, r)) <=> s = <<r, 1>>
        BY <3>2, HopReturnSpend
      <4> QED BY <1>2, <3>2, <4>1, Zenon
    <3> QED BY <2>5, <2>8, <3>1, <3>3
  <2>9. CASE path = "p2pkh"
    <3>1. UnlockingScript = P2pkhUnlock(s, s[1]) /\ LockingScript = P2pkhScript(owner)
      BY <2>9 DEF UnlockingScript, LockingScript
    <3>2. s \in Seq(Nat) /\ s[1] \in Nat /\ s \in Nat \X Nat
      BY <2>5, <2>9
    <3>3. Verifies(P2pkhUnlock(s, s[1]), P2pkhScript(owner)) <=> s[1] = owner /\ s = <<s[1], 1>>
      BY <1>2, <3>2, P2pkhSpend
    <3>4. (s[1] = owner /\ s = <<s[1], 1>>) <=> s = <<owner, 1>>
      <4> HIDE DEF s
      <4> QED BY <3>2
    <3> QED BY <2>5, <2>9, <3>1, <3>3, <3>4
  <2> QED BY <1>1, <2>3, <2>4, <2>6, <2>7, <2>8, <2>9 DEF Paths
<1> QED BY <1>6, <1>7

\* An unlocking script of scripts.py and bond.py spends its output exactly when it
\* holds the signatures that the path requires, of the output's keys, in order and
\* for this transaction (and the preimage, for a claim): for any number of parties
\* and of keys replaced, every count that push_count encodes, every signer.
THEOREM OutputsUnlockExactly == AlgorithmsSpec => []UnlocksExactly
BY ScriptsInvariant, InvUnlocks, PTL
=============================================================================
