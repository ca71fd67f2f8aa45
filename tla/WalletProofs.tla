------------------------------ MODULE WalletProofs ------------------------------
(***************************************************************************)
(* Proofs about the wallets (Wallet), for any number of wallets, keys,     *)
(* payments, fees and blocks.                                              *)
(*                                                                         *)
(* Both statements are about sums over the coins of some owners.  A coin   *)
(* or an output weighs its value when its owner is in Q and nothing        *)
(* otherwise: with Q = Owners the weights add up to the supply, with one   *)
(* owner to his balance.  What a transaction moves to Q is the weight of   *)
(* its outputs less that of its inputs.  A block changes the weight of the *)
(* coins by what its transactions move and by its coinbase (BlockWeight).  *)
(***************************************************************************)
EXTENDS Wallet, FoldProofs

Coins == [id : Nat, value : Nat \ {0}, owner : Addresses]
Outputs == [value : Nat \ {0}, owner : Addresses]
Txs == {tx \in [ins : SUBSET Coins, outs : Seq(Outputs)] : IsFiniteSet(tx.ins)}

CoinWeight(Q) == [c \in Coins |-> IF c.owner.who \in Q THEN c.value ELSE 0]
OutputWeight(Q) == [o \in Outputs |-> IF o.owner.who \in Q THEN o.value ELSE 0]
Holding(Q, coins) == SumFunctionOnSet(CoinWeight(Q), coins)
PaidTo(Q, outs) == SeqWeight(OutputWeight(Q), outs)
Moves(Q) == [tx \in Txs |-> PaidTo(Q, tx.outs) - Holding(Q, tx.ins)]
MovedTo(Q, txs) == SeqWeight(Moves(Q), txs)

-----------------------------------------------------------------------------
(* The sums of the specification as weights. *)

LEMMA CoinWeightType ==
  ASSUME NEW Q
  PROVE  /\ CoinWeight(Q) \in [Coins -> Int]
         /\ OutputWeight(Q) \in [Outputs -> Int]
  BY DEF CoinWeight, OutputWeight, Coins, Outputs

LEMMA HoldingType ==
  ASSUME NEW Q, NEW S \in SUBSET Coins, IsFiniteSet(S)
  PROVE  Holding(Q, S) \in Int
<1>1. \A c \in S : CoinWeight(Q)[c] \in Int
  BY CoinWeightType
<1> QED BY <1>1, SumType DEF Holding

LEMMA MovesType ==
  ASSUME NEW Q
  PROVE  Moves(Q) \in [Txs -> Int]
<1>1. ASSUME NEW tx \in Txs PROVE PaidTo(Q, tx.outs) - Holding(Q, tx.ins) \in Int
  <2>1. tx.ins \in SUBSET Coins /\ tx.outs \in Seq(Outputs) /\ IsFiniteSet(tx.ins)
    BY DEF Txs
  <2>2. PaidTo(Q, tx.outs) \in Int
    BY <2>1, CoinWeightType, SeqWeightType DEF PaidTo
  <2> QED BY <2>1, <2>2, HoldingType
<1> QED BY <1>1 DEF Moves

\* The value of the coins that p holds among some.
LEMMA ValueOf ==
  ASSUME NEW S \in SUBSET Coins, IsFiniteSet(S), NEW Q
  PROVE  Value({c \in S : c.owner.who \in Q}) = Holding(Q, S)
<1> DEFINE R == {c \in S : c.owner.who \in Q}
           f == [c \in S |-> c.value]
           g == [c \in R |-> c.value]
<1>1. R \in SUBSET S /\ IsFiniteSet(R)
  BY FS_Subset
<1>2. \A c \in S : /\ f[c] \in Int
                   /\ CoinWeight(Q)[c] = IF c \in R THEN f[c] ELSE 0
  BY DEF Coins, CoinWeight
<1>3. \A c \in R : g[c] = f[c] /\ g[c] \in Int
  BY DEF Coins
<1>4. Value(R) = SumFunctionOnSet(g, R)
  <2>1. DOMAIN g = R
    OBVIOUS
  <2> HIDE DEF R
  <2> QED BY <2>1 DEF Value, SumFunction
<1> HIDE DEF f, g, R
<1>5. SumFunctionOnSet(CoinWeight(Q), S) = SumFunctionOnSet(f, R)
  BY <1>1, <1>2, SumOfPart
<1>6. SumFunctionOnSet(g, R) = SumFunctionOnSet(f, R)
  BY <1>1, <1>3, SumCongruence
<1> QED BY <1>4, <1>5, <1>6 DEF R, Holding

LEMMA ValueAll ==
  ASSUME NEW S \in SUBSET Coins, IsFiniteSet(S)
  PROVE  Value(S) = Holding(Owners, S)
<1>1. {c \in S : c.owner.who \in Owners} = S
  BY DEF Coins, Addresses
<1>2. Value({c \in S : c.owner.who \in Owners}) = Holding(Owners, S)
  BY ValueOf
<1> QED BY <1>1, <1>2

LEMMA PaidOf ==
  ASSUME NEW outs \in Seq(Outputs), NEW p
  PROVE  Paid(p, outs) = PaidTo({p}, outs)
<1> DEFINE S == DOMAIN outs
           R == {i \in S : outs[i].owner.who = p}
           f == [i \in S |-> outs[i].value]
           g == [i \in R |-> outs[i].value]
           h == [i \in S |-> OutputWeight({p})[outs[i]]]
<1>1. IsFiniteSet(S) /\ \A i \in S : outs[i] \in Outputs
  BY CoinWeightType, SeqWeightType
<1>2. R \in SUBSET S /\ IsFiniteSet(R)
  BY <1>1, FS_Subset
<1>3. \A i \in S : f[i] \in Int /\ h[i] = IF i \in R THEN f[i] ELSE 0
  BY <1>1 DEF Outputs, OutputWeight
<1>4. \A i \in R : g[i] = f[i] /\ g[i] \in Int
  BY <1>1 DEF Outputs
<1>5. Paid(p, outs) = SumFunctionOnSet(g, R)
  <2>1. DOMAIN g = R
    OBVIOUS
  <2> QED BY <2>1, Zenon DEF Paid, SumFunction
<1>6. PaidTo({p}, outs) = SumFunctionOnSet(h, S)
  BY DEF PaidTo, SeqWeight
<1> HIDE DEF f, g, h, R, S
<1>7. SumFunctionOnSet(h, S) = SumFunctionOnSet(f, R)
  BY <1>1, <1>2, <1>3, SumOfPart
<1>8. SumFunctionOnSet(g, R) = SumFunctionOnSet(f, R)
  BY <1>2, <1>4, SumCongruence
<1> QED BY <1>5, <1>6, <1>7, <1>8

LEMMA SumAll ==
  ASSUME NEW outs \in Seq(Outputs)
  PROVE  Sum(outs) = PaidTo(Owners, outs)
<1> DEFINE S == DOMAIN outs
           f == [i \in S |-> outs[i].value]
           h == [i \in S |-> OutputWeight(Owners)[outs[i]]]
<1>1. IsFiniteSet(S) /\ \A i \in S : outs[i] \in Outputs
  BY CoinWeightType, SeqWeightType
<1>2. \A i \in S : f[i] = h[i] /\ f[i] \in Int
  BY <1>1 DEF Outputs, OutputWeight, Addresses
<1>3. Sum(outs) = SumFunctionOnSet(f, S) /\ PaidTo(Owners, outs) = SumFunctionOnSet(h, S)
  BY DEF Sum, SumFunction, PaidTo, SeqWeight
<1> HIDE DEF f, h, S
<1> QED BY <1>1, <1>2, <1>3, SumCongruence

\* The fees of a block's transactions are what they take from everybody.
LEMMA CoinbaseIs ==
  ASSUME NEW txs \in Seq(Txs)
  PROVE  CoinbaseValue(txs) = Reward - MovedTo(Owners, txs)
<1> DEFINE S == DOMAIN txs
           f == [i \in S |-> Value(txs[i].ins) - Sum(txs[i].outs)]
           g == [i \in S |-> Moves(Owners)[txs[i]]]
           z == [i \in S |-> 0]
<1>1. /\ IsFiniteSet(S)
      /\ \A i \in S : txs[i] \in Txs /\ Moves(Owners)[txs[i]] \in Int
  BY MovesType, SeqWeightType
<1>2. ASSUME NEW i \in S PROVE f[i] \in Int /\ g[i] \in Int /\ z[i] = f[i] + g[i]
  <2>1. /\ txs[i].ins \in SUBSET Coins /\ IsFiniteSet(txs[i].ins)
        /\ txs[i].outs \in Seq(Outputs)
    BY <1>1 DEF Txs
  <2>2. Value(txs[i].ins) = Holding(Owners, txs[i].ins)
    BY <2>1, ValueAll
  <2>3. Sum(txs[i].outs) = PaidTo(Owners, txs[i].outs)
    BY <2>1, SumAll
  <2>4. Holding(Owners, txs[i].ins) \in Int /\ PaidTo(Owners, txs[i].outs) \in Int
    BY <2>1, HoldingType, CoinWeightType, SeqWeightType DEF PaidTo
  <2>5. g[i] = PaidTo(Owners, txs[i].outs) - Holding(Owners, txs[i].ins)
    BY <1>1 DEF Moves
  <2>6. f[i] = Holding(Owners, txs[i].ins) - PaidTo(Owners, txs[i].outs)
    BY <2>2, <2>3
  <2>7. z[i] = 0
    OBVIOUS
  <2> HIDE DEF f, g, z
  <2> QED BY <2>4, <2>5, <2>6, <2>7
<1>3. CoinbaseValue(txs) = Reward + SumFunctionOnSet(f, S)
  BY DEF CoinbaseValue, SumFunction
<1>4. MovedTo(Owners, txs) = SumFunctionOnSet(g, S)
  BY DEF MovedTo, SeqWeight
<1>5. SumFunctionOnSet(z, S) = 0
  <2>1. \A i \in S : z[i] \in Int /\ z[i] = IF i \in {} THEN z[i] ELSE 0
    OBVIOUS
  <2> HIDE DEF z, S
  <2>2. {} \in SUBSET S
    OBVIOUS
  <2>3. SumFunctionOnSet(z, S) = SumFunctionOnSet(z, {})
    BY <1>1, <2>1, <2>2, SumOfPart
  <2> QED BY <2>3, SumEmpty
<1> HIDE DEF f, g, z, S
<1>6. SumFunctionOnSet(z, S) = SumFunctionOnSet(f, S) + SumFunctionOnSet(g, S)
  BY <1>1, <1>2, SumPointwise
<1>7. SumFunctionOnSet(f, S) \in Int /\ SumFunctionOnSet(g, S) \in Int
  BY <1>1, <1>2, SumType
<1>8. Reward \in Int
  BY WalletAssumption
<1> QED BY <1>3, <1>4, <1>5, <1>6, <1>7, <1>8

\* What the pool will do to an owner's balance.
LEMMA PendingIs ==
  ASSUME pool \in Seq(Txs), NEW p
  PROVE  Pending(p) = MovedTo({p}, pool)
<1> DEFINE S == DOMAIN pool
           f == [i \in S |-> Paid(p, pool[i].outs) - Value({c \in pool[i].ins : c.owner.who = p})]
           g == [i \in S |-> Moves({p})[pool[i]]]
<1>1. IsFiniteSet(S) /\ \A i \in S : pool[i] \in Txs /\ Moves({p})[pool[i]] \in Int
  BY MovesType, SeqWeightType
<1>2. ASSUME NEW i \in S PROVE f[i] = g[i] /\ f[i] \in Int
  <2>1. /\ pool[i].ins \in SUBSET Coins /\ IsFiniteSet(pool[i].ins)
        /\ pool[i].outs \in Seq(Outputs)
    BY <1>1 DEF Txs
  <2>2. Value({c \in pool[i].ins : c.owner.who = p}) = Holding({p}, pool[i].ins)
    <3>1. {c \in pool[i].ins : c.owner.who = p} = {c \in pool[i].ins : c.owner.who \in {p}}
      OBVIOUS
    <3>2. Value({c \in pool[i].ins : c.owner.who \in {p}}) = Holding({p}, pool[i].ins)
      BY <2>1, ValueOf
    <3> QED BY <3>1, <3>2, Zenon
  <2>3. Paid(p, pool[i].outs) = PaidTo({p}, pool[i].outs)
    BY <2>1, PaidOf
  <2>4. g[i] = PaidTo({p}, pool[i].outs) - Holding({p}, pool[i].ins) /\ g[i] \in Int
    BY <1>1 DEF Moves
  <2>5. f[i] = Paid(p, pool[i].outs) - Value({c \in pool[i].ins : c.owner.who = p})
    BY Zenon
  <2> HIDE DEF f, g
  <2> QED BY <2>2, <2>3, <2>4, <2>5
<1>3. Pending(p) = SumFunctionOnSet(f, S)
  BY Zenon DEF Pending, SumFunction
<1>4. MovedTo({p}, pool) = SumFunctionOnSet(g, S)
  BY Zenon DEF MovedTo, SeqWeight
<1> HIDE DEF f, g, S
<1> QED BY <1>1, <1>2, <1>3, <1>4, SumCongruence

-----------------------------------------------------------------------------
(***************************************************************************)
(* Blocks.                                                                 *)
(***************************************************************************)
Spent(txs) == UnionOf([i \in DOMAIN txs |-> txs[i].ins], DOMAIN txs)
NewCoins(outs) ==
    {[id |-> created + i, value |-> outs[i].value, owner |-> outs[i].owner] : i \in DOMAIN outs}

LEMMA NewCoinsWeight ==
  ASSUME created \in Nat, NEW outs \in Seq(Outputs), NEW Q
  PROVE  /\ NewCoins(outs) \in SUBSET Coins /\ IsFiniteSet(NewCoins(outs))
         /\ \A c \in NewCoins(outs) : c.id \in created + 1 .. created + Len(outs)
         /\ Holding(Q, NewCoins(outs)) = PaidTo(Q, outs)
<1> DEFINE S == DOMAIN outs
           b == [i \in S |-> [id |-> created + i, value |-> outs[i].value, owner |-> outs[i].owner]]
           f == [i \in S |-> OutputWeight(Q)[outs[i]]]
<1>1. /\ IsFiniteSet(S) /\ S = 1 .. Len(outs) /\ Len(outs) \in Nat
      /\ \A i \in S : outs[i] \in Outputs /\ OutputWeight(Q)[outs[i]] \in Int
  BY CoinWeightType, SeqWeightType
<1>2. \A i \in S : b[i] \in Coins /\ b[i].id = created + i
  BY <1>1 DEF Coins, Outputs
<1>3. \A i \in S : f[i] \in Int /\ CoinWeight(Q)[b[i]] = f[i]
  BY <1>1, <1>2 DEF OutputWeight, CoinWeight
<1>4. \A i, j \in S : b[i] = b[j] => i = j
  <2> SUFFICES ASSUME NEW i \in S, NEW j \in S, b[i] = b[j] PROVE i = j
    OBVIOUS
  <2>1. created + i = created + j
    BY <1>2
  <2>2. i \in Int /\ j \in Int
    BY <1>1
  <2> QED BY <2>1, <2>2
<1>5. NewCoins(outs) = ImageOf(b, S)
  BY DEF NewCoins, ImageOf
<1>6. ImageOf(b, S) = {b[i] : i \in S}
  BY DEF ImageOf
<1>7. PaidTo(Q, outs) = SumFunctionOnSet(f, S)
  BY Zenon DEF PaidTo, SeqWeight
<1> HIDE DEF b, f
<1>8. /\ IsFiniteSet(ImageOf(b, S))
      /\ SumFunctionOnSet(CoinWeight(Q), ImageOf(b, S)) = SumFunctionOnSet(f, S)
  BY <1>1, <1>3, <1>4, SumReindex
<1>9. \A c \in ImageOf(b, S) : c \in Coins /\ c.id \in created + 1 .. created + Len(outs)
  <2> SUFFICES ASSUME NEW i \in S
               PROVE  b[i] \in Coins /\ b[i].id \in created + 1 .. created + Len(outs)
    BY <1>6
  <2> QED BY <1>1, <1>2
<1> HIDE DEF S
<1> QED BY <1>5, <1>7, <1>8, <1>9 DEF Holding

\* The outputs after other outputs.
LEMMA WeightOfTwo ==
  ASSUME NEW Q, NEW s \in Seq(Outputs), NEW t \in Seq(Outputs)
  PROVE  /\ SeqWeight(OutputWeight(Q), s \o t) =
              SeqWeight(OutputWeight(Q), s) + SeqWeight(OutputWeight(Q), t)
         /\ PaidTo(Q, s \o t) = PaidTo(Q, s) + PaidTo(Q, t)
<1> DEFINE v == OutputWeight(Q)
<1>1. v \in [Outputs -> Int]
  BY CoinWeightType
<1> HIDE DEF v
<1>2. SeqWeight(v, s \o t) = SeqWeight(v, s) + SeqWeight(v, t)
  BY <1>1, SeqWeightConcat
<1> QED BY <1>2 DEF v, PaidTo

BlockOutputs(coinbase, txs) ==
    <<coinbase>> \o FlattenSeq([i \in DOMAIN txs |-> txs[i].outs])
AfterBlock(Q, txs, coinbase, outs, after) ==
    /\ outs \in Seq(Outputs) /\ outs[1] = coinbase
    /\ after \in SUBSET Coins /\ IsFiniteSet(after)
    /\ \A c \in after : c.id <= created + Len(outs)
    /\ Holding(Q, after) = Holding(Q, utxo) + MovedTo(Q, txs) + OutputWeight(Q)[coinbase]

\* The coins of Q after a block: what its transactions move to Q and its
\* coinbase come on top.
LEMMA BlockWeight ==
  ASSUME created \in Nat, utxo \in SUBSET Coins, IsFiniteSet(utxo),
         \A c \in utxo : c.id <= created,
         NEW txs \in Seq(Txs), NEW coinbase \in Outputs, NEW Q,
         \A i \in DOMAIN txs : txs[i].ins \subseteq utxo,
         \A i, j \in DOMAIN txs : i # j => txs[i].ins \cap txs[j].ins = {},
         NEW outs, outs = BlockOutputs(coinbase, txs),
         NEW after, after = (utxo \ Spent(txs)) \cup NewCoins(outs)
  PROVE  AfterBlock(Q, txs, coinbase, outs, after)
<1> DEFINE S == DOMAIN txs
           F == [i \in S |-> txs[i].ins]
           ss == [i \in S |-> txs[i].outs]
           in == [i \in S |-> SumFunctionOnSet(CoinWeight(Q), F[i])]
           out == [i \in S |-> SeqWeight(OutputWeight(Q), ss[i])]
           m == [i \in S |-> Moves(Q)[txs[i]]]
<1>1. /\ IsFiniteSet(S) /\ S = 1 .. Len(txs) /\ Len(txs) \in Nat
      /\ \A i \in S : txs[i] \in Txs
  BY MovesType, SeqWeightType
<1>2. \A i \in S : /\ F[i] = txs[i].ins /\ F[i] \in SUBSET Coins /\ IsFiniteSet(F[i])
                   /\ ss[i] = txs[i].outs /\ ss[i] \in Seq(Outputs)
  BY <1>1 DEF Txs
<1>3. ss \in Seq(Seq(Outputs)) /\ DOMAIN ss = S
  <2>1. ss \in [1 .. Len(txs) -> Seq(Outputs)]
    BY <1>1, <1>2
  <2> HIDE DEF ss
  <2> QED BY <1>1, <2>1, SeqDef
<1>4. /\ FlattenSeq(ss) \in Seq(Outputs)
      /\ PaidTo(Q, FlattenSeq(ss)) = SumFunctionOnSet(out, S)
  <2>1. out = [i \in DOMAIN ss |-> SeqWeight(OutputWeight(Q), ss[i])]
    BY <1>3
  <2> HIDE DEF out, S, ss
  <2>2. /\ FlattenSeq(ss) \in Seq(Outputs)
        /\ SeqWeight(OutputWeight(Q), FlattenSeq(ss)) =
             SumFunctionOnSet([i \in DOMAIN ss |-> SeqWeight(OutputWeight(Q), ss[i])], DOMAIN ss)
    BY <1>3, CoinWeightType, SeqWeightFlatten
  <2> QED BY <1>3, <2>1, <2>2 DEF PaidTo
<1>5. /\ outs \in Seq(Outputs) /\ outs[1] = coinbase
      /\ PaidTo(Q, outs) = OutputWeight(Q)[coinbase] + SumFunctionOnSet(out, S)
  <2>1. <<coinbase>> \in Seq(Outputs) /\ <<coinbase>>[1] = coinbase /\ Len(<<coinbase>>) = 1
    OBVIOUS
  <2> HIDE DEF ss
  <2>2. outs = <<coinbase>> \o FlattenSeq(ss)
    BY DEF ss, BlockOutputs
  <2>3. outs \in Seq(Outputs)
    <3>1. <<coinbase>> \o FlattenSeq(ss) \in Seq(Outputs)
      BY <1>4, <2>1, ConcatProperties
    <3> QED BY <2>2, <3>1
  <2>4. outs[1] = coinbase
    <3>1. /\ \A i \in 1 .. Len(<<coinbase>>) + Len(FlattenSeq(ss)) :
               (<<coinbase>> \o FlattenSeq(ss))[i] =
                  IF i <= Len(<<coinbase>>) THEN <<coinbase>>[i]
                  ELSE FlattenSeq(ss)[i - Len(<<coinbase>>)]
          /\ Len(FlattenSeq(ss)) \in Nat
      BY <1>4, <2>1, ConcatProperties, LenProperties
    <3>2. 1 \in 1 .. Len(<<coinbase>>) + Len(FlattenSeq(ss))
      BY <2>1, <3>1
    <3> QED BY <2>1, <2>2, <3>1, <3>2
  <2>5. SeqWeight(OutputWeight(Q), outs) = SeqWeight(OutputWeight(Q), <<coinbase>>)
                                           + SeqWeight(OutputWeight(Q), FlattenSeq(ss))
    <3>1. SeqWeight(OutputWeight(Q), <<coinbase>> \o FlattenSeq(ss)) =
            SeqWeight(OutputWeight(Q), <<coinbase>>) + SeqWeight(OutputWeight(Q), FlattenSeq(ss))
      BY <1>4, <2>1, WeightOfTwo DEF PaidTo
    <3> QED BY <2>2, <3>1, Zenon
  <2>6. SeqWeight(OutputWeight(Q), <<coinbase>>) = OutputWeight(Q)[coinbase]
    BY CoinWeightType, SeqWeightOne
  <2> QED BY <1>4, <2>3, <2>4, <2>5, <2>6 DEF PaidTo
<1>6. \A i \in S : /\ in[i] \in Int /\ out[i] \in Int /\ m[i] \in Int
                   /\ out[i] = m[i] + in[i]
  <2> SUFFICES ASSUME NEW i \in S
               PROVE  /\ in[i] \in Int /\ out[i] \in Int /\ m[i] \in Int
                      /\ out[i] = m[i] + in[i]
    OBVIOUS
  <2>1. in[i] = Holding(Q, txs[i].ins) /\ out[i] = PaidTo(Q, txs[i].outs)
    BY <1>2 DEF Holding, PaidTo
  <2>2. m[i] = PaidTo(Q, txs[i].outs) - Holding(Q, txs[i].ins)
    BY <1>1 DEF Moves
  <2>3. Holding(Q, txs[i].ins) \in Int /\ PaidTo(Q, txs[i].outs) \in Int
    BY <1>2, HoldingType, CoinWeightType, SeqWeightType DEF PaidTo
  <2> HIDE DEF in, out, m
  <2> QED BY <2>1, <2>2, <2>3
<1>7. SumFunctionOnSet(out, S) = MovedTo(Q, txs) + SumFunctionOnSet(in, S)
  <2>1. MovedTo(Q, txs) = SumFunctionOnSet(m, S)
    BY Zenon DEF MovedTo, SeqWeight
  <2>2. IsFiniteSet(S) /\ \A i \in S : in[i] \in Int /\ m[i] \in Int /\ out[i] = m[i] + in[i]
    BY <1>1, <1>6
  <2> HIDE DEF in, out, m, S
  <2>3. SumFunctionOnSet(out, S) = SumFunctionOnSet(m, S) + SumFunctionOnSet(in, S)
    BY <2>2, SumPointwise
  <2> QED BY <2>1, <2>3
<1>8. Spent(txs) = UnionOf(F, S) /\ UnionOf(F, S) = UNION {F[i] : i \in S}
  BY DEF Spent, UnionOf
<1>9. /\ IsFiniteSet(Spent(txs)) /\ Spent(txs) \subseteq utxo
      /\ Holding(Q, Spent(txs)) = SumFunctionOnSet(in, S)
  <2>1. \A i \in S : IsFiniteSet(F[i]) /\ \A x \in F[i] : CoinWeight(Q)[x] \in Int
    BY <1>2, CoinWeightType
  <2>2. \A i, j \in S : i # j => F[i] \cap F[j] = {}
    BY <1>2
  <2>3. \A i \in S : F[i] \subseteq utxo
    BY <1>2
  <2>a. IsFiniteSet(S)
    BY <1>1
  <2> HIDE DEF F, S
  <2>b. /\ IsFiniteSet(UnionOf(F, S))
        /\ SumFunctionOnSet(CoinWeight(Q), UnionOf(F, S)) =
             SumFunctionOnSet([i \in S |-> SumFunctionOnSet(CoinWeight(Q), F[i])], S)
    BY <2>a, <2>1, <2>2, SumOfFamily
  <2>4. /\ IsFiniteSet(UnionOf(F, S))
        /\ SumFunctionOnSet(CoinWeight(Q), UnionOf(F, S)) = SumFunctionOnSet(in, S)
    BY <2>b, Zenon
  <2>5. UnionOf(F, S) \subseteq utxo
    BY <1>8, <2>3
  <2> QED BY <1>8, <2>4, <2>5 DEF Holding
<1> HIDE DEF S, F, ss, in, out, m
<1>10. /\ NewCoins(outs) \in SUBSET Coins /\ IsFiniteSet(NewCoins(outs))
       /\ \A c \in NewCoins(outs) : c.id \in created + 1 .. created + Len(outs)
       /\ Holding(Q, NewCoins(outs)) = PaidTo(Q, outs)
  BY <1>5, NewCoinsWeight
<1> DEFINE left == utxo \ Spent(txs)
<1>11. /\ left \in SUBSET Coins /\ IsFiniteSet(left)
       /\ left \cup Spent(txs) = utxo /\ left \cap Spent(txs) = {}
  BY <1>9, FS_Subset
<1>12. \A c \in utxo : c.id \in Nat
  BY DEF Coins
<1>13. left \cap NewCoins(outs) = {}
  <2> SUFFICES ASSUME NEW c \in left, c \in NewCoins(outs) PROVE FALSE
    OBVIOUS
  <2>1. c.id <= created /\ c.id \in Nat
    BY <1>12
  <2>2. c.id \in created + 1 .. created + Len(outs)
    BY <1>10
  <2> QED BY <2>1, <2>2
<1>14. after = left \cup NewCoins(outs)
  OBVIOUS
<1>15. \A c \in after : c.id <= created + Len(outs)
  <2> SUFFICES ASSUME NEW c \in after PROVE c.id <= created + Len(outs)
    OBVIOUS
  <2>1. Len(outs) \in Nat
    BY <1>5, LenProperties
  <2>2. CASE c \in left
    <3>1. c.id <= created /\ c.id \in Nat
      BY <1>12, <2>2
    <3> QED BY <2>1, <3>1
  <2>3. CASE c \in NewCoins(outs)
    <3>1. c.id \in created + 1 .. created + Len(outs)
      BY <1>10, <2>3
    <3> QED BY <2>1, <3>1
  <2> QED BY <1>14, <2>2, <2>3
<1> HIDE DEF left
<1>16. IsFiniteSet(after) /\ after \in SUBSET Coins
  <2>1. IsFiniteSet(left \cup NewCoins(outs))
    BY <1>10, <1>11, FS_Union
  <2> QED BY <1>10, <1>11, <1>14, <2>1
<1>17. \A c \in Coins : CoinWeight(Q)[c] \in Int
  BY CoinWeightType
<1>18. Holding(Q, utxo) = Holding(Q, left) + Holding(Q, Spent(txs))
  <2>1. \A c \in left \cup Spent(txs) : CoinWeight(Q)[c] \in Int
    BY <1>11, <1>17
  <2> QED BY <1>9, <1>11, <2>1, SumDisjointUnion DEF Holding
<1>19. Holding(Q, after) = Holding(Q, left) + Holding(Q, NewCoins(outs))
  <2>1. \A c \in left \cup NewCoins(outs) : CoinWeight(Q)[c] \in Int
    BY <1>10, <1>11, <1>17
  <2>2. Holding(Q, left \cup NewCoins(outs)) = Holding(Q, left) + Holding(Q, NewCoins(outs))
    BY <1>10, <1>11, <1>13, <2>1, SumDisjointUnion DEF Holding
  <2> QED BY <1>14, <2>2
<1>20. /\ Holding(Q, left) \in Int /\ Holding(Q, Spent(txs)) \in Int
       /\ MovedTo(Q, txs) \in Int /\ OutputWeight(Q)[coinbase] \in Int
  <2>1. Spent(txs) \in SUBSET Coins
    BY <1>9
  <2>2. MovedTo(Q, txs) \in Int
    BY MovesType, SeqWeightType DEF MovedTo
  <2> QED BY <1>9, <1>11, <2>1, <2>2, HoldingType, CoinWeightType
<1>21. Holding(Q, after) = Holding(Q, utxo) + MovedTo(Q, txs) + OutputWeight(Q)[coinbase]
  BY <1>5, <1>7, <1>9, <1>10, <1>18, <1>19, <1>20
<1> QED BY <1>5, <1>15, <1>16, <1>21 DEF AfterBlock

-----------------------------------------------------------------------------
(***************************************************************************)
(* Payments.                                                               *)
(***************************************************************************)

\* Coins of one owner weigh something for him only.
LEMMA HoldingOfOne ==
  ASSUME NEW S \in SUBSET Coins, IsFiniteSet(S), NEW w, \A c \in S : c.owner.who = w, NEW p
  PROVE  Holding({p}, S) = IF p = w THEN Holding(Owners, S) ELSE 0
<1>1. \A c \in S : /\ CoinWeight({p})[c] \in Int /\ CoinWeight(Owners)[c] \in Int
                   /\ CoinWeight(Owners)[c] = c.value
                   /\ CoinWeight({p})[c] = IF p = w THEN c.value ELSE 0
  BY DEF CoinWeight, Coins, Addresses
<1>2. CASE p = w
  <2>1. \A c \in S : CoinWeight({p})[c] = CoinWeight(Owners)[c] /\ CoinWeight({p})[c] \in Int
    BY <1>1, <1>2
  <2>2. SumFunctionOnSet(CoinWeight({p}), S) = SumFunctionOnSet(CoinWeight(Owners), S)
    BY <2>1, SumCongruence
  <2> QED BY <1>2, <2>2 DEF Holding
<1>3. CASE p # w
  <2>1. \A c \in S : /\ CoinWeight(Owners)[c] \in Int
                     /\ CoinWeight({p})[c] = IF c \in {} THEN CoinWeight(Owners)[c] ELSE 0
    BY <1>1, <1>3
  <2>2. SumFunctionOnSet(CoinWeight({p}), S) = SumFunctionOnSet(CoinWeight(Owners), {})
    BY <2>1, SumOfPart
  <2> QED BY <1>3, <2>2, SumEmpty DEF Holding
<1> QED BY <1>2, <1>3

LEMMA PaidToOne ==
  ASSUME NEW outs \in Seq(Outputs), NEW w, \A i \in DOMAIN outs : outs[i].owner.who = w, NEW p
  PROVE  PaidTo({p}, outs) = IF p = w THEN PaidTo(Owners, outs) ELSE 0
<1> DEFINE S == DOMAIN outs
           f == [i \in S |-> OutputWeight(Owners)[outs[i]]]
           g == [i \in S |-> OutputWeight({p})[outs[i]]]
<1>1. IsFiniteSet(S) /\ \A i \in S : outs[i] \in Outputs
  BY CoinWeightType, SeqWeightType
<1>2. \A i \in S : f[i] \in Int /\ g[i] \in Int /\ g[i] = IF p = w THEN f[i] ELSE 0
  BY <1>1 DEF Outputs, OutputWeight, Addresses
<1>3. /\ PaidTo(Owners, outs) = SumFunctionOnSet(f, S)
      /\ PaidTo({p}, outs) = SumFunctionOnSet(g, S)
  BY Zenon DEF PaidTo, SeqWeight
<1> HIDE DEF S, f, g
<1>4. CASE p = w
  <2>1. \A i \in S : g[i] = f[i] /\ g[i] \in Int
    BY <1>2, <1>4
  <2>2. SumFunctionOnSet(g, S) = SumFunctionOnSet(f, S)
    BY <1>1, <2>1, SumCongruence
  <2> QED BY <1>3, <1>4, <2>2
<1>5. CASE p # w
  <2>1. \A i \in S : f[i] \in Int /\ g[i] = IF i \in {} THEN f[i] ELSE 0
    BY <1>2, <1>5
  <2>2. SumFunctionOnSet(g, S) = SumFunctionOnSet(f, {})
    BY <1>1, <2>1, SumOfPart
  <2> QED BY <1>3, <1>5, <2>2, SumEmpty
<1> QED BY <1>4, <1>5

-----------------------------------------------------------------------------
(***************************************************************************)
(* The inductive invariant.                                                *)
(***************************************************************************)
TypeInv ==
    /\ scripts \in [Wallets -> SUBSET Keys]
    /\ utxo \in SUBSET Coins /\ IsFiniteSet(utxo)
    /\ pool \in Seq(Txs)
    /\ height \in Nat /\ created \in Nat
    /\ due \in [Owners -> Int]
    /\ repeated \in BOOLEAN

\* A coin or an output of a wallet pays an address it has derived.
Seen(o) == o.owner.who \in Wallets => o.owner.key \in scripts[o.owner.who]
SeenInv ==
    /\ \A c \in utxo : Seen(c)
    /\ \A i \in DOMAIN pool : \A k \in DOMAIN pool[i].outs : Seen(pool[i].outs[k])

PoolInv ==
    /\ \A i \in DOMAIN pool : pool[i].ins \subseteq utxo /\ Moves(Owners)[pool[i]] <= 0
    /\ \A i, j \in DOMAIN pool : i # j => pool[i].ins \cap pool[j].ins = {}

IdsInv == \A c \in utxo : c.id <= created
SupplyInv == Holding(Owners, utxo) = Reward * height
BooksInv ==
    ~repeated => \A p \in Owners : Holding({p}, utxo) + MovedTo({p}, pool) = due[p]

IInv == TypeInv /\ SeenInv /\ PoolInv /\ IdsInv /\ SupplyInv /\ BooksInv

\* The invariant says what the runs check.
LEMMA ViewIs ==
  ASSUME TypeInv, SeenInv, NEW w \in Wallets
  PROVE  View(w) = {c \in utxo : c.owner.who = w}
  BY DEF TypeInv, SeenInv, Seen, View

LEMMA SupplyFollows ==
  ASSUME IInv
  PROVE  SupplyConserved
<1>1. Value(utxo) = Holding(Owners, utxo)
  BY ValueAll DEF IInv, TypeInv
<1>2. \A c \in utxo : c.value > 0
  BY DEF IInv, TypeInv, Coins
<1> QED BY <1>1, <1>2 DEF IInv, SupplyInv, SupplyConserved

LEMMA BooksFollow ==
  ASSUME IInv
  PROVE  BooksMatch
<1> SUFFICES ASSUME ~repeated, NEW p \in Owners PROVE BooksOf(p)
  BY DEF BooksMatch
<1>1. Confirmed(p) = Value({c \in utxo : c.owner.who = p})
  <2>1. CASE p = ChannelOwner
    BY <2>1 DEF Confirmed
  <2>2. CASE p # ChannelOwner
    <3>1. p \in Wallets
      BY <2>2 DEF Owners
    <3> QED BY <2>2, <3>1, ViewIs DEF Confirmed, IInv
  <2> QED BY <2>1, <2>2
<1>2. Value({c \in utxo : c.owner.who = p}) = Holding({p}, utxo)
  <2>1. {c \in utxo : c.owner.who = p} = {c \in utxo : c.owner.who \in {p}}
    OBVIOUS
  <2>2. Value({c \in utxo : c.owner.who \in {p}}) = Holding({p}, utxo)
    BY ValueOf DEF IInv, TypeInv
  <2> QED BY <2>1, <2>2, Zenon
<1>3. Pending(p) = MovedTo({p}, pool)
  BY PendingIs DEF IInv, TypeInv
<1>4. Holding({p}, utxo) + MovedTo({p}, pool) = due[p]
  BY DEF IInv, BooksInv
<1> QED BY <1>1, <1>2, <1>3, <1>4 DEF BooksOf

LEMMA InitHolds == Init => IInv
<1> SUFFICES ASSUME Init PROVE IInv
  OBVIOUS
<1>1. TypeInv
  <2>1. IsFiniteSet(utxo) /\ utxo \in SUBSET Coins
    BY FS_EmptySet DEF Init
  <2>2. pool \in Seq(Txs)
    BY EmptySeq DEF Init
  <2>3. scripts \in [Wallets -> SUBSET Keys] /\ due \in [Owners -> Int]
    BY DEF Init
  <2>4. height \in Nat /\ created \in Nat /\ repeated \in BOOLEAN
    BY DEF Init
  <2> QED BY <2>1, <2>2, <2>3, <2>4 DEF TypeInv
<1>2. \A Q : Holding(Q, utxo) = 0
  BY SumEmpty DEF Init, Holding
<1>3. \A Q : MovedTo(Q, pool) = 0
  BY SeqWeightEmpty DEF Init, MovedTo
<1>4. SeenInv /\ PoolInv /\ IdsInv
  BY DEF Init, SeenInv, PoolInv, IdsInv
<1>5. SupplyInv
  <2>1. Reward * height = 0
    BY WalletAssumption DEF Init
  <2> QED BY <1>2, <2>1 DEF SupplyInv
<1>6. BooksInv
  BY <1>2, <1>3 DEF Init, BooksInv
<1> QED BY <1>1, <1>4, <1>5, <1>6 DEF IInv

-----------------------------------------------------------------------------
(***************************************************************************)
(* Steps.                                                                  *)
(***************************************************************************)
LEMMA AddressKeepsIInv ==
  ASSUME IInv, NEW w \in Wallets, NEW k \in Keys, NewReceiveAddress(w, k)
  PROVE  IInv'
<1>1. /\ scripts' = [scripts EXCEPT ![w] = @ \cup {k}]
      /\ utxo' = utxo /\ height' = height /\ created' = created /\ pool' = pool
      /\ due' = due /\ repeated' = repeated
  BY DEF NewReceiveAddress, chain
<1>2. TypeInv'
  BY <1>1 DEF IInv, TypeInv
<1>3. \A o : Seen(o) => Seen(o)'
  BY <1>1 DEF IInv, TypeInv, Seen
<1>4. SeenInv'
  BY <1>1, <1>3 DEF IInv, SeenInv
<1>5. PoolInv' /\ IdsInv' /\ SupplyInv' /\ BooksInv'
  BY <1>1 DEF IInv, PoolInv, IdsInv, SupplyInv, BooksInv
<1> QED BY <1>2, <1>4, <1>5 DEF IInv

\* What a wallet builds: a transaction of its own coins that pays the payee,
\* leaves a fee and sends the change to itself.
LEMMA BuildFacts ==
  ASSUME IInv, NEW w \in Wallets, NEW payee \in Owners, payee # w,
         NEW outs \in Seq(Outputs),
         \A i \in DOMAIN outs : outs[i].owner.who = payee /\ Seen(outs[i]),
         NEW sel \in SUBSET View(w), NEW change \in AddressesOf(w),
         Change(sel, outs) >= 0,
         NEW tx, tx = BuildAndSign(sel, outs, change)
  PROVE  /\ tx \in Txs /\ tx.ins = sel /\ sel \subseteq utxo
         /\ \A i \in DOMAIN tx.outs : Seen(tx.outs[i])
         /\ Value(tx.ins) - Sum(tx.outs) \in Nat /\ Sum(outs) \in Int
         /\ Moves(Owners)[tx] = 0 - (Value(tx.ins) - Sum(tx.outs))
         /\ \A p \in Owners : Moves({p})[tx] =
               IF p = w THEN 0 - Sum(outs) - (Value(tx.ins) - Sum(tx.outs))
               ELSE IF p = payee THEN Sum(outs) ELSE 0
<1> DEFINE ch == Change(sel, outs)
           back == [value |-> ch, owner |-> change]
           rest == IF ch < Dust THEN << >> ELSE <<back>>
<1>1. /\ sel \in SUBSET Coins /\ IsFiniteSet(sel) /\ sel \subseteq utxo
      /\ \A c \in sel : c.owner.who = w
  <2>1. sel \subseteq utxo /\ \A c \in sel : c.owner.who = w
    BY DEF View
  <2> QED BY <2>1, FS_Subset DEF IInv, TypeInv
<1>2. /\ Dust \in Nat \ {0}
      /\ BaseSize \in Nat /\ InputSize \in Nat /\ OutputSize \in Nat
  BY WalletAssumption
<1>3. Value(sel) = Holding(Owners, sel) /\ Value(sel) \in Int
  BY <1>1, ValueAll, HoldingType
<1>4. Sum(outs) = PaidTo(Owners, outs) /\ Sum(outs) \in Int
  BY SumAll, CoinWeightType, SeqWeightType DEF PaidTo
<1>5. Fee(sel, outs) \in Nat
  <2>1. Cardinality(sel) \in Nat /\ Len(outs) \in Nat
    BY <1>1, FS_CardinalityType, LenProperties
  <2> DEFINE a == Cardinality(sel)
             b == Len(outs) + 1
  <2>2. a \in Nat /\ b \in Nat
    BY <2>1
  <2>3. Fee(sel, outs) = BaseSize + InputSize * a + OutputSize * b
    BY DEF Fee
  <2> HIDE DEF a, b
  <2>4. InputSize * a \in Nat /\ OutputSize * b \in Nat
    BY <1>2, <2>2
  <2> QED BY <1>2, <2>3, <2>4
<1>6. ch = Value(sel) - Sum(outs) - Fee(sel, outs) /\ ch \in Nat
  BY <1>3, <1>4, <1>5 DEF Change
<1>7. tx = [ins |-> sel, outs |-> outs \o rest]
  BY DEF BuildAndSign
<1> HIDE DEF ch
<1>8. change \in Addresses /\ change.who = w /\ change.key \in scripts[w]
  BY DEF AddressesOf
<1>9. ch >= Dust => back \in Outputs /\ back.owner.who = w /\ Seen(back)
  BY <1>2, <1>6, <1>8 DEF Outputs, Seen
<1>10. /\ rest \in Seq(Outputs)
       /\ \A i \in DOMAIN rest : rest[i].owner.who = w /\ Seen(rest[i])
       /\ PaidTo(Owners, rest) = IF ch < Dust THEN 0 ELSE ch
  <2>1. CASE ch < Dust
    <3>1. rest = << >>
      BY <2>1
    <3> QED BY <2>1, <3>1, EmptySeq, SeqWeightEmpty DEF PaidTo
  <2>2. CASE ~(ch < Dust)
    <3>1. rest = <<back>> /\ back \in Outputs
      BY <1>2, <1>6, <1>9, <2>2
    <3>2. OutputWeight(Owners)[back] = ch
      BY <3>1 DEF OutputWeight, Outputs, Addresses
    <3>3. SeqWeight(OutputWeight(Owners), <<back>>) = ch
      BY <3>1, <3>2, CoinWeightType, SeqWeightOne
    <3>4. /\ <<back>> \in Seq(Outputs) /\ DOMAIN <<back>> = {1} /\ <<back>>[1] = back
      BY <3>1
    <3>5. back.owner.who = w /\ Seen(back)
      BY <1>2, <1>6, <1>9, <2>2
    <3> HIDE DEF rest, back
    <3> QED BY <2>2, <3>1, <3>3, <3>4, <3>5 DEF PaidTo
  <2> QED BY <2>1, <2>2
<1> HIDE DEF rest
<1>11. /\ outs \o rest \in Seq(Outputs)
       /\ \A Q : PaidTo(Q, outs \o rest) = PaidTo(Q, outs) + PaidTo(Q, rest)
       /\ \A i \in DOMAIN (outs \o rest) : Seen((outs \o rest)[i])
  <2>1. /\ outs \o rest \in Seq(Outputs) /\ Len(outs \o rest) = Len(outs) + Len(rest)
        /\ \A i \in 1 .. Len(outs) + Len(rest) :
             (outs \o rest)[i] = IF i <= Len(outs) THEN outs[i] ELSE rest[i - Len(outs)]
    BY <1>10, ConcatProperties
  <2>2. /\ DOMAIN (outs \o rest) = 1 .. Len(outs) + Len(rest)
        /\ DOMAIN outs = 1 .. Len(outs) /\ DOMAIN rest = 1 .. Len(rest)
        /\ Len(outs) \in Nat /\ Len(rest) \in Nat
    BY <1>10, <2>1, LenProperties
  <2>3. ASSUME NEW i \in DOMAIN (outs \o rest) PROVE Seen((outs \o rest)[i])
    <3>1. i \in 1 .. Len(outs) \/ i - Len(outs) \in 1 .. Len(rest)
      BY <2>2
    <3>2. (outs \o rest)[i] = IF i <= Len(outs) THEN outs[i] ELSE rest[i - Len(outs)]
      BY <2>1, <2>2
    <3>3. CASE i <= Len(outs)
      <4>1. i \in DOMAIN outs
        BY <2>2, <3>3
      <4> QED BY <3>2, <3>3, <4>1
    <3>4. CASE ~(i <= Len(outs))
      <4>1. i - Len(outs) \in DOMAIN rest
        BY <2>2, <3>1, <3>4
      <4> QED BY <1>10, <3>2, <3>4, <4>1
    <3> QED BY <3>3, <3>4
  <2>4. ASSUME NEW Q PROVE PaidTo(Q, outs \o rest) = PaidTo(Q, outs) + PaidTo(Q, rest)
    BY <1>10, WeightOfTwo
  <2> QED BY <2>1, <2>3, <2>4
<1>12. tx \in Txs /\ tx.ins = sel /\ tx.outs = outs \o rest
  BY <1>1, <1>7, <1>11 DEF Txs
<1> DEFINE fee == Value(tx.ins) - Sum(tx.outs)
<1>13. Sum(tx.outs) = Sum(outs) + PaidTo(Owners, rest)
  BY <1>4, <1>11, <1>12, SumAll
<1>14. fee = Value(sel) - Sum(outs) - PaidTo(Owners, rest) /\ PaidTo(Owners, rest) \in Int
  <2>1. PaidTo(Owners, rest) \in Int
    BY <1>6, <1>10
  <2> QED BY <1>3, <1>4, <1>12, <1>13, <2>1
<1> HIDE DEF fee
<1>15. fee \in Nat
  BY <1>2, <1>3, <1>4, <1>5, <1>6, <1>10, <1>14
<1>16. Moves(Owners)[tx] = 0 - fee
  <2>1. Moves(Owners)[tx] = PaidTo(Owners, outs \o rest) - Holding(Owners, sel)
    BY <1>12 DEF Moves
  <2>2. PaidTo(Owners, outs \o rest) = PaidTo(Owners, outs) + PaidTo(Owners, rest)
    BY <1>11
  <2> QED BY <1>3, <1>4, <1>14, <2>1, <2>2
<1>17. ASSUME NEW p \in Owners
       PROVE  Moves({p})[tx] = IF p = w THEN 0 - Sum(outs) - fee
                               ELSE IF p = payee THEN Sum(outs) ELSE 0
  <2>1. PICK Q : Q = {p}
    OBVIOUS
  <2>2. Moves(Q)[tx] = PaidTo(Q, outs \o rest) - Holding(Q, sel)
    BY <1>12 DEF Moves
  <2>3. PaidTo(Q, outs \o rest) = PaidTo(Q, outs) + PaidTo(Q, rest)
    BY <1>11
  <2>4. PaidTo(Q, outs) = IF p = payee THEN Sum(outs) ELSE 0
    BY <1>4, <2>1, PaidToOne
  <2>5. PaidTo(Q, rest) = IF p = w THEN PaidTo(Owners, rest) ELSE 0
    BY <1>10, <2>1, PaidToOne
  <2>6. Holding(Q, sel) = IF p = w THEN Value(sel) ELSE 0
    BY <1>1, <1>3, <2>1, HoldingOfOne
  <2>7. p = w => p # payee
    OBVIOUS
  <2>8. Moves(Q)[tx] = IF p = w THEN 0 - Sum(outs) - fee
                       ELSE IF p = payee THEN Sum(outs) ELSE 0
    BY <1>3, <1>4, <1>14, <2>2, <2>3, <2>4, <2>5, <2>6, <2>7
  <2> QED BY <2>1, <2>8, Zenon
<1> QED BY <1>1, <1>4, <1>11, <1>12, <1>15, <1>16, <1>17 DEF fee

\* A payment and a channel's funding.
LEMMA SendKeepsIInv ==
  ASSUME IInv, NEW w \in Wallets, NEW payee \in Owners, payee # w,
         NEW outs \in Seq(Outputs),
         \A i \in DOMAIN outs : outs[i].owner.who = payee /\ Seen(outs[i]),
         Send(w, payee, outs)
  PROVE  IInv'
<1>1. PICK sel \in SelectUtxos(View(w), Sum(outs) + Headroom), change \in AddressesOf(w) :
        /\ Change(sel, outs) >= 0
        /\ Submit(w, payee, BuildAndSign(sel, outs, change), Sum(outs))
  BY DEF Send
<1>2. PICK tx : tx = BuildAndSign(sel, outs, change)
  OBVIOUS
<1> DEFINE fee == Value(tx.ins) - Sum(tx.outs)
<1>3. sel \in SUBSET View(w)
  BY DEF SelectUtxos
<1>4. /\ tx \in Txs /\ tx.ins \subseteq utxo
      /\ \A i \in DOMAIN tx.outs : Seen(tx.outs[i])
      /\ fee \in Nat /\ Sum(outs) \in Int
      /\ Moves(Owners)[tx] = 0 - fee
      /\ \A p \in Owners : Moves({p})[tx] = IF p = w THEN 0 - Sum(outs) - fee
                                            ELSE IF p = payee THEN Sum(outs) ELSE 0
  BY <1>1, <1>2, <1>3, BuildFacts
<1>5. Submit(w, payee, tx, Sum(outs))
  BY <1>1, <1>2
<1> HIDE DEF fee
<1>6. /\ scripts' = scripts /\ utxo' = utxo /\ height' = height /\ created' = created
      /\ repeated' = (repeated \/ tx \in ToSet(pool))
      /\ tx \in ToSet(pool) \/ Conflictless(tx)
      /\ pool' = IF tx \in ToSet(pool) THEN pool ELSE Append(pool, tx)
      /\ due' = [due EXCEPT ![w] = @ - Sum(outs) - fee, ![payee] = @ + Sum(outs)]
  BY <1>5 DEF Submit, chain, fee
<1>7. /\ pool \in Seq(Txs) /\ Len(pool) \in Nat /\ DOMAIN pool = 1 .. Len(pool)
      /\ due \in [Owners -> Int] /\ w \in Owners
  BY LenProperties DEF IInv, TypeInv, Owners
<1>8. /\ Append(pool, tx) \in Seq(Txs)
      /\ DOMAIN Append(pool, tx) = 1 .. Len(pool) + 1
      /\ Append(pool, tx)[Len(pool) + 1] = tx
      /\ \A i \in DOMAIN pool : Append(pool, tx)[i] = pool[i]
  BY <1>4, <1>7, AppendProperties, LenProperties
<1>9. /\ TypeInv' /\ IdsInv' /\ SupplyInv'
  <2>1. pool' \in Seq(Txs)
    BY <1>6, <1>7, <1>8
  <2>2. due' \in [Owners -> Int]
    <3>1. fee \in Int /\ Sum(outs) \in Int
      BY <1>4
    <3> QED BY <1>6, <1>7, <3>1
  <2> QED BY <1>6, <2>1, <2>2 DEF IInv, TypeInv, IdsInv, SupplyInv
<1>10. \A o : Seen(o) => Seen(o)'
  BY <1>6 DEF Seen
<1>11. CASE tx \in ToSet(pool)
  <2>1. pool' = pool /\ repeated'
    BY <1>6, <1>11
  <2>2. SeenInv' /\ PoolInv' /\ BooksInv'
    BY <1>6, <1>10, <2>1 DEF IInv, SeenInv, PoolInv, BooksInv
  <2> QED BY <1>9, <2>2 DEF IInv
<1>12. CASE tx \notin ToSet(pool)
  <2>1. pool' = Append(pool, tx) /\ repeated' = repeated
    BY <1>6, <1>12 DEF IInv, TypeInv
  <2>2. \A i \in DOMAIN pool : pool[i].ins \cap tx.ins = {}
    BY <1>6, <1>12 DEF Conflictless, ToSet
  <2>3. \A i \in DOMAIN pool' : \/ i \in DOMAIN pool /\ pool'[i] = pool[i]
                                \/ i = Len(pool) + 1 /\ pool'[i] = tx
    BY <1>7, <1>8, <2>1
  <2>4. SeenInv'
    <3>1. ASSUME NEW i \in DOMAIN pool', NEW k \in DOMAIN pool'[i].outs
          PROVE  Seen(pool'[i].outs[k])
      BY <1>4, <2>3 DEF IInv, SeenInv
    <3> QED BY <1>6, <1>10, <3>1 DEF IInv, SeenInv
  <2>5. PoolInv'
    <3>1. Moves(Owners)[tx] <= 0
      BY <1>4
    <3>2. ASSUME NEW i \in DOMAIN pool'
          PROVE  pool'[i].ins \subseteq utxo /\ Moves(Owners)[pool'[i]] <= 0
      BY <1>4, <2>3, <3>1 DEF IInv, PoolInv
    <3>3. ASSUME NEW i \in DOMAIN pool', NEW j \in DOMAIN pool', i # j
          PROVE  pool'[i].ins \cap pool'[j].ins = {}
      BY <2>2, <2>3, <3>3 DEF IInv, PoolInv
    <3>4. Moves(Owners)' = Moves(Owners)
      BY DEF Moves
    <3> QED BY <1>6, <3>2, <3>3, <3>4 DEF PoolInv
  <2>6. BooksInv'
    <3> SUFFICES ASSUME ~repeated, NEW p \in Owners
                 PROVE  Holding({p}, utxo) + MovedTo({p}, pool') = due'[p]
      BY <1>6, <2>1 DEF BooksInv, Holding, MovedTo
    <3>1. Holding({p}, utxo) + MovedTo({p}, pool) = due[p]
      BY DEF IInv, BooksInv
    <3>2. MovedTo({p}, pool') = MovedTo({p}, pool) + Moves({p})[tx]
      <4>1. Append(pool, tx) = pool \o <<tx>>
        BY <1>4, <1>7, AppendIsConcat
      <4>2. <<tx>> \in Seq(Txs)
        BY <1>4
      <4>3. SeqWeight(Moves({p}), pool \o <<tx>>) =
              SeqWeight(Moves({p}), pool) + SeqWeight(Moves({p}), <<tx>>)
        BY <1>7, <4>2, MovesType, SeqWeightConcat
      <4>4. SeqWeight(Moves({p}), <<tx>>) = Moves({p})[tx]
        <5> DEFINE v == Moves({p})
        <5>1. v \in [Txs -> Int]
          BY MovesType
        <5> HIDE DEF v
        <5>2. SeqWeight(v, <<tx>>) = v[tx]
          BY <1>4, <5>1, SeqWeightOne
        <5> QED BY <5>2 DEF v
      <4> QED BY <2>1, <4>1, <4>3, <4>4 DEF MovedTo
    <3>3. due'[p] = due[p] + Moves({p})[tx]
      <4>1. fee \in Int /\ Sum(outs) \in Int /\ due[p] \in Int
        BY <1>4, <1>7
      <4>2. due'[p] = IF p = payee THEN due[p] + Sum(outs)
                      ELSE IF p = w THEN due[p] - Sum(outs) - fee ELSE due[p]
        BY <1>6, <1>7
      <4>3. Moves({p})[tx] = IF p = w THEN 0 - Sum(outs) - fee
                             ELSE IF p = payee THEN Sum(outs) ELSE 0
        BY <1>4
      <4> QED BY <4>1, <4>2, <4>3
    <3>4. /\ Holding({p}, utxo) \in Int /\ MovedTo({p}, pool) \in Int
          /\ Moves({p})[tx] \in Int
      BY <1>4, <1>7, MovesType, SeqWeightType, HoldingType DEF IInv, TypeInv, MovedTo
    <3> QED BY <3>1, <3>2, <3>3, <3>4
  <2> QED BY <1>9, <2>4, <2>5, <2>6 DEF IInv
<1> QED BY <1>11, <1>12

\* The outputs of a block are its coinbase and the outputs of its transactions.
LEMMA OutputsSeen ==
  ASSUME NEW txs \in Seq(Txs), NEW coinbase \in Outputs, Seen(coinbase),
         \A i \in DOMAIN txs : \A k \in DOMAIN txs[i].outs : Seen(txs[i].outs[k])
  PROVE  \A i \in DOMAIN BlockOutputs(coinbase, txs) : Seen(BlockOutputs(coinbase, txs)[i])
<1> DEFINE E == {o \in Outputs : Seen(o)}
           ss == [i \in DOMAIN txs |-> txs[i].outs]
<1>1. DOMAIN txs = 1 .. Len(txs) /\ Len(txs) \in Nat /\ \A i \in DOMAIN txs : txs[i] \in Txs
  BY LenProperties
<1>2. \A i \in DOMAIN txs : ss[i] \in Seq(E)
  <2> SUFFICES ASSUME NEW i \in DOMAIN txs PROVE txs[i].outs \in Seq(E)
    OBVIOUS
  <2> DEFINE o == txs[i].outs
             n == Len(o)
  <2>1. o \in Seq(Outputs)
    BY <1>1 DEF Txs
  <2>2. n \in Nat /\ o \in [1 .. n -> Outputs] /\ DOMAIN o = 1 .. n
    BY <2>1, LenProperties
  <2>3. \A k \in DOMAIN o : Seen(o[k])
    OBVIOUS
  <2> HIDE DEF o, n
  <2>4. o \in [1 .. n -> E]
    BY <2>2, <2>3
  <2>5. o \in Seq(E)
    BY <2>2, <2>4, SeqDef
  <2> QED BY <2>5 DEF o
<1>3. ss \in Seq(Seq(E))
  <2>1. ss \in [1 .. Len(txs) -> Seq(E)]
    BY <1>1, <1>2
  <2> HIDE DEF ss, E
  <2> QED BY <1>1, <2>1, SeqDef
<1>4. <<coinbase>> \in Seq(E)
  OBVIOUS
<1>5. FlattenSeq(ss) \in Seq(E)
  <2> HIDE DEF ss, E
  <2>1. PICK h : FlattenRun(h, ss, E)
    BY <1>3, FlattenPrefixes
  <2>2. Len(ss) \in Nat
    BY <1>3, LenProperties
  <2> QED BY <2>1, <2>2 DEF FlattenRun
<1> HIDE DEF ss, E
<1>6. <<coinbase>> \o FlattenSeq(ss) \in Seq(E)
  BY <1>4, <1>5, ConcatProperties
<1>7. \A i \in DOMAIN (<<coinbase>> \o FlattenSeq(ss)) : (<<coinbase>> \o FlattenSeq(ss))[i] \in E
  BY <1>6, LenProperties
<1> QED BY <1>7 DEF ss, E, BlockOutputs

\* A block, with the pool's transactions or without.
LEMMA BlockKeepsIInv ==
  ASSUME IInv, NEW w \in Wallets, NEW payout \in AddressesOf(w), NEW include \in BOOLEAN,
         GenerateBlock(payout, include)
  PROVE  IInv'
<1>1. PICK txs : txs = IF include THEN pool ELSE << >>
  OBVIOUS
<1>2. PICK coinbase : coinbase = [value |-> CoinbaseValue(txs), owner |-> payout]
  OBVIOUS
<1>3. PICK outs : outs = BlockOutputs(coinbase, txs)
  OBVIOUS
<1>4. /\ scripts' = scripts /\ repeated' = repeated
      /\ height' = height + 1 /\ created' = created + Len(outs)
      /\ utxo' = (utxo \ UNION {txs[i].ins : i \in DOMAIN txs}) \cup NewCoins(outs)
      /\ pool' = IF include THEN << >> ELSE pool
      /\ due' = [due EXCEPT ![payout.who] = @ + outs[1].value]
  BY <1>1, <1>2, <1>3 DEF GenerateBlock, NewCoins, BlockOutputs
<1>5. UNION {txs[i].ins : i \in DOMAIN txs} = Spent(txs)
  BY DEF Spent, UnionOf
<1>6. /\ pool \in Seq(Txs) /\ txs \in Seq(Txs) /\ Len(txs) \in Nat
      /\ DOMAIN txs = 1 .. Len(txs) /\ DOMAIN txs \subseteq DOMAIN pool
      /\ \A i \in DOMAIN txs : txs[i] = pool[i] /\ txs[i] \in Txs
  <2>1. pool \in Seq(Txs)
    BY DEF IInv, TypeInv
  <2>2. txs \in Seq(Txs)
    BY <1>1, <2>1, EmptySeq
  <2>3. DOMAIN txs = 1 .. Len(txs) /\ Len(txs) \in Nat /\ \A i \in DOMAIN txs : txs[i] \in Txs
    BY <2>2, LenProperties
  <2>4. txs = pool \/ DOMAIN txs = {}
    BY <1>1
  <2> QED BY <2>1, <2>2, <2>3, <2>4
<1>7. /\ \A i \in DOMAIN txs : txs[i].ins \subseteq utxo /\ Moves(Owners)[txs[i]] <= 0
      /\ \A i, j \in DOMAIN txs : i # j => txs[i].ins \cap txs[j].ins = {}
  BY <1>6 DEF IInv, PoolInv
<1>8. payout \in Addresses /\ payout.who = w /\ payout.key \in scripts[w] /\ w \in Owners
  BY DEF AddressesOf, Owners
<1>9. MovedTo(Owners, txs) \in Int /\ 0 - MovedTo(Owners, txs) \in Nat
  <2> DEFINE S == DOMAIN txs
             m == [i \in S |-> Moves(Owners)[txs[i]]]
             n == [i \in S |-> 0 - Moves(Owners)[txs[i]]]
             z == [i \in S |-> 0]
  <2>1. IsFiniteSet(S)
    BY <1>6, FS_Interval
  <2>2. \A i \in S : Moves(Owners)[txs[i]] \in Int
    BY <1>6, MovesType
  <2>3. /\ \A i \in S : m[i] \in Int /\ n[i] \in Nat /\ z[i] = m[i] + n[i]
        /\ \A i \in S : z[i] \in Int /\ z[i] = IF i \in {} THEN z[i] ELSE 0
    BY <1>7, <2>2
  <2>4. MovedTo(Owners, txs) = SumFunctionOnSet(m, S)
    BY Zenon DEF MovedTo, SeqWeight
  <2> HIDE DEF S, m, n, z
  <2>5. SumFunctionOnSet(z, S) = SumFunctionOnSet(m, S) + SumFunctionOnSet(n, S)
    BY <2>1, <2>3, SumPointwise
  <2>6. SumFunctionOnSet(z, S) = SumFunctionOnSet(z, {})
    BY <2>1, <2>3, SumOfPart
  <2>7. SumFunctionOnSet(z, {}) = 0
    BY SumEmpty
  <2>8. SumFunctionOnSet(n, S) \in Nat
    BY <2>1, <2>3, SumNonNegative
  <2>9. SumFunctionOnSet(m, S) \in Int
    BY <2>1, <2>3, SumType
  <2> QED BY <2>4, <2>5, <2>6, <2>7, <2>8, <2>9
<1>10. Reward \in Nat \ {0}
  BY WalletAssumption
<1>11. CoinbaseValue(txs) = Reward - MovedTo(Owners, txs)
  BY <1>6, CoinbaseIs
<1>12. /\ coinbase \in Outputs /\ coinbase.owner = payout
       /\ coinbase.value = Reward - MovedTo(Owners, txs)
  BY <1>2, <1>8, <1>9, <1>10, <1>11 DEF Outputs
<1>13. /\ utxo \in SUBSET Coins /\ IsFiniteSet(utxo) /\ created \in Nat /\ height \in Nat
       /\ due \in [Owners -> Int] /\ \A c \in utxo : c.id <= created
  BY DEF IInv, TypeInv, IdsInv
<1>14. PICK after : after = (utxo \ Spent(txs)) \cup NewCoins(outs)
  OBVIOUS
<1>15. utxo' = after
  BY <1>4, <1>5, <1>14
<1>16. ASSUME NEW Q
       PROVE  /\ outs \in Seq(Outputs) /\ outs[1] = coinbase
              /\ after \in SUBSET Coins /\ IsFiniteSet(after)
              /\ \A c \in after : c.id <= created + Len(outs)
              /\ Holding(Q, after) =
                   Holding(Q, utxo) + MovedTo(Q, txs) + OutputWeight(Q)[coinbase]
  <2>1. AfterBlock(Q, txs, coinbase, outs, after)
    BY <1>3, <1>6, <1>7, <1>12, <1>13, <1>14, BlockWeight
  <2> QED BY <2>1 DEF AfterBlock
<1>17. outs \in Seq(Outputs) /\ outs[1] = coinbase /\ Len(outs) \in Nat
  BY <1>16, LenProperties
<1>18. TypeInv' /\ IdsInv'
  <2>1. pool' \in Seq(Txs)
    BY <1>4, <1>6, EmptySeq
  <2>2. due' \in [Owners -> Int]
    <3>1. outs[1].value \in Int
      BY <1>12, <1>17 DEF Outputs
    <3> QED BY <1>4, <1>8, <1>13, <3>1
  <2>3. created' \in Nat /\ height' \in Nat
    BY <1>4, <1>13, <1>17
  <2>4. utxo' \in SUBSET Coins /\ IsFiniteSet(utxo') /\ \A c \in utxo' : c.id <= created'
    BY <1>4, <1>15, <1>16
  <2> QED BY <1>4, <2>1, <2>2, <2>3, <2>4 DEF IInv, TypeInv, IdsInv
<1>19. \A o : Seen(o) => Seen(o)'
  BY <1>4 DEF Seen
<1>20. SeenInv'
  <2>1. ASSUME NEW c \in utxo' PROVE Seen(c)
    <3>1. CASE c \in utxo
      BY <3>1 DEF IInv, SeenInv
    <3>2. CASE c \in NewCoins(outs)
      <4>1. PICK i \in DOMAIN outs : c.owner = outs[i].owner
        BY <3>2 DEF NewCoins
      <4>2. Seen(outs[i])
        <5>1. Seen(coinbase)
          BY <1>8, <1>12 DEF Seen
        <5>2. \A j \in DOMAIN txs : \A k \in DOMAIN txs[j].outs : Seen(txs[j].outs[k])
          BY <1>6 DEF IInv, SeenInv
        <5> QED BY <1>3, <1>6, <1>12, <4>1, <5>1, <5>2, OutputsSeen
      <4> QED BY <4>1, <4>2 DEF Seen
    <3> QED BY <1>14, <1>15, <3>1, <3>2
  <2>2. ASSUME NEW i \in DOMAIN pool', NEW k \in DOMAIN pool'[i].outs
        PROVE  Seen(pool'[i].outs[k])
    <3>1. pool' = pool
      BY <1>4
    <3> QED BY <3>1 DEF IInv, SeenInv
  <2> QED BY <1>19, <2>1, <2>2 DEF SeenInv
<1>21. PoolInv'
  <2>1. CASE include
    <3>1. DOMAIN pool' = {}
      BY <1>4, <2>1
    <3> QED BY <3>1 DEF PoolInv
  <2>2. CASE ~include
    <3>1. pool' = pool /\ Spent(txs) = {}
      BY <1>1, <1>4, <1>5, <2>2
    <3>2. utxo \subseteq utxo'
      BY <1>14, <1>15, <3>1
    <3>3. Moves(Owners)' = Moves(Owners)
      BY DEF Moves
    <3> QED BY <3>1, <3>2, <3>3 DEF IInv, PoolInv
  <2> QED BY <2>1, <2>2
<1>22. SupplyInv'
  <2>1. OutputWeight(Owners)[coinbase] = Reward - MovedTo(Owners, txs)
    BY <1>8, <1>12 DEF OutputWeight
  <2>2. Holding(Owners, utxo') = Holding(Owners, utxo) + MovedTo(Owners, txs)
                                 + OutputWeight(Owners)[coinbase]
    BY <1>15, <1>16
  <2>3. Holding(Owners, utxo) = Reward * height
    BY DEF IInv, SupplyInv
  <2>4. Reward * (height + 1) = Reward * height + Reward /\ Reward * height \in Int
    BY <1>10, <1>13
  <2>5. Holding(Owners, utxo') = Reward * height'
    BY <1>4, <1>9, <1>10, <2>1, <2>2, <2>3, <2>4
  <2> QED BY <2>5 DEF SupplyInv, Holding
<1>23. BooksInv'
  <2> SUFFICES ASSUME ~repeated, NEW p \in Owners
               PROVE  Holding({p}, utxo') + MovedTo({p}, pool') = due'[p]
    BY <1>4 DEF BooksInv, Holding, MovedTo
  <2>1. Holding({p}, utxo) + MovedTo({p}, pool) = due[p]
    BY DEF IInv, BooksInv
  <2>2. Holding({p}, utxo') = Holding({p}, utxo) + MovedTo({p}, txs)
                              + OutputWeight({p})[coinbase]
    BY <1>15, <1>16
  <2>3. due'[p] = due[p] + OutputWeight({p})[coinbase]
    <3>1. OutputWeight({p})[coinbase] = IF p = w THEN coinbase.value ELSE 0
      BY <1>8, <1>12 DEF OutputWeight
    <3>2. due'[p] = IF p = w THEN due[p] + coinbase.value ELSE due[p]
      BY <1>4, <1>8, <1>13, <1>17
    <3>3. due[p] \in Int
      BY <1>13
    <3> QED BY <3>1, <3>2, <3>3
  <2>4. MovedTo({p}, txs) + MovedTo({p}, pool') = MovedTo({p}, pool)
    <3>1. MovedTo({p}, << >>) = 0
      BY SeqWeightEmpty DEF MovedTo
    <3>2. MovedTo({p}, pool) \in Int
      BY <1>6, MovesType, SeqWeightType DEF MovedTo
    <3> QED BY <1>1, <1>4, <3>1, <3>2
  <2>5. /\ Holding({p}, utxo) \in Int /\ MovedTo({p}, pool) \in Int
        /\ MovedTo({p}, txs) \in Int /\ MovedTo({p}, pool') \in Int
        /\ OutputWeight({p})[coinbase] \in Int
    <3>1. pool' \in Seq(Txs)
      BY <1>4, <1>6, EmptySeq
    <3> QED BY <1>6, <1>12, <1>13, <3>1, MovesType, SeqWeightType, HoldingType,
               CoinWeightType DEF MovedTo
  <2> QED BY <2>1, <2>2, <2>3, <2>4, <2>5
<1> QED BY <1>18, <1>20, <1>21, <1>22, <1>23 DEF IInv

LEMMA NextKeepsIInv ==
  ASSUME IInv, Next
  PROVE  IInv'
<1>1. PICK w \in Wallets :
        \/ \E k \in Keys : NewReceiveAddress(w, k)
        \/ \E v \in Wallets \ {w} : \E to \in AddressesOf(v), amount \in Amounts :
               PayP2pkh(w, to, amount)
        \/ FundChannel(w)
        \/ \E payout \in AddressesOf(w), include \in BOOLEAN :
               GenerateBlock(payout, include)
  BY DEF Next
<1>2. CASE \E k \in Keys : NewReceiveAddress(w, k)
  BY <1>2, AddressKeepsIInv
<1>3. CASE \E v \in Wallets \ {w} : \E to \in AddressesOf(v), amount \in Amounts :
               PayP2pkh(w, to, amount)
  <2>1. PICK v \in Wallets \ {w} : \E to \in AddressesOf(v), amount \in Amounts :
               PayP2pkh(w, to, amount)
    BY <1>3
  <2>2. PICK to \in AddressesOf(v), amount \in Amounts : PayP2pkh(w, to, amount)
    BY <2>1
  <2>3. PICK outs : outs = << [value |-> amount, owner |-> to] >>
    OBVIOUS
  <2>4. to \in Addresses /\ to.who = v /\ to.key \in scripts[v] /\ amount \in Nat \ {0}
    BY WalletAssumption DEF AddressesOf
  <2>5. /\ outs \in Seq(Outputs)
        /\ \A i \in DOMAIN outs : outs[i].owner.who = v /\ Seen(outs[i])
    <3>1. [value |-> amount, owner |-> to] \in Outputs
      BY <2>4 DEF Outputs
    <3>2. outs \in Seq(Outputs) /\ DOMAIN outs = {1}
      BY <2>3, <3>1
    <3>3. outs[1].owner = to
      BY <2>3
    <3> QED BY <2>4, <3>2, <3>3 DEF Seen
  <2>6. Send(w, v, outs)
    BY <2>2, <2>3, <2>4 DEF PayP2pkh
  <2> QED BY <2>5, <2>6, SendKeepsIInv DEF Owners
<1>4. CASE FundChannel(w)
  <2>1. PICK address : address = [who |-> ChannelOwner, key |-> CHOOSE k \in Keys : TRUE]
    OBVIOUS
  <2>2. PICK outs : outs = [i \in DOMAIN ChannelOutputs |->
                              [value |-> ChannelOutputs[i], owner |-> address]]
    OBVIOUS
  <2>3. Send(w, ChannelOwner, outs)
    BY <1>4, <2>1, <2>2 DEF FundChannel
  <2>4. Keys # {}
    <3>1. PICK change \in AddressesOf(w) : TRUE
      BY <2>3 DEF Send
    <3> QED BY <3>1 DEF AddressesOf, Addresses
  <2>5. address \in Addresses /\ address.who = ChannelOwner
    <3>1. (CHOOSE k \in Keys : TRUE) \in Keys
      BY <2>4
    <3> QED BY <2>1, <3>1 DEF Addresses, Owners
  <2>6. /\ outs \in Seq(Outputs) /\ DOMAIN outs = DOMAIN ChannelOutputs
        /\ \A i \in DOMAIN outs : outs[i].owner = address
    <3>1. /\ ChannelOutputs \in Seq(Nat \ {0})
          /\ Len(ChannelOutputs) \in Nat /\ DOMAIN ChannelOutputs = 1 .. Len(ChannelOutputs)
          /\ \A i \in DOMAIN ChannelOutputs : ChannelOutputs[i] \in Nat \ {0}
      BY WalletAssumption, LenProperties
    <3>2. outs \in [1 .. Len(ChannelOutputs) -> Outputs]
      BY <2>2, <2>5, <3>1 DEF Outputs
    <3> QED BY <2>2, <3>1, <3>2, SeqDef
  <2>7. \A i \in DOMAIN outs : outs[i].owner.who = ChannelOwner /\ Seen(outs[i])
    BY <2>5, <2>6, WalletAssumption DEF Seen
  <2> QED BY <2>3, <2>6, <2>7, WalletAssumption, SendKeepsIInv DEF Owners
<1>5. CASE \E payout \in AddressesOf(w), include \in BOOLEAN : GenerateBlock(payout, include)
  BY <1>5, BlockKeepsIInv
<1> QED BY <1>1, <1>2, <1>3, <1>4, <1>5

LEMMA StutterKeepsIInv ==
  ASSUME IInv, UNCHANGED vars
  PROVE  IInv'
<1>1. /\ scripts' = scripts /\ utxo' = utxo /\ height' = height /\ created' = created
      /\ pool' = pool /\ due' = due /\ repeated' = repeated
  BY DEF vars, chain
<1> QED BY <1>1 DEF IInv, TypeInv, SeenInv, Seen, PoolInv, IdsInv, SupplyInv, BooksInv,
                     Holding, MovedTo

LEMMA Invariance == Spec => []IInv
<1>1. Init => IInv
  BY InitHolds
<1>2. IInv /\ [Next]_vars => IInv'
  BY NextKeepsIInv, StutterKeepsIInv
<1> QED BY <1>1, <1>2, PTL DEF Spec

\* Whatever the wallets pay each other and fund, and whichever blocks take the
\* pool, the coins add up to the rewards of the blocks generated, and no coin is
\* empty: build_and_sign_payment and generate_block neither lose nor make money.
THEOREM SupplyIsConserved == Spec => []SupplyConserved
BY Invariance, SupplyFollows, PTL

\* As long as no SendResult was "already in mempool", every owner's confirmed
\* balance, corrected by what the pool will do to it, is what the SendResults
\* say: no payment is lost, paid twice or paid out of other coins, and the change
\* comes back to an address that WalletUtxoView.refresh sees.
THEOREM BooksAlwaysMatch == Spec => []BooksMatch
BY Invariance, BooksFollow, PTL
=============================================================================
