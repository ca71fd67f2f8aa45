------------------------------- MODULE NodeProofs -------------------------------
(***************************************************************************)
(* Proofs about the embedded node (Node) and the pool inside it (Mempool), *)
(* for every set of transactions, every number of blocks and every history *)
(* of forks.                                                               *)
(*                                                                         *)
(*   1. The pool: its index is exact, and a replacement raises nSequence.  *)
(*   2. Folds and recursion.  ConnectUtxos and Reorg are folds over        *)
(*      sequences, PathTo and Replay recursions along the header tree.     *)
(*      What they compute is obtained by induction in its set form: a set  *)
(*      of naturals that holds 0 and is closed under the step is all of    *)
(*      them.  So a fold is the last element of a run of its steps.        *)
(*   3. Blocks: connecting and disconnecting one keeps the tables Synced   *)
(*      with the header tree, and so does a whole reorganisation.          *)
(*   4. The node: types, the pool's specification, the best tip.           *)
(*   5. One call at a time: undo data and UTXO set follow the active chain.*)
(*   6. Own blocks: the pool stays minable and nothing is spent twice.     *)
(***************************************************************************)
EXTENDS Node, Watchtower, Monitor, FoldProofs

\* The inductive invariant: the index can only be kept exact when it is read
\* with the types of the pool.
PoolInv == PoolTypeOK /\ IndexExact

\* Conflict detection only returns transactions: spent_by holds no other owner.
LEMMA ConflictsAreTxs ==
  ASSUME PoolTypeOK, NEW tx \in Txs
  PROVE  Conflicts(tx) \subseteq Txs
  BY TxAssumption DEF PoolTypeOK, Conflicts

\* _evict_internal clears exactly the rows of the evicted entries.
LEMMA IndexWithoutExact ==
  ASSUME PoolInv, NEW T \in SUBSET Txs, NEW o \in Outpoints, NEW tx \in Txs
  PROVE  /\ IndexWithout(T)[o] \in Txs \cup {NoTx}
         /\ IndexWithout(T)[o] = tx <=>
              tx \in entries \ T /\ o \in Spends[tx]
  BY TxAssumption DEF PoolInv, PoolTypeOK, IndexExact, IndexWithout

\* admit() on success keeps the index exact: the new entry takes over its
\* outpoints, whose only other owners were the evicted conflicts.
LEMMA AdmitKeepsIndex ==
  ASSUME PoolInv, NEW tx \in Txs, Admit(tx)
  PROVE  PoolInv'
<1>1. Conflicts(tx) \in SUBSET Txs
  BY ConflictsAreTxs DEF PoolInv
<1>2. PoolTypeOK'
  BY <1>1, IndexWithoutExact, TxAssumption DEF PoolInv, PoolTypeOK, Admit
<1>3. ASSUME NEW o \in Outpoints, NEW u \in Txs
      PROVE  spentBy'[o] = u <=> u \in entries' /\ o \in Spends[u]
  <2>1. CASE o \in Spends[tx]
    <3>1. spentBy'[o] = tx
      BY <2>1 DEF Admit
    <3>2. ASSUME u # tx, u \in entries', o \in Spends[u]
          PROVE  FALSE
      <4>1. u \in entries /\ u \notin Conflicts(tx)
        BY <3>2 DEF Admit
      <4>2. spentBy[o] = u
        BY <3>2, <4>1 DEF PoolInv, IndexExact
      <4>3. u \in Conflicts(tx)
        BY <2>1, <3>2, <4>2, TxAssumption DEF Conflicts
      <4> QED BY <4>1, <4>3
    <3> QED BY <2>1, <3>1, <3>2 DEF Admit
  <2>2. CASE o \notin Spends[tx]
    <3>1. spentBy'[o] = IndexWithout(Conflicts(tx))[o]
      BY <2>2 DEF Admit
    <3>2. u \in entries' /\ o \in Spends[u] <=>
            u \in entries \ Conflicts(tx) /\ o \in Spends[u]
      BY <2>2 DEF Admit
    <3> QED BY <1>1, <3>1, <3>2, IndexWithoutExact
  <2> QED BY <2>1, <2>2
<1> QED BY <1>2, <1>3 DEF PoolInv, IndexExact

\* evict() keeps the index exact whatever set it is given, transactions the
\* pool does not hold included.
LEMMA EvictKeepsExact ==
  ASSUME PoolInv, NEW T \in SUBSET Txs, Evict(T), utxo' \in SUBSET Outpoints
  PROVE  PoolInv'
<1>1. T \cap entries \in SUBSET Txs
  OBVIOUS
<1>2. PoolTypeOK'
  BY <1>1, IndexWithoutExact, TxAssumption
     DEF PoolInv, PoolTypeOK, Evict, IndexWithout
<1>3. ASSUME NEW o \in Outpoints, NEW u \in Txs
      PROVE  spentBy'[o] = u <=> u \in entries' /\ o \in Spends[u]
  BY <1>1, IndexWithoutExact DEF Evict
<1> QED BY <1>2, <1>3 DEF PoolInv, IndexExact

\* Every step of the pool's specification keeps the index exact.
LEMMA PoolStep ==
  ASSUME PoolInv, [PoolNext]_<<utxo, pool>>
  PROVE  PoolInv'
<1>1. CASE \E tx \in Txs : Admit(tx)
  BY <1>1, AdmitKeepsIndex
<1>2. CASE StoreChanges
  BY <1>2, EvictKeepsExact DEF StoreChanges
<1>3. CASE UNCHANGED <<utxo, pool>>
  BY <1>3 DEF PoolInv, PoolTypeOK, IndexExact, pool
<1> QED BY <1>1, <1>2, <1>3 DEF PoolNext

LEMMA PoolInvariant == PoolSpec => []PoolInv
<1>1. PoolInit => PoolInv
  BY TxAssumption DEF PoolInit, PoolInv, PoolTypeOK, IndexExact
<1> QED BY <1>1, PoolStep, PTL DEF PoolSpec

\* The pool's variables keep their types (Mempool.entries, spent_by).
THEOREM PoolTypeCorrect == PoolSpec => []PoolTypeOK
<1>1. PoolInv => PoolTypeOK
  BY DEF PoolInv
<1> QED BY <1>1, PoolInvariant, PTL

\* The index spent_by names the owner of every spent outpoint, and no other
\* transaction: admit() and evict() never leave a stale or a missing row.
THEOREM IndexStaysExact == PoolSpec => []IndexExact
<1>1. PoolInv => IndexExact
  BY DEF PoolInv
<1> QED BY <1>1, PoolInvariant, PTL

\* admit() never leaves two conflicting transactions in the pool, for any
\* number of transactions that compete for any outpoints.
THEOREM PoolNeverConflicts == PoolSpec => []NoPoolConflict
<1>1. PoolInv => NoPoolConflict
  <2> SUFFICES ASSUME PoolInv, NEW a \in entries, NEW b \in entries, a # b,
                      NEW o \in Spends[a] \cap Spends[b]
               PROVE  FALSE
    BY DEF NoPoolConflict
  <2>1. a \in Txs /\ b \in Txs /\ o \in Outpoints
    BY TxAssumption DEF PoolInv, PoolTypeOK
  <2>2. spentBy[o] = a /\ spentBy[o] = b
    BY <2>1 DEF PoolInv, IndexExact
  <2> QED BY <2>2
<1> QED BY <1>1, PoolInvariant, PTL

\* Replace-by-sequence: whenever an outpoint passes from one pool transaction
\* to another, the new one's nSequence for it is strictly higher.
THEOREM ReplacementIsMonotone == PoolSpec => ReplacementRaisesSequence
<1> DEFINE Raises == \A o \in Outpoints :
        LET old == spentBy[o]  new == spentBy'[o] IN
        (old # NoTx /\ new # NoTx /\ old # new)
            => InputSeq[new][o] > InputSeq[old][o]
<1>1. ASSUME PoolInv, [PoolNext]_<<utxo, pool>>
      PROVE  [Raises]_<<utxo, pool>>
  <2>1. ASSUME NEW tx \in Txs, Admit(tx), NEW o \in Outpoints,
               spentBy[o] # NoTx, spentBy'[o] # NoTx, spentBy[o] # spentBy'[o]
        PROVE  InputSeq[spentBy'[o]][o] > InputSeq[spentBy[o]][o]
    <3>1. Conflicts(tx) \in SUBSET Txs
      BY <1>1, ConflictsAreTxs DEF PoolInv
    <3>2. o \in Spends[tx] /\ spentBy'[o] = tx
      BY <2>1 DEF Admit, IndexWithout
    <3>3. spentBy[o] \in Conflicts(tx)
      BY <2>1, <3>2 DEF Conflicts
    <3>4. Outbids(tx, spentBy[o])
      BY <2>1, <3>3 DEF Admit, Admissible, ReplacementOK
    <3>5. o \in Spends[spentBy[o]]
      BY <1>1, <3>1, <3>3 DEF PoolInv, IndexExact
    <3> QED BY <3>2, <3>4, <3>5 DEF Outbids
  <2>2. ASSUME StoreChanges, NEW o \in Outpoints,
               spentBy[o] # NoTx, spentBy'[o] # NoTx
        PROVE  spentBy[o] = spentBy'[o]
    BY <2>2 DEF StoreChanges, Evict, IndexWithout
  <2>3. CASE \E tx \in Txs : Admit(tx)
    BY <2>1, <2>3
  <2>4. CASE StoreChanges
    BY <2>2, <2>4
  <2> QED BY <1>1, <2>3, <2>4 DEF PoolNext
<1> QED BY <1>1, PoolInvariant, PTL DEF PoolSpec, ReplacementRaisesSequence

-----------------------------------------------------------------------------
(***************************************************************************)
(* connect_block_utxos and reorg as runs of their steps.                   *)
(***************************************************************************)

\* The UTXO set after each transaction of a block.
UtxoRun(h, u, b, txs) ==
    /\ h \in [0 .. Len(txs) -> SUBSET Outpoints]
    /\ h[0] = u \cup {b}
    /\ \A i \in 1 .. Len(txs) : h[i] = (h[i - 1] \ Spends[txs[i]]) \cup Creates[txs[i]]
    /\ ConnectUtxos(u, b, txs) = h[Len(txs)]

\* connect_block_utxos applies the transactions one after the other.
LEMMA ConnectUtxosFold ==
  ASSUME NEW u \in SUBSET Outpoints, NEW b \in Outpoints, NEW txs \in Seq(Txs)
  PROVE  \E h : UtxoRun(h, u, b, txs)
<1> DEFINE n == Len(txs)
           V == SUBSET Outpoints
           Op(v, tx) == (v \ Spends[tx]) \cup Creates[tx]
           F == [p \in V \X Txs |-> Op(p[1], p[2])]
           base == u \cup {b}
           Body(it, s) == IF s = {} THEN base ELSE Op(it[s \ {Max(s)}], txs[Max(s)])
           iter == CHOOSE it : it = [s \in SUBSET (1 .. n) |-> Body(it, s)]
<1>1. n \in Nat /\ txs \in [1 .. n -> Txs] /\ DOMAIN txs = 1 .. n
  BY LenProperties
<1>2. base \in V /\ \A v \in V, x \in Txs : Op(v, x) \in V
  BY TxAssumption
<1>3. F \in [V \X Txs -> V]
  BY <1>2
<1>4. ConnectUtxos(u, b, txs) = iter[1 .. n]
  <2> HIDE DEF n
  <2> QED BY <1>1 DEF ConnectUtxos, FoldLeft, MapThenFoldSet, AddUtxos, SpendUtxos, Coinbase
<1> HIDE DEF V, Op, base, n
<1>5. PICK g \in [SUBSET (1 .. n) -> V] : IsIter(g, F, base, txs, n)
  <2> HIDE DEF F
  <2> QED BY <1>1, <1>2, <1>3, IterExists
<1>6. ASSUME NEW s \in SUBSET (1 .. n), s # {}
      PROVE  txs[Max(s)] \in Txs
  BY <1>1, <1>6, MaxInside
<1>7. ASSUME NEW s \in SUBSET (1 .. n) PROVE g[s] = Body(g, s)
  <2>1. CASE s = {}
    BY <1>5, <2>1 DEF IsIter
  <2>2. CASE s # {}
    <3>1. txs[Max(s)] \in Txs /\ g[s \ {Max(s)}] \in V
      BY <1>6, <2>2
    <3>2. g[s] = F[<<g[s \ {Max(s)}], txs[Max(s)]>>]
      BY <1>5, <2>2 DEF IsIter
    <3> QED BY <2>2, <3>1, <3>2
  <2> QED BY <2>1, <2>2
<1>8. g = [s \in SUBSET (1 .. n) |-> Body(g, s)]
  BY <1>7
<1>9. iter = [s \in SUBSET (1 .. n) |-> Body(iter, s)]
  BY <1>8
<1> HIDE DEF iter
<1>10. ASSUME NEW s \in SUBSET (1 .. n) PROVE iter[s] = Body(iter, s)
  BY <1>9, Zenon
<1>11. iter[{}] = base
  BY <1>10
<1>12. ASSUME NEW s \in SUBSET (1 .. n), s # {}, iter[s \ {Max(s)}] \in V
       PROVE  iter[s] = F[<<iter[s \ {Max(s)}], txs[Max(s)]>>]
  <2>1. iter[s] = Op(iter[s \ {Max(s)}], txs[Max(s)])
    BY <1>10, <1>12
  <2>2. txs[Max(s)] \in Txs
    BY <1>6, <1>12
  <2> QED BY <1>12, <2>1, <2>2
<1>13. PICK h : Prefixed(h, iter, V, F, base, txs, n)
  <2>1. FoldsIn(iter, V, F, base, txs, n)
    BY <1>11, <1>12 DEF FoldsIn
  <2> HIDE DEF F
  <2> QED BY <1>1, <1>2, <1>3, <2>1, FoldPrefixes
<1>14. \A i \in 1 .. n : h[i - 1] \in V /\ txs[i] \in Txs
  BY <1>1, <1>13 DEF Prefixed
<1>15. \A i \in 1 .. n : h[i] = Op(h[i - 1], txs[i])
  BY <1>13, <1>14 DEF Prefixed
<1> QED BY <1>4, <1>13, <1>15 DEF Prefixed, UtxoRun, V, Op, base, n

\* The tables a reorganisation works on.
UndoRows == [connected : BOOLEAN, spent : SUBSET Outpoints, created : SUBSET Outpoints]
Tables == [utxo : SUBSET Outpoints, undo : [1 .. MaxBlocks -> UndoRows]]
Numbers == 1 .. MaxBlocks

\* connect_block_utxos leaves a set of outpoints.
LEMMA ConnectUtxosType ==
  ASSUME NEW u \in SUBSET Outpoints, NEW b \in Outpoints, NEW txs \in Seq(Txs)
  PROVE  ConnectUtxos(u, b, txs) \in SUBSET Outpoints
<1>1. Len(txs) \in 0 .. Len(txs)
  BY LenProperties
<1>2. PICK h : UtxoRun(h, u, b, txs)
  BY ConnectUtxosFold
<1> QED BY <1>1, <1>2 DEF UtxoRun

\* The outpoints a block spends and creates.
LEMMA InputsOutputs ==
  ASSUME NEW txs \in Seq(Txs)
  PROVE  Inputs(txs) \subseteq Outpoints /\ Outputs(txs) \subseteq Outpoints
<1>1. \A i \in DOMAIN txs : txs[i] \in Txs
  BY ElementOfSeq, LenProperties
<1> QED BY <1>1, TxAssumption DEF Inputs, Outputs

\* Connecting or disconnecting a block leaves tables.
LEMMA BlockStepsType ==
  ASSUME NEW st \in Tables, NEW b \in Numbers
  PROVE  /\ DisconnectBlock(st, b) \in Tables
         /\ \A txs \in Seq(Txs) : ConnectBlock(st, b, txs) \in Tables
<1>1. st.utxo \in SUBSET Outpoints /\ st.undo \in [Numbers -> UndoRows] /\ st.undo[b] \in UndoRows
  BY DEF Tables, Numbers
<1>2. b \in Outpoints
  BY NodeAssumption DEF Numbers
<1>3. DisconnectBlock(st, b) \in Tables
  <2>1. NoUndo \in UndoRows
    BY DEF NoUndo, UndoRows
  <2>2. AddUtxos(SpendUtxos(st.utxo, st.undo[b].created), st.undo[b].spent) \in SUBSET Outpoints
    BY <1>1 DEF AddUtxos, SpendUtxos, UndoRows
  <2> QED BY <1>1, <2>1, <2>2 DEF DisconnectBlock, Tables, Numbers
<1>4. ASSUME NEW txs \in Seq(Txs) PROVE ConnectBlock(st, b, txs) \in Tables
  <2> DEFINE row == [connected |-> TRUE, spent |-> Inputs(txs) \cap st.utxo,
                     created |-> Outputs(txs) \cup {Coinbase(b)}]
  <2>1. row \in UndoRows
    BY <1>1, <1>2, InputsOutputs DEF UndoRows, Coinbase
  <2>2. ConnectUtxos(st.utxo, b, txs) \in SUBSET Outpoints
    BY <1>1, <1>2, ConnectUtxosType
  <2>3. ConnectBlock(st, b, txs) = [utxo |-> ConnectUtxos(st.utxo, b, txs),
                                    undo |-> [st.undo EXCEPT ![b] = row]]
    BY DEF ConnectBlock
  <2> HIDE DEF row
  <2> QED BY <1>1, <2>1, <2>2, <2>3 DEF Tables, Numbers
<1> QED BY <1>3, <1>4

\* The tables after each disconnection, and after each connection.
DisconnectRun(h, st, q) ==
    /\ h \in [0 .. Len(q) -> Tables]
    /\ h[0] = st
    /\ \A i \in 1 .. Len(q) : h[i] = DisconnectBlock(h[i - 1], q[i])
    /\ DisconnectAll(st, q) = h[Len(q)]
ConnectRun(h, st, q, bodies) ==
    /\ h \in [0 .. Len(q) -> Tables]
    /\ h[0] = st
    /\ \A i \in 1 .. Len(q) : h[i] = ConnectBlock(h[i - 1], q[i], bodies[q[i]])
    /\ ConnectAll(st, q, bodies) = h[Len(q)]

\* The disconnections of a reorganisation, one after the other.
LEMMA DisconnectFold ==
  ASSUME NEW st \in Tables, NEW q \in Seq(Numbers)
  PROVE  \E h : DisconnectRun(h, st, q)
<1> DEFINE n == Len(q)
           V == Tables
           Op(v, x) == DisconnectBlock(v, x)
           F == [p \in V \X Numbers |-> Op(p[1], p[2])]
           base == st
           Body(it, s) == IF s = {} THEN base ELSE Op(it[s \ {Max(s)}], q[Max(s)])
           iter == CHOOSE it : it = [s \in SUBSET (1 .. n) |-> Body(it, s)]
<1>1. n \in Nat /\ q \in [1 .. n -> Numbers] /\ DOMAIN q = 1 .. n
  BY LenProperties
<1>2. base \in V /\ \A v \in V, x \in Numbers : Op(v, x) \in V
  BY BlockStepsType
<1>3. F \in [V \X Numbers -> V]
  BY <1>2
<1>4. DisconnectAll(st, q) = iter[1 .. n]
  <2> HIDE DEF n
  <2> QED BY <1>1 DEF DisconnectAll, FoldLeft, MapThenFoldSet
<1> HIDE DEF V, Op, base, n
<1>5. PICK g \in [SUBSET (1 .. n) -> V] : IsIter(g, F, base, q, n)
  <2> HIDE DEF F
  <2> QED BY <1>1, <1>2, <1>3, IterExists
<1>6. ASSUME NEW s \in SUBSET (1 .. n), s # {}
      PROVE  q[Max(s)] \in Numbers
  BY <1>1, <1>6, MaxInside
<1>7. ASSUME NEW s \in SUBSET (1 .. n) PROVE g[s] = Body(g, s)
  <2>1. CASE s = {}
    BY <1>5, <2>1 DEF IsIter
  <2>2. CASE s # {}
    <3>1. q[Max(s)] \in Numbers /\ g[s \ {Max(s)}] \in V
      BY <1>6, <2>2
    <3>2. g[s] = F[<<g[s \ {Max(s)}], q[Max(s)]>>]
      BY <1>5, <2>2 DEF IsIter
    <3> QED BY <2>2, <3>1, <3>2
  <2> QED BY <2>1, <2>2
<1>8. g = [s \in SUBSET (1 .. n) |-> Body(g, s)]
  BY <1>7
<1>9. iter = [s \in SUBSET (1 .. n) |-> Body(iter, s)]
  BY <1>8
<1> HIDE DEF iter
<1>10. ASSUME NEW s \in SUBSET (1 .. n) PROVE iter[s] = Body(iter, s)
  BY <1>9, Zenon
<1>11. iter[{}] = base
  BY <1>10
<1>12. ASSUME NEW s \in SUBSET (1 .. n), s # {}, iter[s \ {Max(s)}] \in V
       PROVE  iter[s] = F[<<iter[s \ {Max(s)}], q[Max(s)]>>]
  <2>1. iter[s] = Op(iter[s \ {Max(s)}], q[Max(s)])
    BY <1>10, <1>12
  <2>2. q[Max(s)] \in Numbers
    BY <1>6, <1>12
  <2> QED BY <1>12, <2>1, <2>2
<1>13. PICK h : Prefixed(h, iter, V, F, base, q, n)
  <2>1. FoldsIn(iter, V, F, base, q, n)
    BY <1>11, <1>12 DEF FoldsIn
  <2> HIDE DEF F
  <2> QED BY <1>1, <1>2, <1>3, <2>1, FoldPrefixes
<1>14. \A i \in 1 .. n : h[i - 1] \in V /\ q[i] \in Numbers
  BY <1>1, <1>13 DEF Prefixed
<1>15. \A i \in 1 .. n : h[i] = Op(h[i - 1], q[i])
  BY <1>13, <1>14 DEF Prefixed
<1> QED BY <1>4, <1>13, <1>15 DEF Prefixed, DisconnectRun, V, Op, base, n

\* The connections of a reorganisation, one after the other.
LEMMA ConnectFold ==
  ASSUME NEW st \in Tables, NEW q \in Seq(Numbers), NEW bodies \in [Numbers -> Seq(Txs)]
  PROVE  \E h : ConnectRun(h, st, q, bodies)
<1> DEFINE n == Len(q)
           V == Tables
           Op(v, x) == ConnectBlock(v, x, bodies[x])
           F == [p \in V \X Numbers |-> Op(p[1], p[2])]
           base == st
           Body(it, s) == IF s = {} THEN base ELSE Op(it[s \ {Max(s)}], q[Max(s)])
           iter == CHOOSE it : it = [s \in SUBSET (1 .. n) |-> Body(it, s)]
<1>1. n \in Nat /\ q \in [1 .. n -> Numbers] /\ DOMAIN q = 1 .. n
  BY LenProperties
<1>2. base \in V /\ \A v \in V, x \in Numbers : Op(v, x) \in V
  BY BlockStepsType
<1>3. F \in [V \X Numbers -> V]
  BY <1>2
<1>4. ConnectAll(st, q, bodies) = iter[1 .. n]
  <2> HIDE DEF n
  <2> QED BY <1>1 DEF ConnectAll, FoldLeft, MapThenFoldSet
<1> HIDE DEF V, Op, base, n
<1>5. PICK g \in [SUBSET (1 .. n) -> V] : IsIter(g, F, base, q, n)
  <2> HIDE DEF F
  <2> QED BY <1>1, <1>2, <1>3, IterExists
<1>6. ASSUME NEW s \in SUBSET (1 .. n), s # {}
      PROVE  q[Max(s)] \in Numbers
  BY <1>1, <1>6, MaxInside
<1>7. ASSUME NEW s \in SUBSET (1 .. n) PROVE g[s] = Body(g, s)
  <2>1. CASE s = {}
    BY <1>5, <2>1 DEF IsIter
  <2>2. CASE s # {}
    <3>1. q[Max(s)] \in Numbers /\ g[s \ {Max(s)}] \in V
      BY <1>6, <2>2
    <3>2. g[s] = F[<<g[s \ {Max(s)}], q[Max(s)]>>]
      BY <1>5, <2>2 DEF IsIter
    <3> QED BY <2>2, <3>1, <3>2
  <2> QED BY <2>1, <2>2
<1>8. g = [s \in SUBSET (1 .. n) |-> Body(g, s)]
  BY <1>7
<1>9. iter = [s \in SUBSET (1 .. n) |-> Body(iter, s)]
  BY <1>8
<1> HIDE DEF iter
<1>10. ASSUME NEW s \in SUBSET (1 .. n) PROVE iter[s] = Body(iter, s)
  BY <1>9, Zenon
<1>11. iter[{}] = base
  BY <1>10
<1>12. ASSUME NEW s \in SUBSET (1 .. n), s # {}, iter[s \ {Max(s)}] \in V
       PROVE  iter[s] = F[<<iter[s \ {Max(s)}], q[Max(s)]>>]
  <2>1. iter[s] = Op(iter[s \ {Max(s)}], q[Max(s)])
    BY <1>10, <1>12
  <2>2. q[Max(s)] \in Numbers
    BY <1>6, <1>12
  <2> QED BY <1>12, <2>1, <2>2
<1>13. PICK h : Prefixed(h, iter, V, F, base, q, n)
  <2>1. FoldsIn(iter, V, F, base, q, n)
    BY <1>11, <1>12 DEF FoldsIn
  <2> HIDE DEF F
  <2> QED BY <1>1, <1>2, <1>3, <2>1, FoldPrefixes
<1>14. \A i \in 1 .. n : h[i - 1] \in V /\ q[i] \in Numbers
  BY <1>1, <1>13 DEF Prefixed
<1>15. \A i \in 1 .. n : h[i] = Op(h[i - 1], q[i])
  BY <1>13, <1>14 DEF Prefixed
<1> QED BY <1>4, <1>13, <1>15 DEF Prefixed, ConnectRun, V, Op, base, n

-----------------------------------------------------------------------------
(***************************************************************************)
(* The header tree: a parent is older than its block, so that paths and    *)
(* replays are well defined by recursion towards block 0.                  *)
(***************************************************************************)
Tree(p) == p \in [Numbers -> Blocks] /\ \A x \in Numbers : p[x] < x

\* Block numbers.
LEMMA BlocksFacts ==
  /\ 0 \in Blocks /\ Blocks \subseteq Nat /\ Numbers \subseteq Blocks
  /\ \A x \in Blocks : x # 0 => x \in Numbers
  /\ \A x \in Numbers : x # 0
  /\ Numbers \subseteq Outpoints
  BY NodeAssumption DEF Blocks, Numbers

\* Induction along parents.
LEMMA TreeInduction ==
  ASSUME NEW p, Tree(p), NEW T, 0 \in T,
         \A x \in Numbers : p[x] \in T => x \in T
  PROVE  Blocks \subseteq T
<1> SUFFICES ASSUME NEW y \in Blocks, y \notin T PROVE FALSE
  OBVIOUS
<1> DEFINE U == {x \in Blocks : x \notin T}
<1>1. U \subseteq Nat /\ U # {}
  BY BlocksFacts
<1>2. PICK x \in U : \A z \in U : x <= z
  BY <1>1, LeastNatural
<1>3. x \in Numbers
  BY BlocksFacts
<1>4. p[x] \in Blocks /\ p[x] < x
  BY <1>3 DEF Tree
<1>5. p[x] \in T
  <2>1. x \in Nat /\ p[x] \in Nat
    BY <1>3, <1>4, BlocksFacts, Zenon
  <2>2. ~(x <= p[x])
    BY <1>4, <2>1
  <2> QED BY <1>2, <1>4, <2>2
<1> QED BY <1>3, <1>5

\* Recursion towards block 0.
Recursive(f, V, p, base, F, m) ==
    /\ f \in [0 .. m -> V] /\ f[0] = base
    /\ \A x \in 1 .. m : f[x] = F[<<f[p[x]], x>>]

LEMMA TreeRecursion ==
  ASSUME NEW p, Tree(p), NEW V, NEW base \in V, NEW F \in [V \X Numbers -> V]
  PROVE  \E f : Recursive(f, V, p, base, F, MaxBlocks)
<1> DEFINE T == {m \in 0 .. MaxBlocks : \E f : Recursive(f, V, p, base, F, m)}
<1>0. MaxBlocks \in Nat
  BY NodeAssumption
<1>1. 0 \in T
  <2> DEFINE f == [x \in 0 .. 0 |-> base]
  <2>1. Recursive(f, V, p, base, F, 0)
    BY DEF Recursive
  <2> QED BY <1>0, <2>1
<1>2. ASSUME NEW m \in 1 .. MaxBlocks, m - 1 \in T PROVE m \in T
  <2>1. PICK f : Recursive(f, V, p, base, F, m - 1)
    BY <1>2
  <2> DEFINE g == [x \in 0 .. m |-> IF x = m THEN F[<<f[p[m]], m>>] ELSE f[x]]
  <2>2. m \in Numbers /\ p[m] \in 0 .. m - 1 /\ \A x \in 1 .. m : p[x] \in 0 .. x - 1
    BY <1>0 DEF Tree, Numbers, Blocks
  <2>3. f \in [0 .. m - 1 -> V] /\ f[0] = base /\ \A x \in 1 .. m - 1 : f[x] = F[<<f[p[x]], x>>]
    BY <2>1 DEF Recursive
  <2>4. F[<<f[p[m]], m>>] \in V
    BY <2>2, <2>3
  <2>5. g \in [0 .. m -> V]
    BY <2>3, <2>4
  <2>6. g[0] = base
    BY <2>3
  <2>7. \A x \in 0 .. m - 1 : g[x] = f[x]
    BY <1>0
  <2>8. g[m] = F[<<f[p[m]], m>>]
    BY <1>0
  <2> HIDE DEF g
  <2>9. ASSUME NEW x \in 1 .. m PROVE g[x] = F[<<g[p[x]], x>>]
    <3>1. p[x] \in 0 .. m - 1
      BY <1>0, <2>2
    <3>2. CASE x = m
      BY <2>7, <2>8, <3>1, <3>2
    <3>3. CASE x # m
      BY <1>0, <2>3, <2>7, <3>1, <3>3
    <3> QED BY <3>2, <3>3
  <2>10. Recursive(g, V, p, base, F, m)
    BY <2>5, <2>6, <2>9 DEF Recursive
  <2> QED BY <1>0, <2>10
<1> HIDE DEF T
<1>3. 0 .. MaxBlocks \subseteq T
  BY <1>0, <1>1, <1>2, SetInduction
<1>4. MaxBlocks \in T
  BY <1>0, <1>3
<1> QED BY <1>4 DEF T

\* path_to: the block, then the path to its parent.
LEMMA PathRecursive ==
  ASSUME NEW p, Tree(p)
  PROVE  /\ PathTo(p, 0) = <<0>>
         /\ \A x \in Numbers : PathTo(p, x) = <<x>> \o PathTo(p, p[x])
         /\ \A x \in Blocks : PathTo(p, x) \in Seq(Blocks)
<1> DEFINE V == Seq(Blocks)
           F == [q \in V \X Numbers |-> <<q[2]>> \o q[1]]
           Body(f, x) == IF x = 0 THEN <<0>> ELSE <<x>> \o f[p[x]]
           path == CHOOSE f : f = [x \in Blocks |-> Body(f, x)]
<1>1. <<0>> \in V /\ F \in [V \X Numbers -> V]
  <2>1. \A v \in V, x \in Numbers : <<x>> \o v \in V
    <3> SUFFICES ASSUME NEW v \in V, NEW x \in Numbers PROVE <<x>> \o v \in V
      OBVIOUS
    <3>1. <<x>> \in V
      BY BlocksFacts
    <3> QED BY <3>1
  <2>2. <<0>> \in V
    BY BlocksFacts
  <2> HIDE DEF V
  <2> QED BY <2>1, <2>2
<1>2. PICK f : Recursive(f, V, p, <<0>>, F, MaxBlocks)
  <2> HIDE DEF V, F
  <2> QED BY <1>1, TreeRecursion
<1>3. f \in [Blocks -> V] /\ f[0] = <<0>> /\ \A x \in Numbers : f[x] = F[<<f[p[x]], x>>]
  BY <1>2 DEF Recursive, Blocks, Numbers
<1> HIDE DEF V
<1>4. \A x \in Numbers : f[p[x]] \in V /\ F[<<f[p[x]], x>>] = <<x>> \o f[p[x]]
  BY <1>3 DEF Tree
<1>5. \A x \in Blocks : f[x] = Body(f, x)
  BY <1>3, <1>4, BlocksFacts
<1>6. f = [x \in Blocks |-> Body(f, x)]
  BY <1>3, <1>5
<1>7. path = [x \in Blocks |-> Body(path, x)]
  BY <1>6
<1>8. \A x : PathTo(p, x) = path[x]
  BY DEF PathTo
<1> HIDE DEF path
<1>9. \A x \in Blocks : path[x] = Body(path, x)
  BY <1>7, Zenon
<1>10. path[0] = <<0>> /\ \A x \in Numbers : path[x] = <<x>> \o path[p[x]]
  BY <1>9, BlocksFacts
<1>11. \A x \in Blocks : path[x] \in V
  <2> DEFINE T == {x \in Blocks : path[x] \in V}
  <2>1. 0 \in T
    BY <1>1, <1>10, BlocksFacts
  <2>2. ASSUME NEW x \in Numbers, p[x] \in T PROVE x \in T
    <3>1. path[p[x]] \in V /\ <<x>> \in V
      BY <2>2, BlocksFacts DEF V
    <3>2. <<x>> \o path[p[x]] \in V
      BY <3>1, ConcatProperties DEF V
    <3>3. path[x] \in V
      BY <1>10, <3>2
    <3> QED BY <3>3, BlocksFacts
  <2> HIDE DEF T
  <2>3. Blocks \subseteq T
    BY <2>1, <2>2, TreeInduction
  <2> QED BY <2>3 DEF T
<1> QED BY <1>8, <1>10, <1>11 DEF V

\* A path walks from its block along the parents to block 0.
LEMMA PathShape ==
  ASSUME NEW p, Tree(p), NEW b \in Blocks
  PROVE  LET s == PathTo(p, b) IN
         /\ s \in Seq(Blocks) /\ Len(s) \in Nat \ {0} /\ s[1] = b /\ s[Len(s)] = 0
         /\ \A i \in 1 .. Len(s) - 1 : s[i] \in Numbers /\ s[i + 1] = p[s[i]]
<1> DEFINE Shape(s, x) ==
             /\ s \in Seq(Blocks) /\ Len(s) \in Nat \ {0} /\ s[1] = x /\ s[Len(s)] = 0
             /\ \A i \in 1 .. Len(s) - 1 : s[i] \in Numbers /\ s[i + 1] = p[s[i]]
           T == {x \in Blocks : Shape(PathTo(p, x), x)}
<1>1. 0 \in T
  <2>1. PathTo(p, 0) = <<0>> /\ <<0>> \in Seq(Blocks) /\ Len(<<0>>) = 1
    BY PathRecursive, BlocksFacts
  <2>2. 1 .. Len(<<0>>) - 1 = {}
    OBVIOUS
  <2>3. <<0>>[1] = 0 /\ <<0>>[Len(<<0>>)] = 0 /\ Len(<<0>>) \in Nat \ {0}
    OBVIOUS
  <2>4. Shape(<<0>>, 0)
    BY <2>1, <2>2, <2>3
  <2> HIDE DEF Shape
  <2> QED BY <2>1, <2>4, BlocksFacts
<1>2. ASSUME NEW x \in Numbers, p[x] \in T PROVE x \in T
  <2> DEFINE t == PathTo(p, p[x])
             s == <<x>> \o t
  <2>1. Shape(t, p[x])
    BY <1>2
  <2>2. PathTo(p, x) = s
    BY PathRecursive
  <2> HIDE DEF t
  <2>3. /\ s \in Seq(Blocks) /\ Len(s) = Len(t) + 1 /\ s[1] = x
        /\ \A i \in 1 .. Len(t) : s[i + 1] = t[i]
    <3>1. <<x>> \in Seq(Blocks) /\ Len(<<x>>) = 1
      BY BlocksFacts
    <3> QED BY <2>1, <3>1, ConcatProperties
  <2> HIDE DEF s
  <2>4. Len(t) \in Nat \ {0} /\ t[1] = p[x] /\ t[Len(t)] = 0
    BY <2>1
  <2>5. \A i \in 1 .. Len(s) - 1 : s[i] \in Numbers /\ s[i + 1] = p[s[i]]
    <3> SUFFICES ASSUME NEW i \in 1 .. Len(s) - 1
                 PROVE  s[i] \in Numbers /\ s[i + 1] = p[s[i]]
      OBVIOUS
    <3>1. CASE i = 1
      BY <2>3, <2>4, <3>1
    <3>2. CASE i # 1
      <4>1. i - 1 \in 1 .. Len(t) - 1 /\ i \in 1 .. Len(t) /\ i - 1 \in 1 .. Len(t) /\ (i - 1) + 1 = i
        BY <2>3, <2>4, <3>2
      <4>2. s[i] = t[i - 1] /\ s[i + 1] = t[i]
        BY <2>3, <4>1
      <4>3. t[i - 1] \in Numbers /\ t[(i - 1) + 1] = p[t[i - 1]]
        BY <2>1, <4>1
      <4> QED BY <4>1, <4>2, <4>3
    <3> QED BY <3>1, <3>2
  <2>6. s[Len(s)] = 0 /\ Len(s) \in Nat \ {0}
    BY <2>3, <2>4
  <2>7. Shape(s, x)
    BY <2>3, <2>5, <2>6
  <2> QED BY <2>2, <2>7, BlocksFacts
<1> HIDE DEF T
<1>3. Blocks \subseteq T
  BY <1>1, <1>2, TreeInduction
<1> QED BY <1>3 DEF T

\* The blocks on a path.
LEMMA PathSet ==
  ASSUME NEW p, Tree(p)
  PROVE  /\ ToSet(PathTo(p, 0)) = {0}
         /\ \A x \in Numbers : ToSet(PathTo(p, x)) = {x} \cup ToSet(PathTo(p, p[x]))
         /\ \A x \in Blocks : \A y \in ToSet(PathTo(p, x)) : y \in Blocks /\ y <= x
<1>1. ToSet(PathTo(p, 0)) = {0}
  <2>1. PathTo(p, 0) = <<0>>
    BY PathRecursive
  <2>2. DOMAIN <<0>> = {1} /\ <<0>>[1] = 0
    OBVIOUS
  <2> QED BY <2>1, <2>2 DEF ToSet
<1>2. ASSUME NEW x \in Numbers
      PROVE  ToSet(PathTo(p, x)) = {x} \cup ToSet(PathTo(p, p[x]))
  <2> DEFINE t == PathTo(p, p[x])
  <2>1. p[x] \in Blocks
    BY DEF Tree
  <2>2. t \in Seq(Blocks) /\ PathTo(p, x) = <<x>> \o t
    BY <2>1, PathRecursive
  <2> HIDE DEF t
  <2>3. /\ DOMAIN t = 1 .. Len(t) /\ Len(t) \in Nat /\ DOMAIN (<<x>> \o t) = 1 .. Len(t) + 1
        /\ (<<x>> \o t)[1] = x /\ \A i \in 1 .. Len(t) : (<<x>> \o t)[i + 1] = t[i]
    <3>1. <<x>> \in Seq(Blocks) /\ Len(<<x>>) = 1
      BY BlocksFacts
    <3> QED BY <2>2, <3>1, ConcatProperties, LenProperties
  <2>4. ASSUME NEW y PROVE y \in ToSet(<<x>> \o t) <=> y = x \/ y \in ToSet(t)
    <3>1. ASSUME NEW i \in 1 .. Len(t) + 1, y = (<<x>> \o t)[i], y # x
          PROVE  y \in ToSet(t)
      <4>1. i - 1 \in 1 .. Len(t) /\ (i - 1) + 1 = i
        BY <2>3, <3>1
      <4>2. y = t[i - 1]
        BY <2>3, <3>1, <4>1
      <4> QED BY <2>3, <4>1, <4>2 DEF ToSet
    <3>2. ASSUME NEW i \in 1 .. Len(t), y = t[i] PROVE y \in ToSet(<<x>> \o t)
      <4>1. i + 1 \in 1 .. Len(t) + 1
        BY <2>3
      <4> QED BY <2>3, <3>2, <4>1 DEF ToSet
    <3>3. x \in ToSet(<<x>> \o t)
      <4>1. 1 \in 1 .. Len(t) + 1
        BY <2>3
      <4> QED BY <2>3, <4>1 DEF ToSet
    <3>4. /\ y \in ToSet(<<x>> \o t) <=> \E i \in 1 .. Len(t) + 1 : y = (<<x>> \o t)[i]
          /\ y \in ToSet(t) <=> \E i \in 1 .. Len(t) : y = t[i]
      BY <2>3 DEF ToSet
    <3> QED BY <3>1, <3>2, <3>3, <3>4
  <2> QED BY <2>2, <2>4 DEF t
<1>3. \A x \in Blocks : \A y \in ToSet(PathTo(p, x)) : y \in Blocks /\ y <= x
  <2> DEFINE T == {x \in Blocks : \A y \in ToSet(PathTo(p, x)) : y \in Blocks /\ y <= x}
  <2>1. 0 \in T
    BY <1>1, BlocksFacts
  <2>2. ASSUME NEW x \in Numbers, p[x] \in T PROVE x \in T
    <3>1. x \in Nat /\ p[x] \in Nat /\ p[x] < x
      BY BlocksFacts DEF Tree
    <3>2. \A y \in ToSet(PathTo(p, p[x])) : y \in Blocks /\ y \in Nat /\ y <= p[x]
      BY <2>2, BlocksFacts
    <3>3. \A y \in ToSet(PathTo(p, p[x])) : y <= x
      BY <3>1, <3>2
    <3> QED BY <1>2, <3>1, <3>2, <3>3, BlocksFacts
  <2> HIDE DEF T
  <2>3. Blocks \subseteq T
    BY <2>1, <2>2, TreeInduction
  <2> QED BY <2>3 DEF T
<1> QED BY <1>1, <1>2, <1>3

-----------------------------------------------------------------------------
(***************************************************************************)
(* Replays, and the tables that match one.                                 *)
(***************************************************************************)
ReplayOf(p, bodies, b) ==
    LET r[x \in Blocks] == IF x = 0 THEN Coins
                           ELSE ConnectUtxos(r[p[x]], x, bodies[x])
    IN  r[b]

\* What a block may hold.
Bodies == [Numbers -> Seq(Txs)]

\* A replay is the block applied to the replay of its parent.
LEMMA ReplayRecursive ==
  ASSUME NEW p, Tree(p), NEW bodies \in Bodies
  PROVE  /\ ReplayOf(p, bodies, 0) = Coins
         /\ \A x \in Numbers :
              ReplayOf(p, bodies, x) = ConnectUtxos(ReplayOf(p, bodies, p[x]), x, bodies[x])
         /\ \A x \in Blocks : ReplayOf(p, bodies, x) \in SUBSET Outpoints
<1> DEFINE V == SUBSET Outpoints
           F == [q \in V \X Numbers |-> ConnectUtxos(q[1], q[2], bodies[q[2]])]
           Body(f, x) == IF x = 0 THEN Coins ELSE ConnectUtxos(f[p[x]], x, bodies[x])
           r == CHOOSE f : f = [x \in Blocks |-> Body(f, x)]
<1>1. Coins \in V /\ \A v \in V, x \in Numbers : ConnectUtxos(v, x, bodies[x]) \in V
  BY NodeAssumption, BlocksFacts, ConnectUtxosType DEF Bodies
<1> HIDE DEF V
<1>2. F \in [V \X Numbers -> V]
  BY <1>1
<1>3. PICK f : Recursive(f, V, p, Coins, F, MaxBlocks)
  <2> HIDE DEF F
  <2> QED BY <1>1, <1>2, TreeRecursion
<1>4. f \in [Blocks -> V] /\ f[0] = Coins /\ \A x \in Numbers : f[x] = F[<<f[p[x]], x>>]
  BY <1>3 DEF Recursive, Blocks, Numbers
<1>5. \A x \in Numbers : f[p[x]] \in V /\ F[<<f[p[x]], x>>] = ConnectUtxos(f[p[x]], x, bodies[x])
  BY <1>4 DEF Tree
<1>6. \A x \in Blocks : f[x] = Body(f, x)
  BY <1>4, <1>5, BlocksFacts
<1>7. f = [x \in Blocks |-> Body(f, x)]
  BY <1>4, <1>6
<1>8. r = [x \in Blocks |-> Body(r, x)]
  BY <1>7
<1>9. \A x : ReplayOf(p, bodies, x) = r[x]
  BY DEF ReplayOf
<1> HIDE DEF r
<1>10. \A x \in Blocks : r[x] = Body(r, x)
  BY <1>8, Zenon
<1>11. r[0] = Coins /\ \A x \in Numbers : r[x] = ConnectUtxos(r[p[x]], x, bodies[x])
  BY <1>10, BlocksFacts
<1>12. \A x \in Blocks : r[x] \in V
  <2> DEFINE T == {x \in Blocks : r[x] \in V}
  <2>1. 0 \in T
    BY <1>1, <1>11, BlocksFacts
  <2>2. ASSUME NEW x \in Numbers, p[x] \in T PROVE x \in T
    <3>1. r[x] \in V
      BY <1>1, <1>11, <2>2
    <3> QED BY <3>1, BlocksFacts
  <2> HIDE DEF T
  <2>3. Blocks \subseteq T
    BY <2>1, <2>2, TreeInduction
  <2> QED BY <2>3 DEF T
<1> QED BY <1>9, <1>11, <1>12 DEF V

\* Two trees that agree up to block c have the same paths and replays there.
LEMMA SharedBranch ==
  ASSUME NEW p, Tree(p), NEW q, Tree(q), NEW bp \in Bodies, NEW bq \in Bodies,
         NEW c \in Blocks, \A x \in 1 .. c : p[x] = q[x] /\ bp[x] = bq[x]
  PROVE  \A x \in 0 .. c : /\ PathTo(p, x) = PathTo(q, x)
                           /\ ReplayOf(p, bp, x) = ReplayOf(q, bq, x)
<1> DEFINE Same(x) == PathTo(p, x) = PathTo(q, x) /\ ReplayOf(p, bp, x) = ReplayOf(q, bq, x)
           T == {x \in Blocks : x <= c => Same(x)}
<1>1. 0 \in T
  BY PathRecursive, ReplayRecursive, BlocksFacts
<1>2. ASSUME NEW x \in Numbers, p[x] \in T PROVE x \in T
  <2>1. CASE x <= c
    <3>1. x \in 1 .. c /\ p[x] <= c
      BY <2>1, BlocksFacts DEF Tree, Numbers, Blocks
    <3>2. Same(p[x])
      BY <1>2, <3>1
    <3>3. p[x] = q[x] /\ bp[x] = bq[x]
      BY <3>1
    <3>4. PathTo(p, x) = PathTo(q, x)
      BY <3>2, <3>3, PathRecursive
    <3>5. ReplayOf(p, bp, x) = ReplayOf(q, bq, x)
      BY <3>2, <3>3, ReplayRecursive
    <3> QED BY <3>4, <3>5, BlocksFacts
  <2>2. CASE ~(x <= c)
    BY <2>2, BlocksFacts
  <2> QED BY <2>1, <2>2
<1> HIDE DEF T
<1>3. Blocks \subseteq T
  BY <1>1, <1>2, TreeInduction
<1> SUFFICES ASSUME NEW x \in 0 .. c PROVE Same(x)
  OBVIOUS
<1>4. x \in Blocks /\ x <= c
  BY BlocksFacts, NodeAssumption DEF Blocks
<1> HIDE DEF Same
<1> QED BY <1>3, <1>4 DEF T

\* What a block does to an outpoint it does not create.
LEMMA ConnectUtxosEffect ==
  ASSUME NEW u \in SUBSET Outpoints, NEW b \in Outpoints, NEW txs \in Seq(Txs),
         NEW o, o \notin Outputs(txs) \cup {b}
  PROVE  o \in ConnectUtxos(u, b, txs) <=> o \in u /\ o \notin Inputs(txs)
<1> DEFINE n == Len(txs)
<1>1. PICK h : UtxoRun(h, u, b, txs)
  BY ConnectUtxosFold
<1>2. n \in Nat /\ DOMAIN txs = 1 .. n
  BY LenProperties
<1>3. /\ h[0] = u \cup {b} /\ ConnectUtxos(u, b, txs) = h[n]
      /\ \A i \in 1 .. n : h[i] = (h[i - 1] \ Spends[txs[i]]) \cup Creates[txs[i]]
  BY <1>1 DEF UtxoRun
<1>4. \A i \in 1 .. n : o \notin Creates[txs[i]]
  BY <1>2 DEF Outputs
<1> DEFINE T == {i \in 0 .. n : o \in h[i] <=> o \in u /\ \A j \in 1 .. i : o \notin Spends[txs[j]]}
<1> HIDE DEF n
<1>5. 0 \in T
  BY <1>2, <1>3
<1>6. ASSUME NEW i \in 1 .. n, i - 1 \in T PROVE i \in T
  <2>1. o \in h[i] <=> o \in h[i - 1] /\ o \notin Spends[txs[i]]
    BY <1>3, <1>4
  <2>2. o \in h[i - 1] <=> o \in u /\ \A j \in 1 .. i - 1 : o \notin Spends[txs[j]]
    BY <1>6
  <2>3. \A j \in 1 .. i : j \in 1 .. i - 1 \/ j = i
    BY <1>2
  <2>4. i \in 1 .. i /\ \A j \in 1 .. i - 1 : j \in 1 .. i
    BY <1>2
  <2>5. o \in h[i] <=> o \in u /\ \A j \in 1 .. i : o \notin Spends[txs[j]]
    BY <2>1, <2>2, <2>3, <2>4, Zenon
  <2>6. i \in 0 .. n
    BY <1>2
  <2> QED BY <2>5, <2>6
<1> HIDE DEF T
<1>7. n \in T
  BY <1>2, <1>5, <1>6, SetInduction
<1> QED BY <1>2, <1>3, <1>7 DEF T, Inputs

\* No block up to c creates an outpoint that is unspent where it connects.
Fresh(p, bodies, c) ==
    \A x \in 1 .. c : (Outputs(bodies[x]) \cup {x}) \cap ReplayOf(p, bodies, p[x]) = {}

\* The undo data of a block that was connected to the replay of its parent.
UndoRow(p, bodies, x) ==
    [connected |-> TRUE, spent |-> Inputs(bodies[x]) \cap ReplayOf(p, bodies, p[x]),
     created |-> Outputs(bodies[x]) \cup {x}]

\* The tables of a node whose active chain ends in block y.
Synced(st, p, bodies, y, c) ==
    /\ st \in Tables
    /\ \A x \in Numbers : st.undo[x].connected <=> x \in ToSet(PathTo(p, y))
    /\ Fresh(p, bodies, c) =>
         /\ st.utxo = ReplayOf(p, bodies, y)
         /\ \A x \in Numbers : x \in ToSet(PathTo(p, y)) => st.undo[x] = UndoRow(p, bodies, x)

\* _connect_block_with_undo takes the tables from the parent to the block.
LEMMA ConnectStep ==
  ASSUME NEW p, Tree(p), NEW bodies \in Bodies, NEW y \in Numbers, NEW c, NEW st,
         Synced(st, p, bodies, p[y], c)
  PROVE  Synced(ConnectBlock(st, y, bodies[y]), p, bodies, y, c)
<1> DEFINE txs == bodies[y]
           row == [connected |-> TRUE, spent |-> Inputs(txs) \cap st.utxo,
                   created |-> Outputs(txs) \cup {y}]
           nst == ConnectBlock(st, y, txs)
<1>1. txs \in Seq(Txs) /\ st \in Tables /\ nst \in Tables
  BY BlockStepsType DEF Bodies, Synced
<1>2. nst.utxo = ConnectUtxos(st.utxo, y, txs) /\ nst.undo = [st.undo EXCEPT ![y] = row]
  BY DEF ConnectBlock, Coinbase
<1> HIDE DEF nst, row
<1>3. \A x \in Numbers : nst.undo[x] = IF x = y THEN row ELSE st.undo[x]
  BY <1>1, <1>2 DEF Tables, Numbers
<1>4. row.connected = TRUE
  BY DEF row
<1>5. ToSet(PathTo(p, y)) = {y} \cup ToSet(PathTo(p, p[y]))
  BY PathSet
<1>6. \A x \in Numbers : nst.undo[x].connected <=> x \in ToSet(PathTo(p, y))
  BY <1>3, <1>4, <1>5 DEF Synced
<1>7. ASSUME Fresh(p, bodies, c)
      PROVE  /\ nst.utxo = ReplayOf(p, bodies, y)
             /\ \A x \in Numbers : x \in ToSet(PathTo(p, y)) => nst.undo[x] = UndoRow(p, bodies, x)
  <2>1. st.utxo = ReplayOf(p, bodies, p[y])
    BY <1>7 DEF Synced
  <2>2. row = UndoRow(p, bodies, y)
    BY <2>1 DEF row, UndoRow
  <2>3. \A x \in Numbers : x \in ToSet(PathTo(p, p[y])) => st.undo[x] = UndoRow(p, bodies, x)
    BY <1>7 DEF Synced
  <2>4. nst.utxo = ReplayOf(p, bodies, y)
    BY <1>2, <2>1, ReplayRecursive
  <2> QED BY <1>3, <1>5, <2>2, <2>3, <2>4
<1> QED BY <1>1, <1>6, <1>7 DEF Synced, nst

\* _disconnect_block takes them from the block back to its parent: the undo data
\* restores the replay as long as the block overwrote nothing.
LEMMA DisconnectStep ==
  ASSUME NEW p, Tree(p), NEW bodies \in Bodies, NEW c \in Blocks, NEW y \in 1 .. c, NEW st,
         Synced(st, p, bodies, y, c)
  PROVE  Synced(DisconnectBlock(st, y), p, bodies, p[y], c)
<1> DEFINE txs == bodies[y]
           u == ReplayOf(p, bodies, p[y])
           nst == DisconnectBlock(st, y)
<1>1. y \in Numbers /\ p[y] \in Blocks /\ y \in Outpoints /\ p[y] < y /\ y \in Nat /\ p[y] \in Nat
  BY BlocksFacts, NodeAssumption DEF Numbers, Blocks, Tree
<1>2. txs \in Seq(Txs) /\ st \in Tables /\ nst \in Tables /\ u \in SUBSET Outpoints
  BY <1>1, BlockStepsType, ReplayRecursive DEF Bodies, Synced
<1>3. /\ nst.utxo = (st.utxo \ st.undo[y].created) \cup st.undo[y].spent
      /\ nst.undo = [st.undo EXCEPT ![y] = NoUndo]
  BY DEF DisconnectBlock, AddUtxos, SpendUtxos
<1> HIDE DEF nst, u
<1>4. \A x \in Numbers : nst.undo[x] = IF x = y THEN NoUndo ELSE st.undo[x]
  BY <1>1, <1>2, <1>3 DEF Tables, Numbers
<1>5. /\ ToSet(PathTo(p, y)) = {y} \cup ToSet(PathTo(p, p[y]))
      /\ y \in ToSet(PathTo(p, y)) /\ y \notin ToSet(PathTo(p, p[y]))
  <2>1. \A z \in ToSet(PathTo(p, p[y])) : z <= p[y]
    BY <1>1, PathSet
  <2>2. ~(y <= p[y])
    BY <1>1
  <2> QED BY <1>1, <2>1, <2>2, PathSet
<1>6. NoUndo.connected = FALSE
  BY DEF NoUndo
<1>7. \A x \in Numbers : nst.undo[x].connected <=> x \in ToSet(PathTo(p, p[y]))
  BY <1>4, <1>5, <1>6 DEF Synced
<1>8. ASSUME Fresh(p, bodies, c)
      PROVE  /\ nst.utxo = u
             /\ \A x \in Numbers : x \in ToSet(PathTo(p, p[y])) => nst.undo[x] = UndoRow(p, bodies, x)
  <2>1. st.utxo = ConnectUtxos(u, y, txs)
    BY <1>1, <1>8, ReplayRecursive DEF Synced, u
  <2>2. st.undo[y].spent = Inputs(txs) \cap u /\ st.undo[y].created = Outputs(txs) \cup {y}
    <3>1. st.undo[y] = UndoRow(p, bodies, y)
      BY <1>1, <1>5, <1>8 DEF Synced
    <3> QED BY <3>1 DEF UndoRow, u
  <2>3. (Outputs(txs) \cup {y}) \cap u = {}
    BY <1>8 DEF Fresh, u
  <2>4. \A o : o \notin Outputs(txs) \cup {y} =>
           (o \in ConnectUtxos(u, y, txs) <=> o \in u /\ o \notin Inputs(txs))
    BY <1>1, <1>2, ConnectUtxosEffect
  <2>5. nst.utxo = (ConnectUtxos(u, y, txs) \ (Outputs(txs) \cup {y})) \cup (Inputs(txs) \cap u)
    BY <1>3, <2>1, <2>2
  <2>6. nst.utxo = u
    BY <2>3, <2>4, <2>5
  <2>7. \A x \in Numbers : x \in ToSet(PathTo(p, y)) => st.undo[x] = UndoRow(p, bodies, x)
    BY <1>8 DEF Synced
  <2> QED BY <1>4, <1>5, <2>6, <2>7
<1> QED BY <1>2, <1>7, <1>8 DEF Synced, nst, u

\* SelectInSeq, for a test that some position passes.
LEMMA FirstIndex ==
  ASSUME NEW n \in Nat, NEW I \in SUBSET (1 .. n), I # {}
  PROVE  Min(I) \in I
<1>1. I \subseteq Nat
  OBVIOUS
<1>2. PICK x \in I : \A y \in I : x <= y
  BY <1>1, LeastNatural
<1>3. \E m \in I : \A y \in I : m =< y
  BY <1>2
<1> QED BY <1>3, Zenon DEF Min

\* The blocks of a path above one of its blocks.
LEMMA AboveIs ==
  ASSUME NEW s \in Seq(Blocks), NEW a, NEW k \in 1 .. Len(s), s[k] = a
  PROVE  \E i \in 1 .. Len(s) : s[i] = a /\ Above(s, a) = SubSeq(s, 1, i - 1)
<1> DEFINE I == {i \in 1 .. Len(s) : s[i] = a}
<1>1. Len(s) \in Nat /\ I \in SUBSET (1 .. Len(s)) /\ I # {}
  BY LenProperties
<1>2. Min(I) \in I
  <2> HIDE DEF I
  <2> QED BY <1>1, FirstIndex
<1>3. Above(s, a) = SubSeq(s, 1, Min(I) - 1)
  <2>1. SelectInSeq(s, LAMBDA b : b = a) = Min(I)
    BY <1>1 DEF SelectInSeq
  <2> QED BY <2>1 DEF Above
<1> QED BY <1>2, <1>3

\* Two paths meet, at the ancestor.
LEMMA AncestorIs ==
  ASSUME NEW p, Tree(p), NEW from \in Blocks, NEW to \in Blocks
  PROVE  LET old == PathTo(p, from)
             new == PathTo(p, to)
             a == Ancestor(old, new)
         IN  /\ \E i \in 1 .. Len(old) : old[i] = a
             /\ \E j \in 1 .. Len(new) : new[j] = a
<1> DEFINE old == PathTo(p, from)
           new == PathTo(p, to)
           I == {i \in 1 .. Len(new) : new[i] \in ToSet(old)}
<1>1. /\ old \in Seq(Blocks) /\ Len(old) \in Nat \ {0} /\ old[Len(old)] = 0
      /\ new \in Seq(Blocks) /\ Len(new) \in Nat \ {0} /\ new[Len(new)] = 0
  BY PathShape
<1>2. DOMAIN old = 1 .. Len(old)
  BY <1>1, LenProperties
<1> HIDE DEF old, new
<1>3. 0 \in ToSet(old)
  BY <1>1, <1>2 DEF ToSet
<1>4. Len(new) \in I
  BY <1>1, <1>3
<1>5. Min(I) \in I
  <2>1. I \in SUBSET (1 .. Len(new)) /\ I # {}
    BY <1>4
  <2> HIDE DEF I
  <2> QED BY <1>1, <2>1, FirstIndex
<1>6. SelectInSeq(new, LAMBDA b : b \in ToSet(old)) = Min(I)
  BY <1>4 DEF SelectInSeq
<1>7. Ancestor(old, new) = new[Min(I)]
  BY <1>6 DEF Ancestor
<1>8. \E j \in 1 .. Len(new) : new[j] = Ancestor(old, new)
  BY <1>5, <1>7
<1>9. Ancestor(old, new) \in ToSet(old)
  BY <1>5, <1>7
<1>10. \E i \in 1 .. Len(old) : old[i] = Ancestor(old, new)
  BY <1>2, <1>9 DEF ToSet
<1> QED BY <1>8, <1>10 DEF old, new

\* A reorganisation takes the tables from one end of the tree to another.
LEMMA ReorgStep ==
  ASSUME NEW p, Tree(p), NEW bodies \in Bodies, NEW c \in Blocks,
         NEW from \in 0 .. c, NEW to \in Blocks, NEW st,
         Synced(st, p, bodies, from, c)
  PROVE  Synced(Reorg(st, p, bodies, from, to), p, bodies, to, c)
<1> DEFINE old == PathTo(p, from)
           new == PathTo(p, to)
           a == Ancestor(old, new)
<1>1. from \in Blocks
  BY NodeAssumption DEF Blocks
<1>2. /\ old \in Seq(Blocks) /\ Len(old) \in Nat \ {0} /\ old[1] = from
      /\ \A i \in 1 .. Len(old) - 1 : old[i] \in Numbers /\ old[i + 1] = p[old[i]]
      /\ new \in Seq(Blocks) /\ Len(new) \in Nat \ {0} /\ new[1] = to
      /\ \A i \in 1 .. Len(new) - 1 : new[i] \in Numbers /\ new[i + 1] = p[new[i]]
  BY <1>1, PathShape
<1>3. \A i \in 1 .. Len(old) - 1 : old[i] \in 1 .. c
  <2>1. \A z \in ToSet(old) : z <= from
    BY <1>1, PathSet
  <2>2. \A i \in 1 .. Len(old) : old[i] \in ToSet(old)
    BY <1>2, LenProperties DEF ToSet
  <2> HIDE DEF old
  <2> SUFFICES ASSUME NEW i \in 1 .. Len(old) - 1 PROVE old[i] \in 1 .. c
    OBVIOUS
  <2>3. i \in 1 .. Len(old)
    BY <1>2
  <2>4. old[i] \in Numbers /\ old[i] <= from
    BY <1>2, <2>1, <2>2, <2>3
  <2> QED BY <2>4, NodeAssumption DEF Numbers, Blocks
<1>4. PICK k \in 1 .. Len(old) : old[k] = a /\ Above(old, a) = SubSeq(old, 1, k - 1)
  BY <1>1, <1>2, AncestorIs, AboveIs
<1>5. PICK m \in 1 .. Len(new) : new[m] = a /\ Above(new, a) = SubSeq(new, 1, m - 1)
  BY <1>1, <1>2, AncestorIs, AboveIs
<1> DEFINE q == SubSeq(old, 1, k - 1)
           t == SubSeq(new, 1, m - 1)
           r == Reverse(t)
           mid == DisconnectAll(st, q)
<1>6. Reorg(st, p, bodies, from, to) = ConnectAll(mid, r, bodies)
  BY <1>4, <1>5 DEF Reorg
<1> HIDE DEF old, new, a
<1>7. /\ q \in Seq(Numbers) /\ Len(q) = k - 1 /\ k - 1 \in Nat
      /\ \A i \in 1 .. k - 1 : q[i] = old[i]
  <2>1. q \in Seq(Blocks) /\ Len(q) = k - 1 /\ \A i \in 1 .. k - 1 : q[i] = old[i]
    BY <1>2, SubSeqProperties
  <2>2. \A i \in 1 .. k - 1 : q[i] \in Numbers
    BY <1>2, <2>1
  <2> HIDE DEF q
  <2>3. q \in Seq(Numbers)
    BY <2>1, <2>2, LenProperties, IsASeq
  <2> QED BY <2>1, <2>3
<1>8. /\ r \in Seq(Numbers) /\ Len(r) = m - 1 /\ m - 1 \in Nat
      /\ \A i \in 1 .. m - 1 : r[i] = new[m - i]
  <2>1. t \in Seq(Blocks) /\ Len(t) = m - 1 /\ m - 1 \in Nat /\ \A i \in 1 .. m - 1 : t[i] = new[i]
    BY <1>2, SubSeqProperties
  <2> HIDE DEF t
  <2>2. r = [i \in 1 .. m - 1 |-> t[((m - 1) - i) + 1]]
    BY <2>1 DEF Reverse
  <2>3. \A i \in 1 .. m - 1 : r[i] = new[m - i] /\ r[i] \in Numbers
    <3> SUFFICES ASSUME NEW i \in 1 .. m - 1 PROVE r[i] = new[m - i] /\ r[i] \in Numbers
      OBVIOUS
    <3>1. ((m - 1) - i) + 1 = m - i /\ m - i \in 1 .. m - 1 /\ m - i \in 1 .. Len(new) - 1
      BY <1>2, <2>1
    <3>2. r[i] = t[m - i]
      BY <2>2, <3>1
    <3> QED BY <1>2, <2>1, <3>1, <3>2
  <2>4. r \in [1 .. m - 1 -> Numbers]
    BY <2>2, <2>3
  <2> HIDE DEF r
  <2>5. r \in Seq(Numbers) /\ Len(r) = m - 1
    BY <2>1, <2>4
  <2> QED BY <2>1, <2>3, <2>5
<1> HIDE DEF q, r, t
<1>9. Synced(mid, p, bodies, a, c)
  <2>1. st \in Tables
    BY DEF Synced
  <2>2. PICK h : DisconnectRun(h, st, q)
    BY <1>7, <2>1, DisconnectFold
  <2>3. /\ h[0] = st /\ mid = h[k - 1]
        /\ \A i \in 1 .. k - 1 : h[i] = DisconnectBlock(h[i - 1], q[i])
    BY <1>7, <2>2 DEF DisconnectRun
  <2> DEFINE T == {i \in 0 .. k - 1 : Synced(h[i], p, bodies, old[i + 1], c)}
  <2>4. 0 \in T
    BY <1>2, <1>7, <2>3
  <2>5. ASSUME NEW i \in 1 .. k - 1, i - 1 \in T PROVE i \in T
    <3>1. /\ i \in 1 .. Len(old) - 1 /\ (i - 1) + 1 = i /\ i \in 0 .. k - 1
          /\ h[i] = DisconnectBlock(h[i - 1], old[i])
      BY <1>2, <1>7, <2>3
    <3>2. Synced(h[i - 1], p, bodies, old[i], c)
      BY <2>5, <3>1
    <3>3. old[i] \in 1 .. c /\ old[i + 1] = p[old[i]]
      BY <1>2, <1>3, <3>1
    <3>4. Synced(h[i], p, bodies, old[i + 1], c)
      BY <3>1, <3>2, <3>3, DisconnectStep
    <3> QED BY <3>1, <3>4
  <2> HIDE DEF T
  <2>6. 0 .. k - 1 \subseteq T
    BY <1>7, <2>4, <2>5, SetInduction
  <2>7. k - 1 \in T /\ (k - 1) + 1 = k
    BY <1>7, <2>6
  <2>8. Synced(h[k - 1], p, bodies, old[(k - 1) + 1], c)
    BY <2>7 DEF T
  <2> QED BY <1>4, <2>3, <2>7, <2>8
<1> HIDE DEF mid
<1>10. Synced(ConnectAll(mid, r, bodies), p, bodies, to, c)
  <2>1. mid \in Tables
    BY <1>9 DEF Synced
  <2>2. PICK h : ConnectRun(h, mid, r, bodies)
    BY <1>8, <2>1, ConnectFold DEF Bodies
  <2>3. /\ h[0] = mid /\ ConnectAll(mid, r, bodies) = h[m - 1]
        /\ \A i \in 1 .. m - 1 : h[i] = ConnectBlock(h[i - 1], r[i], bodies[r[i]])
    BY <1>8, <2>2 DEF ConnectRun
  <2> DEFINE T == {i \in 0 .. m - 1 : Synced(h[i], p, bodies, new[m - i], c)}
  <2>4. 0 \in T
    BY <1>5, <1>8, <1>9, <2>3
  <2>5. ASSUME NEW i \in 1 .. m - 1, i - 1 \in T PROVE i \in T
    <3>0. /\ m - i \in 1 .. Len(new) - 1 /\ i \in 0 .. m - 1
          /\ i - 1 \in 0 .. m - 1 /\ (m - i) + 1 = m - (i - 1)
      BY <1>2, <1>8
    <3>1. h[i] = ConnectBlock(h[i - 1], new[m - i], bodies[new[m - i]])
      BY <1>8, <2>3
    <3>2. Synced(h[i - 1], p, bodies, new[(m - i) + 1], c)
      BY <2>5, <3>0
    <3>3. new[m - i] \in Numbers /\ new[(m - i) + 1] = p[new[m - i]]
      BY <1>2, <3>0
    <3>4. Synced(h[i], p, bodies, new[m - i], c)
      BY <3>1, <3>2, <3>3, ConnectStep
    <3> QED BY <3>0, <3>4
  <2> HIDE DEF T
  <2>6. 0 .. m - 1 \subseteq T
    BY <1>8, <2>4, <2>5, SetInduction
  <2>7. m - 1 \in T /\ m - (m - 1) = 1
    BY <1>8, <2>6
  <2>8. Synced(h[m - 1], p, bodies, new[m - (m - 1)], c)
    BY <2>7 DEF T
  <2> QED BY <1>2, <2>3, <2>7, <2>8
<1> QED BY <1>6, <1>10

-----------------------------------------------------------------------------
(***************************************************************************)
(* The types of the node's state.                                          *)
(***************************************************************************)
\* An order of the pool's entries lists each of them.
LEMMA OrderLists ==
  ASSUME NEW S, IsFiniteSet(S), NEW s \in SetToSeqs(S)
  PROVE  s \in Seq(S) /\ ToSet(s) = S
<1> DEFINE n == Cardinality(S)
<1>1. n \in Nat
  BY FS_CardinalityType
<1>2. s \in [1 .. n -> S] /\ \A i, j \in 1 .. n : i # j => s[i] # s[j]
  BY DEF SetToSeqs
<1> HIDE DEF n
<1>3. s \in Seq(S) /\ DOMAIN s = 1 .. n
  BY <1>1, <1>2
<1>4. IsFiniteSet(1 .. n) /\ Cardinality(1 .. n) = n
  BY <1>1, FS_Interval
<1>5. s \in Injection(1 .. n, S)
  BY <1>2 DEF Injection, IsInjective
<1>6. s \in Surjection(1 .. n, S)
  BY <1>4, <1>5, FS_Injection DEF n
<1>7. \A x \in S : \E i \in 1 .. n : s[i] = x
  BY <1>6 DEF Surjection
<1>8. ToSet(s) = S
  BY <1>2, <1>3, <1>7 DEF ToSet
<1> QED BY <1>3, <1>8

Labels == {"idle", "connect", "settip", "apply", "evict"}
Snaps == [tip : Blocks, txs : Seq(Txs)]

\* Headers form a tree whose edges lead to lower numbers.
HeaderShape ==
    /\ count \in Blocks /\ tip \in 0 .. count
    /\ Tree(parent)
    /\ body \in Bodies
    /\ cumwork \in [Blocks -> Nat]

MinerShape ==
    /\ pc \in [Miners -> Labels]
    /\ snap \in [Miners -> Snaps]
    /\ \A m \in Miners :
         snap[m].tip <= count /\ (pc[m] \in {"settip", "apply"} => snap[m].tip # 0)

TableShape == utxo \in SUBSET Outpoints /\ undo \in [Numbers -> UndoRows]

PoolShape ==
    /\ entries \in SUBSET Txs /\ IsFiniteSet(entries)
    /\ spentBy \in [Outpoints -> Txs \cup {NoTx}]

NodeShape == HeaderShape /\ MinerShape /\ TableShape /\ PoolShape

\* A new header is one block more at the end of the numbering.
LEMMA InsertStep ==
  ASSUME HeaderShape, NEW p \in 0 .. count, NEW w \in Nat, NEW txs \in Seq(Txs),
         InsertHeader(p, w, txs)
  PROVE  /\ tip' \in 0 .. count + 1 => HeaderShape'
         /\ count' = count + 1 /\ count + 1 \in Numbers
         /\ parent'[count + 1] = p /\ body'[count + 1] = txs
         /\ cumwork'[count + 1] = cumwork[p] + w
         /\ \A x \in 1 .. count : parent'[x] = parent[x] /\ body'[x] = body[x]
         /\ \A x \in 0 .. count : cumwork'[x] = cumwork[x]
<1>1. /\ count \in Nat /\ MaxBlocks \in Nat /\ count < MaxBlocks
      /\ count + 1 \in Numbers /\ count + 1 \in Blocks
      /\ \A x \in 1 .. count : x \in Numbers /\ x # count + 1
      /\ \A x \in 0 .. count : x \in Blocks /\ x # count + 1
  BY NodeAssumption DEF HeaderShape, InsertHeader, Blocks, Numbers
<1>2. /\ count' = count + 1 /\ parent' = [parent EXCEPT ![count + 1] = p]
      /\ body' = [body EXCEPT ![count + 1] = txs]
      /\ cumwork' = [cumwork EXCEPT ![count + 1] = cumwork[p] + w]
  BY DEF InsertHeader
<1>3. parent' \in [Numbers -> Blocks] /\ \A x \in Numbers : parent'[x] = IF x = count + 1 THEN p ELSE parent[x]
  BY <1>1, <1>2 DEF HeaderShape, Tree
<1>4. \A x \in Numbers : parent'[x] < x
  <2> SUFFICES ASSUME NEW x \in Numbers PROVE parent'[x] < x
    OBVIOUS
  <2>1. CASE x = count + 1
    BY <1>1, <1>3, <2>1
  <2>2. CASE x # count + 1
    BY <1>3, <2>2 DEF HeaderShape, Tree
  <2> QED BY <2>1, <2>2
<1>5. body' \in Bodies /\ \A x \in Numbers : body'[x] = IF x = count + 1 THEN txs ELSE body[x]
  BY <1>1, <1>2 DEF HeaderShape, Bodies
<1>6. cumwork[p] + w \in Nat
  BY <1>1 DEF HeaderShape
<1>7. /\ cumwork' \in [Blocks -> Nat]
      /\ \A x \in Blocks : cumwork'[x] = IF x = count + 1 THEN cumwork[p] + w ELSE cumwork[x]
  BY <1>1, <1>2, <1>6 DEF HeaderShape
<1>8. ASSUME tip' \in 0 .. count + 1 PROVE HeaderShape'
  BY <1>1, <1>2, <1>3, <1>4, <1>5, <1>7, <1>8 DEF HeaderShape, Tree
<1> QED BY <1>1, <1>2, <1>3, <1>5, <1>7, <1>8

\* HeaderStore.connect, undisturbed: the block becomes the tip if it overtakes it.
LEMMA HeaderStep ==
  ASSUME HeaderShape, NEW p \in 0 .. count, NEW w \in Nat, NEW txs \in Seq(Txs),
         ConnectHeader(p, w, txs)
  PROVE  /\ HeaderShape' /\ count' = count + 1 /\ count + 1 \in Numbers
         /\ parent'[count + 1] = p /\ body'[count + 1] = txs
         /\ cumwork'[count + 1] = cumwork[p] + w
         /\ \A x \in 1 .. count : parent'[x] = parent[x] /\ body'[x] = body[x]
         /\ \A x \in 0 .. count : cumwork'[x] = cumwork[x]
         /\ tip' = IF cumwork[p] + w > cumwork[tip] THEN count + 1 ELSE tip
<1>1. /\ InsertHeader(p, w, txs)
      /\ tip' = IF cumwork[p] + w > cumwork[tip] THEN count + 1 ELSE tip
  BY DEF ConnectHeader, Overtakes
<1>2. tip' \in 0 .. count + 1
  BY <1>1, BlocksFacts DEF HeaderShape
<1> QED BY <1>1, <1>2, InsertStep

\* The blocks a reorganisation disconnects or connects are not block 0.
LEMMA AboveNumbers ==
  ASSUME NEW p, Tree(p), NEW b \in Blocks, NEW a,
         \E i \in 1 .. Len(PathTo(p, b)) : PathTo(p, b)[i] = a
  PROVE  Above(PathTo(p, b), a) \in Seq(Numbers)
<1> DEFINE s == PathTo(p, b)
<1>1. /\ s \in Seq(Blocks) /\ Len(s) \in Nat
      /\ \A i \in 1 .. Len(s) - 1 : s[i] \in Numbers
  BY PathShape
<1>2. PICK k \in 1 .. Len(s) : Above(s, a) = SubSeq(s, 1, k - 1)
  BY <1>1, AboveIs
<1> DEFINE q == SubSeq(s, 1, k - 1)
<1> HIDE DEF s
<1>3. q \in Seq(Blocks) /\ Len(q) = k - 1 /\ \A i \in 1 .. k - 1 : q[i] = s[i]
  BY <1>1, SubSeqProperties
<1>4. \A i \in 1 .. k - 1 : q[i] \in Numbers
  BY <1>1, <1>3
<1> HIDE DEF q
<1>5. q \in Seq(Numbers)
  BY <1>3, <1>4, LenProperties, IsASeq
<1> QED BY <1>2, <1>5 DEF q, s

\* A reversed sequence has the same elements.
LEMMA ReverseType ==
  ASSUME NEW S, NEW t \in Seq(S)
  PROVE  Reverse(t) \in Seq(S)
<1> DEFINE n == Len(t)
<1>1. n \in Nat /\ \A i \in 1 .. n : t[i] \in S
  BY LenProperties, ElementOfSeq
<1>2. Reverse(t) = [i \in 1 .. n |-> t[(n - i) + 1]]
  BY DEF Reverse
<1> HIDE DEF n
<1>3. \A i \in 1 .. n : (n - i) + 1 \in 1 .. n
  BY <1>1
<1>4. Reverse(t) \in [1 .. n -> S]
  BY <1>1, <1>2, <1>3
<1> QED BY <1>1, <1>4

\* A reorganisation leaves tables, and evicts transactions.
LEMMA ReorgType ==
  ASSUME NEW p, Tree(p), NEW bodies \in Bodies, NEW from \in Blocks, NEW to \in Blocks,
         NEW st \in Tables
  PROVE  /\ Reorg(st, p, bodies, from, to) \in Tables
         /\ ReorgTxs(p, bodies, from, to) \in SUBSET Txs
<1> DEFINE old == PathTo(p, from)
           new == PathTo(p, to)
           a == Ancestor(old, new)
           q == Above(old, a)
           t == Above(new, a)
           r == Reverse(t)
<1>1. q \in Seq(Numbers) /\ t \in Seq(Numbers)
  BY AncestorIs, AboveNumbers
<1>2. r \in Seq(Numbers)
  BY <1>1, ReverseType
<1>3. Reorg(st, p, bodies, from, to) = ConnectAll(DisconnectAll(st, q), r, bodies)
  BY DEF Reorg
<1>4. ReorgTxs(p, bodies, from, to) = UNION {ToSet(bodies[b]) : b \in ToSet(t)}
  BY DEF ReorgTxs
<1> HIDE DEF old, new, a, q, t, r
<1>5. PICK h : DisconnectRun(h, st, q)
  BY <1>1, DisconnectFold
<1>6. DisconnectAll(st, q) \in Tables
  <2>1. Len(q) \in 0 .. Len(q)
    BY <1>1, LenProperties
  <2> QED BY <1>5, <2>1 DEF DisconnectRun
<1>7. PICK g : ConnectRun(g, DisconnectAll(st, q), r, bodies)
  BY <1>2, <1>6, ConnectFold DEF Bodies
<1>8. ConnectAll(DisconnectAll(st, q), r, bodies) \in Tables
  <2>1. Len(r) \in 0 .. Len(r)
    BY <1>2, LenProperties
  <2> QED BY <1>7, <2>1 DEF ConnectRun
<1>9. \A b \in ToSet(t) : b \in Numbers
  BY <1>1, LenProperties, ElementOfSeq DEF ToSet
<1>10. \A b \in Numbers : ToSet(bodies[b]) \in SUBSET Txs
  <2> SUFFICES ASSUME NEW b \in Numbers PROVE ToSet(bodies[b]) \in SUBSET Txs
    OBVIOUS
  <2>1. bodies[b] \in Seq(Txs)
    BY DEF Bodies
  <2> QED BY <2>1, LenProperties, ElementOfSeq DEF ToSet
<1>11. UNION {ToSet(bodies[b]) : b \in ToSet(t)} \in SUBSET Txs
  BY <1>9, <1>10
<1> QED BY <1>3, <1>4, <1>8, <1>11

\* The node starts with its types.
LEMMA InitShape == NodeInit => NodeShape
<1> SUFFICES ASSUME NodeInit PROVE NodeShape
  OBVIOUS
<1>1. MaxBlocks \in Nat /\ 0 \in Blocks
  BY NodeAssumption DEF Blocks
<1>2. Tree(parent)
  BY <1>1 DEF NodeInit, Tree, Numbers
<1>3. body \in Bodies
  <2>1. <<>> \in Seq(Txs)
    OBVIOUS
  <2> QED BY <2>1 DEF NodeInit, Bodies, Numbers
<1>4. HeaderShape
  BY <1>1, <1>2, <1>3 DEF NodeInit, HeaderShape
<1>5. MinerShape
  <2>1. NoSnap \in Snaps /\ NoSnap.tip = 0
    BY <1>1 DEF NoSnap, Snaps
  <2> QED BY <2>1 DEF NodeInit, MinerShape, Labels
<1>6. TableShape
  BY NodeAssumption DEF NodeInit, TableShape, Numbers, NoUndo, UndoRows
<1>7. PoolShape
  BY FS_EmptySet DEF NodeInit, PoolShape
<1> QED BY <1>4, <1>5, <1>6, <1>7 DEF NodeShape

\* A fed block holds transactions.
LEMMA PeerBodiesType == \A p : PeerBodies(p) \subseteq Seq(Txs)
<1>1. <<>> \in Seq(Txs) /\ \A tx \in Txs : <<tx>> \in Seq(Txs)
  OBVIOUS
<1> QED BY <1>1, TxAssumption DEF PeerBodies

\* What each call does to the shape, for a step by itself.
LEMMA PoolShapeSteps ==
  ASSUME PoolShape, TableShape
  PROVE  /\ \A tx \in Txs : Admit(tx) => PoolShape'
         /\ \A T \in SUBSET Txs : Evict(T) => PoolShape'
<1>1. ASSUME NEW tx \in Txs, Admit(tx) PROVE PoolShape'
  <2>1. entries' = (entries \ Conflicts(tx)) \cup {tx}
    BY <1>1 DEF Admit
  <2>2. IsFiniteSet(entries')
    BY <2>1, FS_Difference, FS_AddElement DEF PoolShape
  <2>3. spentBy' \in [Outpoints -> Txs \cup {NoTx}]
    BY <1>1 DEF Admit, IndexWithout, PoolShape
  <2> QED BY <2>1, <2>2, <2>3 DEF PoolShape
<1>2. ASSUME NEW T \in SUBSET Txs, Evict(T) PROVE PoolShape'
  <2>1. entries' = entries \ T
    BY <1>2 DEF Evict
  <2>2. IsFiniteSet(entries')
    BY <2>1, FS_Difference DEF PoolShape
  <2>3. spentBy' \in [Outpoints -> Txs \cup {NoTx}]
    BY <1>2 DEF Evict, IndexWithout, PoolShape
  <2> QED BY <2>1, <2>2, <2>3 DEF PoolShape
<1> QED BY <1>1, <1>2

\* What generate_block has read.
LEMMA SnapTxs ==
  ASSUME MinerShape, NEW m \in Miners
  PROVE  /\ snap[m] \in Snaps /\ snap[m].txs \in Seq(Txs) /\ ToSet(snap[m].txs) \in SUBSET Txs
         /\ snap[m].tip \in Blocks
<1>1. snap[m].txs \in Seq(Txs)
  BY DEF MinerShape, Snaps
<1>2. ToSet(snap[m].txs) \in SUBSET Txs
  BY <1>1, LenProperties, ElementOfSeq DEF ToSet
<1> QED BY <1>1, <1>2 DEF MinerShape, Snaps

\* The tables of the node, as one record.
Store == [utxo |-> utxo, undo |-> undo]

LEMMA StoreType == TableShape => Store \in Tables
  BY DEF TableShape, Store, Tables, Numbers

\* accept_block as the rest of the proofs need it: a header, tables, an eviction.
LEMMA AcceptStep ==
  ASSUME NodeShape, NEW p \in 0 .. count, NEW w \in Works, NEW txs \in PeerBodies(p),
         AcceptBlock(p, w, txs)
  PROVE  /\ w \in Nat \ {0} /\ txs \in Seq(Txs) /\ HeaderShape' /\ ConnectHeader(p, w, txs)
         /\ TableShape' /\ \E T \in SUBSET Txs : Evict(T)
         /\ UNCHANGED minerVars
<1>1. txs \in Seq(Txs) /\ w \in Nat \ {0} /\ ConnectHeader(p, w, txs)
  BY PeerBodiesType, NodeAssumption DEF AcceptBlock
<1>2. HeaderShape' /\ count' = count + 1 /\ count + 1 \in Numbers
  BY <1>1, HeaderStep DEF NodeShape
<1>3. Tree(parent') /\ body' \in Bodies /\ tip \in Blocks /\ count + 1 \in Blocks
  BY <1>2, BlocksFacts, NodeAssumption DEF NodeShape, HeaderShape, Blocks, Numbers
<1>4. CASE tip' # count + 1
  <2>1. UNCHANGED <<utxo, pool, undo>>
    BY <1>4 DEF AcceptBlock
  <2>2. Evict({})
    BY <2>1 DEF Evict, IndexWithout, NodeShape, PoolShape, pool
  <2> QED BY <1>1, <1>2, <2>1, <2>2 DEF NodeShape, TableShape, AcceptBlock
<1>5. CASE tip' = count + 1
  <2> DEFINE st == Reorg(Store, parent', body', tip, count + 1)
             T == ReorgTxs(parent', body', tip, count + 1)
  <2>1. st \in Tables /\ T \in SUBSET Txs
    BY <1>3, StoreType, ReorgType DEF NodeShape
  <2>2. utxo' = st.utxo /\ undo' = st.undo /\ Evict(T)
    BY <1>5 DEF AcceptBlock, Store
  <2> HIDE DEF st, T
  <2>3. TableShape'
    BY <2>1, <2>2 DEF TableShape, Tables, Numbers
  <2> QED BY <1>1, <1>2, <2>1, <2>2, <2>3 DEF AcceptBlock
<1> QED BY <1>4, <1>5

\* Evicting the mined transactions one by one: the first, and the rest.
LEMMA MinedHead ==
  ASSUME MinerShape, NEW m \in Miners, snap[m].txs # <<>>
  PROVE  /\ Head(snap[m].txs) \in Txs /\ Tail(snap[m].txs) \in Seq(Txs)
         /\ ToSet(snap[m].txs) = {Head(snap[m].txs)} \cup ToSet(Tail(snap[m].txs))
<1> DEFINE s == snap[m].txs
<1>1. s \in Seq(Txs)
  BY SnapTxs
<1> HIDE DEF s
<1>2. /\ Head(s) \in Txs /\ Tail(s) \in Seq(Txs) /\ Head(s) = s[1]
      /\ Len(s) \in Nat \ {0} /\ Len(Tail(s)) = Len(s) - 1
      /\ \A i \in 1 .. Len(s) - 1 : Tail(s)[i] = s[i + 1]
  <2>1. s # <<>>
    BY DEF s
  <2> QED BY <1>1, <2>1, HeadTailProperties, EmptySeq, LenProperties
<1>3. ToSet(s) = {s[i] : i \in 1 .. Len(s)}
      /\ ToSet(Tail(s)) = {Tail(s)[i] : i \in 1 .. Len(s) - 1}
  BY <1>1, <1>2, LenProperties DEF ToSet
<1>4. \A i \in 1 .. Len(s) : i = 1 \/ (i - 1 \in 1 .. Len(s) - 1 /\ Tail(s)[i - 1] = s[i])
  BY <1>2
<1>5. \A i \in 1 .. Len(s) - 1 : i + 1 \in 1 .. Len(s)
  BY <1>2
<1>6. ToSet(s) = {Head(s)} \cup ToSet(Tail(s))
  <2>1. ASSUME NEW i \in 1 .. Len(s) PROVE s[i] = Head(s) \/ s[i] \in ToSet(Tail(s))
    <3>1. CASE i = 1
      BY <1>2, <3>1
    <3>2. CASE i # 1
      BY <1>3, <1>4, <3>2
    <3> QED BY <3>1, <3>2
  <2>2. ASSUME NEW i \in 1 .. Len(s) - 1 PROVE Tail(s)[i] \in ToSet(s)
    <3>1. Tail(s)[i] = s[i + 1]
      BY <1>2
    <3> QED BY <1>3, <1>5, <3>1
  <2>3. Head(s) \in ToSet(s)
    BY <1>2, <1>3
  <2>4. ToSet(s) \subseteq {Head(s)} \cup ToSet(Tail(s))
    BY <1>3, <2>1
  <2>5. ToSet(Tail(s)) \subseteq ToSet(s)
    BY <1>3, <2>2
  <2> QED BY <2>3, <2>4, <2>5
<1> QED BY <1>2, <1>6 DEF s

\* Every step of every thread keeps the types.
LEMMA ShapeStep ==
  ASSUME NodeShape, [NodeNext]_nodeVars
  PROVE  NodeShape'
<1>1. ASSUME NEW tx \in Txs, SubmitTx(tx) PROVE NodeShape'
  <2>1. PoolShape'
    BY <1>1, PoolShapeSteps DEF SubmitTx, NodeShape
  <2>2. HeaderShape' /\ MinerShape' /\ TableShape'
    BY <1>1 DEF SubmitTx, Admit, NodeShape, HeaderShape, MinerShape, TableShape, headerVars, minerVars, Tree
  <2> QED BY <2>1, <2>2 DEF NodeShape
<1>2. ASSUME NEW m \in Miners, GenSnapshot(m) PROVE NodeShape'
  <2>1. PICK txs \in SetToSeqs(entries) : snap' = [snap EXCEPT ![m] = [tip |-> tip, txs |-> txs]]
    BY <1>2 DEF GenSnapshot
  <2>2. txs \in Seq(Txs)
    <3>1. txs \in Seq(entries)
      BY OrderLists DEF NodeShape, PoolShape
    <3> QED BY <3>1 DEF NodeShape, PoolShape
  <2>3. tip \in Blocks /\ tip <= count
    BY NodeAssumption DEF NodeShape, HeaderShape, Blocks
  <2>4. [tip |-> tip, txs |-> txs] \in Snaps
    BY <2>2, <2>3 DEF Snaps
  <2>5. pc' = [pc EXCEPT ![m] = "connect"] /\ count' = count
    BY <1>2 DEF GenSnapshot, headerVars
  <2>6. MinerShape'
    BY <2>1, <2>3, <2>4, <2>5 DEF NodeShape, MinerShape, Labels
  <2>7. HeaderShape' /\ PoolShape' /\ TableShape'
    BY <1>2 DEF GenSnapshot, NodeShape, HeaderShape, PoolShape, TableShape, headerVars, pool, Tree
  <2> QED BY <2>6, <2>7 DEF NodeShape
<1>3. ASSUME NEW m \in Miners, GenInsertHeader(m) PROVE NodeShape'
  <2>1. snap[m].tip \in 0 .. count /\ snap[m].txs \in Seq(Txs)
    <3>1. snap[m].tip \in Blocks /\ snap[m].tip <= count /\ snap[m].txs \in Seq(Txs) /\ count \in Blocks
      BY SnapTxs DEF NodeShape, MinerShape, HeaderShape
    <3>2. snap[m].tip \in Nat /\ count \in Nat
      BY <3>1, BlocksFacts
    <3> QED BY <3>1, <3>2
  <2>2. InsertHeader(snap[m].tip, 1, snap[m].txs)
    BY <1>3 DEF GenInsertHeader
  <2>3. HeaderShape' /\ count' = count + 1 /\ count + 1 \in Numbers
    <3>1. tip' \in 0 .. count + 1
      BY <1>3, BlocksFacts DEF GenInsertHeader, NodeShape, HeaderShape
    <3> QED BY <2>1, <2>2, <3>1, InsertStep DEF NodeShape
  <2>4. /\ snap' = [snap EXCEPT ![m].tip = count + 1]
        /\ \E l \in {"settip", "apply"} : pc' = [pc EXCEPT ![m] = l]
    BY <1>3, <2>3 DEF GenInsertHeader
  <2>5. count \in Nat /\ count + 1 \in Blocks /\ count + 1 # 0 /\ \A x \in Blocks : x <= count => x <= count + 1
    BY <2>3, BlocksFacts DEF NodeShape, HeaderShape
  <2>6. [snap[m] EXCEPT !.tip = count + 1] \in Snaps /\ [snap[m] EXCEPT !.tip = count + 1].tip = count + 1
    BY <2>5, SnapTxs DEF NodeShape, Snaps
  <2>7. /\ snap' \in [Miners -> Snaps] /\ snap'[m].tip = count + 1
        /\ \A x \in Miners : x # m => snap'[x] = snap[x]
    BY <2>4, <2>6 DEF NodeShape, MinerShape
  <2>8. /\ pc' \in [Miners -> Labels]
        /\ \A x \in Miners : x # m => pc'[x] = pc[x]
    BY <2>4 DEF NodeShape, MinerShape, Labels
  <2>9. ASSUME NEW x \in Miners PROVE snap'[x].tip <= count' /\ (pc'[x] \in {"settip", "apply"} => snap'[x].tip # 0)
    <3>1. CASE x = m
      BY <2>3, <2>5, <2>7, <3>1
    <3>2. CASE x # m
      <4>1. snap'[x].tip = snap[x].tip /\ pc'[x] = pc[x] /\ snap[x].tip \in Blocks /\ snap[x].tip <= count
        BY <2>7, <2>8, <3>2, SnapTxs DEF NodeShape, MinerShape
      <4> QED BY <2>3, <2>5, <4>1 DEF NodeShape, MinerShape
    <3> QED BY <3>1, <3>2
  <2>10. MinerShape'
    BY <2>7, <2>8, <2>9 DEF MinerShape
  <2>11. PoolShape' /\ TableShape'
    BY <1>3 DEF GenInsertHeader, NodeShape, PoolShape, TableShape, pool
  <2> QED BY <2>3, <2>10, <2>11 DEF NodeShape
<1>8. ASSUME NEW m \in Miners, GenSetTip(m) PROVE NodeShape'
  <2>1. snap[m].tip \in 0 .. count
    <3>1. snap[m].tip \in Blocks /\ snap[m].tip <= count /\ count \in Blocks
      BY SnapTxs DEF NodeShape, MinerShape, HeaderShape
    <3>2. snap[m].tip \in Nat /\ count \in Nat
      BY <3>1, BlocksFacts
    <3> QED BY <3>1, <3>2
  <2>2. HeaderShape'
    BY <1>8, <2>1 DEF GenSetTip, NodeShape, HeaderShape, Tree
  <2>3. MinerShape'
    BY <1>8 DEF GenSetTip, NodeShape, MinerShape, Labels
  <2>4. PoolShape' /\ TableShape'
    BY <1>8 DEF GenSetTip, NodeShape, PoolShape, TableShape, pool
  <2> QED BY <2>2, <2>3, <2>4 DEF NodeShape
<1>4. ASSUME NEW m \in Miners, GenConnectUtxos(m) PROVE NodeShape'
  <2> DEFINE st == ConnectBlock(Store, snap[m].tip, snap[m].txs)
  <2>1. snap[m].tip \in Numbers /\ snap[m].txs \in Seq(Txs)
    BY <1>4, SnapTxs, BlocksFacts DEF NodeShape, MinerShape, GenConnectUtxos
  <2>2. st \in Tables
    BY <2>1, StoreType, BlockStepsType DEF NodeShape
  <2>3. utxo' = st.utxo /\ undo' = st.undo /\ pc' = [pc EXCEPT ![m] = "evict"]
    BY <1>4 DEF GenConnectUtxos, Store
  <2> HIDE DEF st
  <2>4. TableShape'
    BY <2>2, <2>3 DEF TableShape, Tables, Numbers
  <2>5. MinerShape'
    BY <1>4, <2>3 DEF GenConnectUtxos, NodeShape, MinerShape, Labels, headerVars
  <2>6. HeaderShape' /\ PoolShape'
    BY <1>4 DEF GenConnectUtxos, NodeShape, HeaderShape, PoolShape, headerVars, pool, Tree
  <2> QED BY <2>4, <2>5, <2>6 DEF NodeShape
<1>5. ASSUME NEW m \in Miners, GenEvict(m) PROVE NodeShape'
  <2>1. PoolShape'
    BY <1>5, PoolShapeSteps, MinedHead DEF NodeShape, GenEvict
  <2>2. [snap[m] EXCEPT !.txs = Tail(@)] \in Snaps
    BY <1>5, SnapTxs, MinedHead DEF NodeShape, Snaps, GenEvict
  <2>3. MinerShape'
    BY <1>5, <2>2 DEF GenEvict, NodeShape, MinerShape, Labels, Snaps, headerVars
  <2>4. HeaderShape' /\ TableShape'
    BY <1>5 DEF GenEvict, NodeShape, HeaderShape, TableShape, headerVars, Tree
  <2> QED BY <2>1, <2>3, <2>4 DEF NodeShape
<1>9. ASSUME NEW m \in Miners, GenReturn(m) PROVE NodeShape'
  <2>1. NoSnap \in Snaps /\ NoSnap.tip = 0 /\ count \in Nat
    BY BlocksFacts DEF NoSnap, Snaps, NodeShape, HeaderShape
  <2>2. MinerShape'
    BY <1>9, <2>1 DEF GenReturn, NodeShape, MinerShape, Labels, headerVars
  <2>3. HeaderShape' /\ TableShape' /\ PoolShape'
    BY <1>9 DEF GenReturn, NodeShape, HeaderShape, TableShape, PoolShape, headerVars, pool, Tree
  <2> QED BY <2>2, <2>3 DEF NodeShape
<1>6. ASSUME NEW p \in 0 .. count, NEW w \in Works, NEW txs \in PeerBodies(p),
             AcceptBlock(p, w, txs)
      PROVE  NodeShape'
  <2>1. HeaderShape' /\ TableShape' /\ UNCHANGED minerVars
    BY <1>6, AcceptStep
  <2>2. PoolShape'
    BY <1>6, AcceptStep, PoolShapeSteps DEF NodeShape
  <2>3. count' = count + 1 /\ count \in Nat
    BY <1>6, BlocksFacts DEF AcceptBlock, ConnectHeader, InsertHeader, NodeShape, HeaderShape
  <2>4. MinerShape'
    <3>1. \A m \in Miners : snap[m].tip \in Nat
      BY SnapTxs, BlocksFacts DEF NodeShape
    <3>2. \A m \in Miners : snap[m].tip <= count'
      BY <2>3, <3>1 DEF NodeShape, MinerShape
    <3> QED BY <2>1, <3>2 DEF NodeShape, MinerShape, minerVars
  <2> QED BY <2>1, <2>2, <2>4 DEF NodeShape
<1>7. CASE UNCHANGED nodeVars
  BY <1>7 DEF nodeVars, NodeShape, HeaderShape, MinerShape, TableShape, PoolShape, headerVars,
              minerVars, pool, Tree
<1> QED BY <1>1, <1>2, <1>3, <1>4, <1>5, <1>6, <1>7, <1>8, <1>9 DEF NodeNext, Generate

LEMMA NodeShapeInvariant == NodeSpec => []NodeShape
  BY InitShape, ShapeStep, PTL DEF NodeSpec

-----------------------------------------------------------------------------
(***************************************************************************)
(* The node uses the pool as Mempool says.                                 *)
(***************************************************************************)
LEMMA PoolStepOfNode ==
  ASSUME NodeShape, NodeShape', [NodeNext]_nodeVars
  PROVE  [PoolNext]_<<utxo, pool>>
<1>1. ASSUME NEW T \in SUBSET Txs, Evict(T) PROVE PoolNext
  BY <1>1 DEF PoolNext, StoreChanges, NodeShape, TableShape
<1>2. Evict({}) \/ ~UNCHANGED pool
  BY DEF Evict, IndexWithout, NodeShape, PoolShape, pool
<1>3. ASSUME UNCHANGED pool PROVE PoolNext
  BY <1>1, <1>2, <1>3
<1>4. CASE \E tx \in Txs : SubmitTx(tx)
  BY <1>4 DEF SubmitTx, PoolNext
<1>5. ASSUME NEW m \in Miners, Generate(m), ~GenEvict(m) PROVE PoolNext
  BY <1>3, <1>5 DEF Generate, GenSnapshot, GenInsertHeader, GenSetTip, GenConnectUtxos, GenReturn
<1>6. CASE \E m \in Miners : GenEvict(m)
  BY <1>1, <1>6, MinedHead DEF GenEvict, NodeShape
<1>7. ASSUME NEW p \in 0 .. count, NEW w \in Works, NEW txs \in PeerBodies(p),
             AcceptBlock(p, w, txs)
      PROVE  PoolNext
  BY <1>1, <1>7, AcceptStep
<1>8. CASE UNCHANGED nodeVars
  BY <1>8 DEF nodeVars
<1> QED BY <1>4, <1>5, <1>6, <1>7, <1>8 DEF NodeNext

\* The node implements the pool's specification: between submissions and foreign
\* blocks, which come one at a time, the steps of any number of generate_block
\* requests interleave, down to single evictions, and the pool still changes
\* only by admit and evict, so what is proved of Mempool holds inside the node.
THEOREM NodeUsesMempool == NodeSpec => UsesMempool
<1>1. NodeInit => PoolInit
  BY NodeAssumption DEF NodeInit, PoolInit
<1>2. ASSUME NodeShape, NodeShape', [NodeNext]_nodeVars
      PROVE  [PoolNext]_<<utxo, pool>>
  BY <1>2, PoolStepOfNode
<1> QED BY <1>1, <1>2, NodeShapeInvariant, PTL DEF NodeSpec, UsesMempool, PoolSpec

-----------------------------------------------------------------------------
(***************************************************************************)
(* One call at a time: the tables follow the tip.                          *)
(***************************************************************************)
\* A new header disturbs neither the paths nor the replays of older blocks.
LEMMA SyncedExtends ==
  ASSUME NEW p, Tree(p), NEW q, Tree(q), NEW bp \in Bodies, NEW bq \in Bodies,
         NEW c \in Blocks, NEW d \in Blocks, c <= d,
         \A x \in 1 .. c : p[x] = q[x] /\ bp[x] = bq[x],
         NEW y \in 0 .. c, NEW st, Synced(st, p, bp, y, c)
  PROVE  Synced(st, q, bq, y, d)
<1>1. \A x \in 0 .. c : PathTo(p, x) = PathTo(q, x) /\ ReplayOf(p, bp, x) = ReplayOf(q, bq, x)
  BY SharedBranch
<1>2. c \in Nat /\ d \in Nat /\ y \in Blocks
  BY BlocksFacts, NodeAssumption DEF Blocks
<1>3. \A x \in 1 .. c : x \in Numbers /\ p[x] \in 0 .. c /\ x \in 1 .. d
  <2> SUFFICES ASSUME NEW x \in 1 .. c PROVE x \in Numbers /\ p[x] \in 0 .. c /\ x \in 1 .. d
    OBVIOUS
  <2>1. x \in Numbers
    BY NodeAssumption DEF Blocks, Numbers
  <2>2. p[x] \in Nat /\ p[x] < x
    BY <2>1, BlocksFacts DEF Tree
  <2> QED BY <1>2, <2>1, <2>2
<1>4. Fresh(q, bq, d) => Fresh(p, bp, c)
  <2> SUFFICES ASSUME Fresh(q, bq, d), NEW x \in 1 .. c
               PROVE  (Outputs(bp[x]) \cup {x}) \cap ReplayOf(p, bp, p[x]) = {}
    BY DEF Fresh
  <2>1. (Outputs(bq[x]) \cup {x}) \cap ReplayOf(q, bq, q[x]) = {}
    BY <1>3 DEF Fresh
  <2>2. bp[x] = bq[x] /\ p[x] = q[x] /\ ReplayOf(p, bp, p[x]) = ReplayOf(q, bq, p[x])
    BY <1>1, <1>3
  <2> QED BY <2>1, <2>2
<1>5. \A x \in Numbers : x \in ToSet(PathTo(p, y)) => UndoRow(p, bp, x) = UndoRow(q, bq, x)
  <2> SUFFICES ASSUME NEW x \in Numbers, x \in ToSet(PathTo(p, y))
               PROVE  UndoRow(p, bp, x) = UndoRow(q, bq, x)
    OBVIOUS
  <2>1. x <= y
    BY <1>2, PathSet
  <2>2. x \in 1 .. c
    BY <1>2, <2>1 DEF Numbers
  <2>3. bp[x] = bq[x] /\ p[x] = q[x] /\ ReplayOf(p, bp, p[x]) = ReplayOf(q, bq, p[x])
    BY <1>1, <1>3, <2>2
  <2> QED BY <2>3 DEF UndoRow
<1> QED BY <1>1, <1>4, <1>5 DEF Synced

\* Some generate_block has stored its block and not yet applied it.
AnyApply == \E m \in Miners : pc[m] = "apply"

\* With one call at a time: at most one miner is inside generate_block, it works
\* on the tip it read, which its new block is to replace or has replaced, and the
\* tables match the tip, or its parent while the new block is to be applied.
Serial ==
    /\ \A m, n \in Miners : pc[m] # "idle" /\ pc[n] # "idle" => m = n
    /\ \A m \in Miners : pc[m] = "connect" => snap[m].tip = tip
    /\ \A m \in Miners : pc[m] = "settip" =>
         snap[m].tip = count /\ parent[count] = tip /\ body[count] = snap[m].txs
    /\ \A m \in Miners : pc[m] = "apply" =>
         /\ snap[m].tip = tip /\ body[tip] = snap[m].txs
         /\ Synced(Store, parent, body, parent[tip], count)
    /\ ~AnyApply => Synced(Store, parent, body, tip, count)

LEMMA InitSerial == NodeInit => Serial
<1> SUFFICES ASSUME NodeInit PROVE Serial
  OBVIOUS
<1>1. NodeShape
  BY InitShape
<1>2. tip = 0 /\ count = 0 /\ utxo = Coins /\ Tree(parent) /\ body \in Bodies
  BY <1>1 DEF NodeInit, NodeShape, HeaderShape
<1>3. ToSet(PathTo(parent, 0)) = {0} /\ ReplayOf(parent, body, 0) = Coins
  BY <1>2, PathSet, ReplayRecursive
<1>4. Store \in Tables /\ Store.utxo = Coins
  BY <1>1, <1>2, StoreType DEF NodeShape, Store
<1>5. \A x \in Numbers : ~Store.undo[x].connected /\ x \notin {0}
  BY BlocksFacts DEF NodeInit, Store, NoUndo, Numbers
<1>6. Synced(Store, parent, body, tip, count)
  BY <1>2, <1>3, <1>4, <1>5 DEF Synced
<1> QED BY <1>6 DEF NodeInit, Serial

\* Every step keeps the tables in step with the tip.
LEMMA SerialStep ==
  ASSUME ~Concurrent, NodeShape, NodeShape', Serial, [NodeNext]_nodeVars
  PROVE  Serial'
<1>0. /\ count \in Blocks /\ tip \in 0 .. count /\ Tree(parent) /\ body \in Bodies
      /\ count \in Nat /\ cumwork[tip] \in Nat /\ tip \in Blocks
  BY BlocksFacts, NodeAssumption DEF NodeShape, HeaderShape, Blocks
<1>1. ASSUME UNCHANGED <<utxo, undo, headerVars, minerVars>> PROVE Serial'
  <2>1. Store' = Store
    BY <1>1 DEF Store
  <2> QED BY <1>1, <2>1 DEF Serial, AnyApply, headerVars, minerVars
<1>2. CASE \E tx \in Txs : SubmitTx(tx)
  BY <1>1, <1>2 DEF SubmitTx, Admit
<1>3. ASSUME NEW m \in Miners, GenSnapshot(m) PROVE Serial'
  <2>1. Idle /\ UNCHANGED <<Store, headerVars>>
    BY <1>3 DEF GenSnapshot, Store
  <2>2. pc' = [pc EXCEPT ![m] = "connect"] /\ pc \in [Miners -> Labels]
    BY <1>3 DEF GenSnapshot, NodeShape, MinerShape
  <2>3. snap'[m].tip = tip
    BY <1>3 DEF GenSnapshot, NodeShape, MinerShape
  <2>4. Synced(Store, parent, body, tip, count)
    BY <2>1 DEF Serial, Idle, AnyApply
  <2>5. \A x \in Miners : pc'[x] = IF x = m THEN "connect" ELSE "idle"
    BY <2>1, <2>2 DEF Idle
  <2> QED BY <2>1, <2>3, <2>4, <2>5 DEF Serial, AnyApply, headerVars
<1>4. ASSUME NEW m \in Miners, GenInsertHeader(m) PROVE Serial'
  <2>1. pc[m] = "connect" /\ snap[m].tip = tip /\ \A n \in Miners : n # m => pc[n] = "idle"
    BY <1>4 DEF GenInsertHeader, Serial
  <2>2. snap[m].txs \in Seq(Txs) /\ snap[m] \in Snaps
    BY SnapTxs DEF NodeShape
  <2>3. InsertHeader(tip, 1, snap[m].txs)
    BY <1>4, <2>1 DEF GenInsertHeader
  <2>4. /\ count' = count + 1 /\ count + 1 \in Numbers /\ HeaderShape' /\ tip' = tip
        /\ parent'[count + 1] = tip /\ body'[count + 1] = snap[m].txs
        /\ \A x \in 1 .. count : parent'[x] = parent[x] /\ body'[x] = body[x]
    BY <1>0, <1>4, <2>2, <2>3, InsertStep DEF NodeShape, GenInsertHeader
  <2>6. /\ pc' = [pc EXCEPT ![m] = "settip"] /\ snap' = [snap EXCEPT ![m].tip = count + 1]
        /\ Store' = Store
    <3>1. Overtakes(cumwork[snap[m].tip] + 1)
      BY <1>0, <2>1 DEF Overtakes
    <3> QED BY <1>4, <2>4, <3>1 DEF GenInsertHeader, Store
  <2>7. /\ \A x \in Miners : pc'[x] = IF x = m THEN "settip" ELSE "idle"
        /\ snap'[m].tip = count + 1 /\ snap'[m].txs = snap[m].txs
    BY <2>1, <2>2, <2>6 DEF NodeShape, MinerShape, Snaps
  <2>8. Synced(Store, parent, body, tip, count)
    BY <2>1 DEF Serial, AnyApply
  <2>9. Tree(parent') /\ body' \in Bodies /\ count' \in Blocks /\ count <= count'
    BY <1>0, <2>4 DEF HeaderShape
  <2>10. Synced(Store, parent', body', tip, count')
    <3>1. \A x \in 1 .. count : parent[x] = parent'[x] /\ body[x] = body'[x]
      BY <2>4
    <3> QED BY <1>0, <2>8, <2>9, <3>1, SyncedExtends
  <2>11. parent'[count'] = tip /\ body'[count'] = snap'[m].txs /\ snap'[m].tip = count'
    BY <2>4, <2>7
  <2> QED BY <2>4, <2>6, <2>7, <2>10, <2>11 DEF Serial, AnyApply
<1>9. ASSUME NEW m \in Miners, GenSetTip(m) PROVE Serial'
  <2>1. /\ pc[m] = "settip" /\ snap[m].tip = count /\ parent[count] = tip /\ body[count] = snap[m].txs
        /\ \A n \in Miners : n # m => pc[n] = "idle"
    BY <1>9 DEF GenSetTip, Serial
  <2>2. Synced(Store, parent, body, tip, count)
    BY <2>1 DEF Serial, AnyApply
  <2>3. /\ tip' = count /\ pc' = [pc EXCEPT ![m] = "apply"]
        /\ UNCHANGED <<Store, parent, body, count, snap>>
    BY <1>9, <2>1 DEF GenSetTip, Store
  <2>4. \A x \in Miners : pc'[x] = IF x = m THEN "apply" ELSE "idle"
    BY <2>1, <2>3 DEF NodeShape, MinerShape
  <2> QED BY <2>1, <2>2, <2>3, <2>4 DEF Serial, AnyApply
<1>5. ASSUME NEW m \in Miners, GenConnectUtxos(m) PROVE Serial'
  <2>1. /\ pc[m] = "apply" /\ snap[m].tip = tip /\ body[tip] = snap[m].txs
        /\ Synced(Store, parent, body, parent[tip], count)
        /\ \A n \in Miners : n # m => pc[n] = "idle"
    BY <1>5 DEF GenConnectUtxos, Serial
  <2>2. tip \in Numbers
    BY <1>0, <2>1, BlocksFacts DEF NodeShape, MinerShape
  <2> DEFINE st == ConnectBlock(Store, tip, body[tip])
  <2>3. Synced(st, parent, body, tip, count)
    BY <1>0, <2>1, <2>2, ConnectStep
  <2>4. st \in Tables
    BY <2>3 DEF Synced
  <2>5. utxo' = st.utxo /\ undo' = st.undo /\ pc' = [pc EXCEPT ![m] = "evict"]
        /\ UNCHANGED <<headerVars, snap>>
    BY <1>5, <2>1 DEF GenConnectUtxos, Store
  <2> HIDE DEF st
  <2>6. Store' = st
    BY <2>4, <2>5 DEF Store, Tables
  <2>7. \A x \in Miners : pc'[x] = IF x = m THEN "evict" ELSE "idle"
    BY <2>1, <2>5 DEF NodeShape, MinerShape
  <2> QED BY <2>3, <2>5, <2>6, <2>7 DEF Serial, AnyApply, headerVars
<1>6. ASSUME NEW m \in Miners, GenEvict(m) PROVE Serial'
  <2>1. pc[m] = "evict" /\ \A n \in Miners : n # m => pc[n] = "idle"
    BY <1>6 DEF GenEvict, Serial
  <2>2. Synced(Store, parent, body, tip, count)
    BY <2>1 DEF Serial, AnyApply
  <2>3. UNCHANGED <<pc, Store, headerVars>>
    BY <1>6 DEF GenEvict, Store
  <2> QED BY <2>1, <2>2, <2>3 DEF Serial, AnyApply, headerVars
<1>10. ASSUME NEW m \in Miners, GenReturn(m) PROVE Serial'
  <2>1. pc[m] = "evict" /\ \A n \in Miners : n # m => pc[n] = "idle"
    BY <1>10 DEF GenReturn, Serial
  <2>2. Synced(Store, parent, body, tip, count)
    BY <2>1 DEF Serial, AnyApply
  <2>3. pc' = [pc EXCEPT ![m] = "idle"] /\ UNCHANGED <<Store, headerVars>>
    BY <1>10 DEF GenReturn, Store
  <2>4. \A x \in Miners : pc'[x] = "idle"
    BY <2>1, <2>3 DEF NodeShape, MinerShape
  <2> QED BY <2>2, <2>3, <2>4 DEF Serial, AnyApply, headerVars
<1>7. ASSUME NEW p \in 0 .. count, NEW w \in Works, NEW txs \in PeerBodies(p),
             AcceptBlock(p, w, txs)
      PROVE  Serial'
  <2>1. /\ w \in Nat /\ txs \in Seq(Txs) /\ ConnectHeader(p, w, txs) /\ UNCHANGED minerVars /\ Idle
    BY <1>7, AcceptStep DEF AcceptBlock
  <2>2. /\ count' = count + 1 /\ count + 1 \in Numbers /\ HeaderShape'
        /\ \A x \in 1 .. count : parent'[x] = parent[x] /\ body'[x] = body[x]
    BY <2>1, HeaderStep DEF NodeShape
  <2>3. Synced(Store, parent, body, tip, count)
    BY <2>1 DEF Serial, AnyApply, Idle
  <2>4. Tree(parent') /\ body' \in Bodies /\ count' \in Blocks /\ count <= count' /\ count + 1 \in Blocks
    BY <1>0, <2>2 DEF HeaderShape
  <2>5. Synced(Store, parent', body', tip, count')
    BY <1>0, <2>2, <2>3, <2>4, SyncedExtends
  <2>6. Synced(Store', parent', body', tip', count')
    <3>1. CASE tip' # count + 1
      <4>1. tip' = tip
        BY <2>1, <2>2, <3>1 DEF ConnectHeader
      <4>2. Store' = Store
        BY <1>7, <3>1 DEF AcceptBlock, Store
      <4> QED BY <2>5, <4>1, <4>2
    <3>2. CASE tip' = count + 1
      <4> DEFINE st == Reorg(Store, parent', body', tip, count + 1)
      <4>1. utxo' = st.utxo /\ undo' = st.undo
        BY <1>7, <3>2 DEF AcceptBlock, Store
      <4>2. tip \in 0 .. count'
        BY <1>0, <2>2
      <4>3. Synced(st, parent', body', count + 1, count')
        BY <2>4, <2>5, <4>2, ReorgStep
      <4>4. st \in Tables
        BY <4>3 DEF Synced
      <4> HIDE DEF st
      <4>5. Store' = st
        BY <4>1, <4>4 DEF Store, Tables
      <4> QED BY <3>2, <4>3, <4>5
    <3> QED BY <3>1, <3>2
  <2>7. \A x \in Miners : pc'[x] = "idle"
    BY <2>1 DEF Idle, minerVars
  <2> QED BY <2>6, <2>7 DEF Serial, AnyApply
<1>8. CASE UNCHANGED nodeVars
  BY <1>1, <1>8 DEF nodeVars
<1> QED BY <1>2, <1>3, <1>4, <1>5, <1>6, <1>7, <1>8, <1>9, <1>10 DEF NodeNext, Generate

LEMMA SerialInvariant == ASSUME ~Concurrent PROVE NodeSpec => []Serial
<1>1. ASSUME NodeShape, NodeShape', Serial, [NodeNext]_nodeVars PROVE Serial'
  BY <1>1, SerialStep
<1> QED BY <1>1, InitSerial, NodeShapeInvariant, PTL DEF NodeSpec

\* The headers that no running generate_block has inserted and is about to make
\* the tip.
Standing == {b \in 0 .. count : \A m \in Miners : pc[m] = "settip" => snap[m].tip # b}

\* The tip is the best of them, and the one about to become the tip is better.
BestStanding ==
    /\ \A b \in Standing : cumwork[b] <= cumwork[tip] /\ (cumwork[b] = cumwork[tip] => tip <= b)
    /\ \A m \in Miners : pc[m] = "settip" => cumwork[snap[m].tip] > cumwork[tip]

LEMMA BestStep ==
  ASSUME ~Concurrent, NodeShape, Serial, BestStanding, [NodeNext]_nodeVars
  PROVE  BestStanding'
<1>0. /\ count \in Nat /\ tip \in 0 .. count /\ tip \in Nat
      /\ \A x \in 0 .. count : x \in Nat /\ x <= count /\ cumwork[x] \in Nat
      /\ pc \in [Miners -> Labels] /\ snap \in [Miners -> Snaps]
  BY NodeAssumption DEF NodeShape, HeaderShape, MinerShape, Blocks
<1>1. ASSUME UNCHANGED headerVars, \A m \in Miners : pc[m] # "settip" /\ pc'[m] # "settip"
      PROVE  BestStanding'
  BY <1>1 DEF BestStanding, Standing, headerVars
<1>2. ASSUME UNCHANGED headerVars, UNCHANGED minerVars PROVE BestStanding'
  BY <1>2 DEF BestStanding, Standing, headerVars, minerVars
<1>3. ASSUME NEW m \in Miners, GenInsertHeader(m) PROVE BestStanding'
  <2>1. pc[m] = "connect" /\ snap[m].tip = tip /\ \A n \in Miners : n # m => pc[n] = "idle"
    BY <1>3 DEF GenInsertHeader, Serial
  <2>2. snap[m].txs \in Seq(Txs) /\ InsertHeader(tip, 1, snap[m].txs) /\ tip' = tip
    BY <1>3, <2>1, SnapTxs DEF GenInsertHeader, NodeShape
  <2>3. /\ count' = count + 1 /\ cumwork'[count + 1] = cumwork[tip] + 1
        /\ \A x \in 0 .. count : cumwork'[x] = cumwork[x]
    BY <1>0, <2>2, InsertStep DEF NodeShape
  <2>4. /\ pc' = [pc EXCEPT ![m] = "settip"] /\ snap' = [snap EXCEPT ![m].tip = count + 1]
    <3>1. Overtakes(cumwork[snap[m].tip] + 1)
      BY <1>0, <2>1 DEF Overtakes
    <3> QED BY <1>3, <2>3, <3>1 DEF GenInsertHeader
  <2>5. pc'[m] = "settip" /\ snap'[m].tip = count + 1 /\ \A n \in Miners : n # m => pc'[n] = "idle"
    BY <1>0, <2>1, <2>4 DEF Snaps
  <2>6. \A b \in 0 .. count + 1 : b = count + 1 \/ b \in 0 .. count
    BY <1>0
  <2>7. Standing' \subseteq 0 .. count
    BY <2>3, <2>5, <2>6 DEF Standing
  <2>8. 0 .. count \subseteq Standing
    BY <2>1 DEF Standing
  <2>9. \A b \in 0 .. count : cumwork[b] <= cumwork[tip] /\ (cumwork[b] = cumwork[tip] => tip <= b)
    BY <2>8 DEF BestStanding
  <2>10. \A b \in Standing' : cumwork'[b] <= cumwork'[tip'] /\ (cumwork'[b] = cumwork'[tip'] => tip' <= b)
    BY <1>0, <2>2, <2>3, <2>7, <2>9
  <2>11. cumwork'[count + 1] > cumwork'[tip']
    BY <1>0, <2>2, <2>3
  <2>12. \A n \in Miners : pc'[n] = "settip" => cumwork'[snap'[n].tip] > cumwork'[tip']
    BY <2>5, <2>11
  <2> QED BY <2>10, <2>12 DEF BestStanding
<1>4. ASSUME NEW m \in Miners, GenSetTip(m) PROVE BestStanding'
  <2>1. /\ pc[m] = "settip" /\ snap[m].tip = count /\ \A n \in Miners : n # m => pc[n] = "idle"
        /\ tip' = count /\ UNCHANGED <<cumwork, count, snap>>
    BY <1>4 DEF GenSetTip, Serial
  <2>2. \A n \in Miners : pc'[n] # "settip"
    BY <1>0, <1>4, <2>1 DEF GenSetTip
  <2>3. \A b \in 0 .. count : b # count => b \in Standing
    BY <2>1 DEF Standing
  <2>4. cumwork[count] > cumwork[tip] /\ count \in 0 .. count
    BY <1>0, <2>1 DEF BestStanding
  <2>5. \A b \in 0 .. count : b # count => cumwork[b] < cumwork[count]
    BY <1>0, <2>3, <2>4 DEF BestStanding
  <2>6. \A b \in 0 .. count : cumwork[b] <= cumwork[count] /\ (cumwork[b] = cumwork[count] => count <= b)
    BY <1>0, <2>4, <2>5
  <2> QED BY <2>1, <2>2, <2>6 DEF BestStanding, Standing
<1>5. ASSUME NEW p \in 0 .. count, NEW w \in Works, NEW txs \in PeerBodies(p),
             AcceptBlock(p, w, txs)
      PROVE  BestStanding'
  <2> DEFINE b == count + 1
             v == cumwork[p] + w
  <2>1. /\ w \in Nat /\ txs \in Seq(Txs) /\ ConnectHeader(p, w, txs) /\ UNCHANGED minerVars /\ Idle
    BY <1>5, AcceptStep DEF AcceptBlock
  <2>2. /\ count' = b /\ cumwork'[b] = v /\ \A x \in 0 .. count : cumwork'[x] = cumwork[x]
        /\ tip' = IF v > cumwork[tip] THEN b ELSE tip
    BY <2>1, HeaderStep DEF NodeShape
  <2>3. \A x \in 0 .. count : cumwork[x] <= cumwork[tip] /\ (cumwork[x] = cumwork[tip] => tip <= x)
    BY <2>1 DEF BestStanding, Standing, Idle
  <2>4. v \in Nat /\ \A x \in 0 .. b : x \in 0 .. count \/ x = b
    BY <1>0, <2>1
  <2> HIDE DEF v
  <2>5. \A x \in 0 .. b : cumwork'[x] <= cumwork'[tip'] /\ (cumwork'[x] = cumwork'[tip'] => tip' <= x)
    <3>1. CASE v > cumwork[tip]
      <4>1. tip' = b /\ cumwork'[tip'] = v
        BY <2>2, <3>1
      <4>2. \A x \in 0 .. count : cumwork'[x] < v
        BY <1>0, <2>2, <2>3, <2>4, <3>1
      <4> QED BY <1>0, <2>2, <2>4, <4>1, <4>2
    <3>2. CASE ~(v > cumwork[tip])
      <4>1. tip' = tip /\ cumwork'[tip'] = cumwork[tip]
        BY <1>0, <2>2, <3>2
      <4> QED BY <1>0, <2>2, <2>3, <2>4, <3>2, <4>1
    <3> QED BY <3>1, <3>2
  <2>6. \A n \in Miners : pc'[n] # "settip"
    BY <2>1 DEF Idle, minerVars
  <2> QED BY <2>2, <2>5, <2>6 DEF BestStanding, Standing
<1>6. CASE \E tx \in Txs : SubmitTx(tx)
  BY <1>2, <1>6 DEF SubmitTx
<1>7. ASSUME NEW m \in Miners, GenSnapshot(m) \/ GenConnectUtxos(m) \/ GenEvict(m) \/ GenReturn(m)
      PROVE  BestStanding'
  <2>1. \A n \in Miners : pc[n] # "settip"
    BY <1>7 DEF GenSnapshot, GenConnectUtxos, GenEvict, GenReturn, Serial, Idle
  <2>2. UNCHANGED headerVars /\ \E l \in Labels \ {"settip"} : pc' = [pc EXCEPT ![m] = l] \/ pc' = pc
    BY <1>7 DEF GenSnapshot, GenConnectUtxos, GenEvict, GenReturn, Labels
  <2>3. \A n \in Miners : pc'[n] # "settip"
    BY <1>0, <2>1, <2>2
  <2> QED BY <1>1, <2>1, <2>2, <2>3
<1>8. CASE UNCHANGED nodeVars
  BY <1>2, <1>8 DEF nodeVars
<1> QED BY <1>3, <1>4, <1>5, <1>6, <1>7, <1>8 DEF NodeNext, Generate

\* HeaderStore.connect, one call at a time: between calls the tip is the first
\* header of the most work, in every tree of headers and for every work.
THEOREM TipStaysBest ==
  ASSUME ~Concurrent
  PROVE  NodeSpec => []TipIsBest
<1>1. NodeInit => BestStanding
  BY NodeAssumption DEF NodeInit, BestStanding, Standing, Blocks
<1>2. ASSUME NodeShape, Serial, BestStanding, [NodeNext]_nodeVars PROVE BestStanding'
  BY <1>2, BestStep
<1>3. BestStanding => TipIsBest
  BY DEF BestStanding, Standing, TipIsBest, Idle
<1> QED BY <1>1, <1>2, <1>3, NodeShapeInvariant, SerialInvariant, PTL DEF NodeSpec

\* Between calls exactly the blocks of the active chain have undo data, however
\* the chain was reorganised, as long as one call runs at a time.
THEOREM UndoStaysCovering ==
  ASSUME ~Concurrent
  PROVE  NodeSpec => []UndoCoversActiveChain
<1>1. ASSUME NodeShape, Serial PROVE UndoCoversActiveChain
  <2> SUFFICES ASSUME Idle
               PROVE  {b \in 1 .. MaxBlocks : undo[b].connected} = ActiveChain \ {0}
    BY DEF UndoCoversActiveChain
  <2>1. \A x \in Numbers : undo[x].connected <=> x \in ActiveChain
    BY <1>1 DEF Serial, Idle, AnyApply, Synced, Store, ActiveChain
  <2>2. \A x \in ActiveChain : x \in Blocks
    BY <1>1, PathSet, NodeAssumption DEF ActiveChain, NodeShape, HeaderShape, Blocks
  <2> QED BY <2>1, <2>2, BlocksFacts DEF Numbers
<1> QED BY <1>1, NodeShapeInvariant, SerialInvariant, PTL

\* A block adds at most its own outputs.
LEMMA ConnectUtxosWithin ==
  ASSUME NEW u \in SUBSET Outpoints, NEW b \in Outpoints, NEW txs \in Seq(Txs)
  PROVE  ConnectUtxos(u, b, txs) \subseteq u \cup Outputs(txs) \cup {b}
  BY ConnectUtxosEffect

\* Every unspent output of a chain was created on it.
LEMMA ReplayWithin ==
  ASSUME NEW p, Tree(p), NEW bodies \in Bodies, NEW b \in Blocks, NEW o \in ReplayOf(p, bodies, b)
  PROVE  \/ o \in Coins
         \/ \E a \in ToSet(PathTo(p, b)) \ {0} : o = a \/ o \in Outputs(bodies[a])
<1> DEFINE Made(x, v) == \/ v \in Coins
                         \/ \E a \in ToSet(PathTo(p, x)) \ {0} : v = a \/ v \in Outputs(bodies[a])
           T == {x \in Blocks : \A v \in ReplayOf(p, bodies, x) : Made(x, v)}
<1>1. 0 \in T
  BY ReplayRecursive, BlocksFacts
<1>2. ASSUME NEW x \in Numbers, p[x] \in T PROVE x \in T
  <2>1. x # 0 /\ x \in Outpoints /\ x \in Blocks /\ p[x] \in Blocks /\ bodies[x] \in Seq(Txs)
    BY BlocksFacts DEF Tree, Bodies
  <2>2. ReplayOf(p, bodies, p[x]) \in SUBSET Outpoints
    BY <2>1, ReplayRecursive
  <2>3. ReplayOf(p, bodies, x) \subseteq ReplayOf(p, bodies, p[x]) \cup Outputs(bodies[x]) \cup {x}
    BY <2>1, <2>2, ReplayRecursive, ConnectUtxosWithin
  <2>4. ToSet(PathTo(p, x)) = {x} \cup ToSet(PathTo(p, p[x]))
    BY PathSet
  <2> SUFFICES ASSUME NEW v \in ReplayOf(p, bodies, x) PROVE Made(x, v)
    BY <2>1
  <2>5. CASE v \in ReplayOf(p, bodies, p[x])
    <3>1. Made(p[x], v)
      BY <1>2, <2>5
    <3> QED BY <2>4, <3>1
  <2>6. CASE v \in Outputs(bodies[x]) \cup {x}
    BY <2>1, <2>4, <2>6
  <2> QED BY <2>3, <2>5, <2>6
<1> HIDE DEF T
<1>3. Blocks \subseteq T
  BY <1>1, <1>2, TreeInduction
<1> QED BY <1>3 DEF T

\* Without repeated transactions no block creates an unspent output again.
LEMMA FreshWithoutRepeats ==
  ASSUME NodeShape, DistinctOutputs, NoRepeat
  PROVE  Fresh(parent, body, count)
<1> SUFFICES ASSUME NEW x \in 1 .. count, NEW o \in Outputs(body[x]) \cup {x},
                    o \in ReplayOf(parent, body, parent[x])
             PROVE  FALSE
  BY DEF Fresh
<1>1. Tree(parent) /\ body \in Bodies /\ x \in Numbers /\ x \in Nat
  BY NodeAssumption DEF NodeShape, HeaderShape, Blocks, Numbers
<1>2. parent[x] \in Blocks /\ parent[x] < x /\ parent[x] \in Nat
  BY <1>1, BlocksFacts DEF Tree
<1>3. \A a \in ToSet(PathTo(parent, parent[x])) \ {0} : a \in Numbers /\ a # x
  <2>1. \A a \in ToSet(PathTo(parent, parent[x])) : a \in Blocks /\ a <= parent[x]
    BY <1>1, <1>2, PathSet
  <2>2. \A a \in ToSet(PathTo(parent, parent[x])) : a # x
    BY <1>1, <1>2, <2>1
  <2> QED BY <2>1, <2>2, BlocksFacts
<1>4. \A b \in Numbers : \A v \in Outputs(body[b]) : \E t \in ToSet(body[b]) : t \in Txs /\ v \in Creates[t]
  <2> SUFFICES ASSUME NEW b \in Numbers, NEW v \in Outputs(body[b])
               PROVE  \E t \in ToSet(body[b]) : t \in Txs /\ v \in Creates[t]
    OBVIOUS
  <2>1. body[b] \in Seq(Txs)
    BY <1>1 DEF Bodies
  <2>2. \A i \in DOMAIN body[b] : body[b][i] \in Txs /\ body[b][i] \in ToSet(body[b])
    BY <2>1, LenProperties, ElementOfSeq DEF ToSet
  <2> QED BY <2>2 DEF Outputs
<1>5. \A b \in Numbers : \A v \in Outputs(body[b]) : v \notin Coins /\ v \notin Numbers
  BY <1>4 DEF DistinctOutputs, Numbers
<1>6. x \notin Coins
  BY <1>1 DEF DistinctOutputs, Numbers
<1>7. o \notin Coins
  BY <1>1, <1>5, <1>6
<1>8. PICK a \in ToSet(PathTo(parent, parent[x])) \ {0} : o = a \/ o \in Outputs(body[a])
  BY <1>1, <1>2, <1>7, ReplayWithin
<1>9. a \in Numbers /\ a # x
  BY <1>3
<1>10. CASE o = x
  BY <1>1, <1>5, <1>8, <1>9, <1>10
<1>11. CASE o \in Outputs(body[x])
  <2>1. o \in Outputs(body[a])
    BY <1>1, <1>5, <1>8, <1>9, <1>11
  <2>2. PICK t \in ToSet(body[x]) : t \in Txs /\ o \in Creates[t]
    BY <1>1, <1>4, <1>11
  <2>3. PICK s \in ToSet(body[a]) : s \in Txs /\ o \in Creates[s]
    BY <1>4, <1>9, <2>1
  <2>4. s = t
    BY <2>2, <2>3 DEF DistinctOutputs
  <2> QED BY <1>8, <2>2, <2>3, <2>4 DEF NoRepeat
<1> QED BY <1>10, <1>11

\* _reorg_utxos: between calls the UTXO table is what a fresh ingest of the
\* active chain gives, for every history of forks, as long as one call runs at a
\* time and no chain carries a transaction twice.
THEOREM UtxoStaysReplay ==
  ASSUME ~Concurrent, DistinctOutputs
  PROVE  NodeSpec => []UtxoMatchesChain
<1>1. ASSUME NodeShape, Serial, NoRepeat, Idle PROVE utxo = Replay(tip)
  <2>1. Replay(tip) = ReplayOf(parent, body, tip)
    BY DEF Replay, ReplayOf
  <2>2. Synced(Store, parent, body, tip, count)
    BY <1>1 DEF Serial, Idle, AnyApply
  <2>3. Store.utxo = ReplayOf(parent, body, tip)
    BY <1>1, <2>2, FreshWithoutRepeats DEF Synced
  <2> QED BY <2>1, <2>3 DEF Store
<1>2. ASSUME NodeShape, Serial PROVE UtxoMatchesChain
  BY <1>1, <1>2 DEF UtxoMatchesChain
<1> QED BY <1>2, NodeShapeInvariant, SerialInvariant, PTL

-----------------------------------------------------------------------------
(***************************************************************************)
(* The node's own blocks.                                                  *)
(***************************************************************************)

\* A running generate_block holds exactly the pool's entries, and evicts them in
\* the end; as long as no block was fed, every entry is minable until its block
\* is applied.
Mining ==
    /\ fed \in Nat
    /\ \A m \in Miners : pc[m] \notin {"idle", "evict"} => ToSet(snap[m].txs) = entries
    /\ \A m \in Miners : pc[m] = "evict" => entries \subseteq ToSet(snap[m].txs)
    /\ (fed = 0 /\ \A m \in Miners : pc[m] # "evict")
         => \A tx \in entries : Spends[tx] \subseteq utxo

\* Every step keeps the entries minable.
LEMMA MiningStep ==
  ASSUME ~Concurrent, NodeShape, Serial, Mining, [NodeNext]_nodeVars
  PROVE  Mining'
<1>0. pc \in [Miners -> Labels] /\ snap \in [Miners -> Snaps]
  BY DEF NodeShape, MinerShape
<1>1. ASSUME NEW tx \in Txs, SubmitTx(tx) PROVE Mining'
  <2>1. Idle /\ UNCHANGED <<utxo, pc, snap, fed>> /\ Spends[tx] \subseteq utxo
        /\ entries' = (entries \ Conflicts(tx)) \cup {tx}
    BY <1>1 DEF SubmitTx, Admit, Admissible, Validates, minerVars
  <2> QED BY <2>1 DEF Mining, Idle
<1>2. ASSUME NEW m \in Miners, GenSnapshot(m) PROVE Mining'
  <2>1. PICK txs \in SetToSeqs(entries) : snap' = [snap EXCEPT ![m] = [tip |-> tip, txs |-> txs]]
    BY <1>2 DEF GenSnapshot
  <2>2. ToSet(txs) = entries
    BY OrderLists DEF NodeShape, PoolShape
  <2>3. Idle /\ pc' = [pc EXCEPT ![m] = "connect"] /\ UNCHANGED <<utxo, entries, fed>>
    BY <1>2 DEF GenSnapshot, pool
  <2>4. snap'[m].txs = txs /\ \A x \in Miners : pc'[x] = IF x = m THEN "connect" ELSE "idle"
    BY <1>0, <2>1, <2>3 DEF Idle
  <2>5. \A x \in Miners : pc'[x] # "idle" => ToSet(snap'[x].txs) = entries'
    BY <2>2, <2>3, <2>4
  <2> QED BY <2>3, <2>4, <2>5 DEF Mining, Idle
<1>3. ASSUME NEW m \in Miners, GenInsertHeader(m) \/ GenSetTip(m) PROVE Mining'
  <2>1. /\ pc[m] \in {"connect", "settip"} /\ UNCHANGED <<utxo, entries, fed>>
        /\ \E l \in {"settip", "apply"} : pc' = [pc EXCEPT ![m] = l]
        /\ snap' = [snap EXCEPT ![m].tip = count'] \/ snap' = snap
    BY <1>3 DEF GenInsertHeader, GenSetTip, pool
  <2>2. \A x \in Miners : snap'[x].txs = snap[x].txs
    <3>1. CASE snap' = [snap EXCEPT ![m].tip = count']
      BY <1>0, <3>1 DEF Snaps
    <3> QED BY <2>1, <3>1
  <2>3. \A x \in Miners : /\ pc'[x] \notin {"idle", "evict"} <=> pc[x] \notin {"idle", "evict"}
                          /\ pc'[x] = "evict" <=> pc[x] = "evict"
    BY <1>0, <2>1
  <2> QED BY <2>1, <2>2, <2>3 DEF Mining
<1>4. ASSUME NEW m \in Miners, GenConnectUtxos(m) PROVE Mining'
  <2>1. pc[m] = "apply" /\ pc' = [pc EXCEPT ![m] = "evict"] /\ UNCHANGED <<entries, fed, snap>>
    BY <1>4 DEF GenConnectUtxos, pool
  <2>2. pc'[m] = "evict" /\ \A x \in Miners : x # m => pc'[x] = pc[x]
    BY <1>0, <2>1
  <2>3. ToSet(snap[m].txs) = entries
    BY <2>1 DEF Mining
  <2> QED BY <2>1, <2>2, <2>3 DEF Mining
<1>5. ASSUME NEW m \in Miners, GenEvict(m) PROVE Mining'
  <2>1. /\ pc[m] = "evict" /\ snap[m].txs # <<>> /\ entries \subseteq ToSet(snap[m].txs)
        /\ \A n \in Miners : n # m => pc[n] = "idle"
    BY <1>5 DEF GenEvict, Serial, Mining
  <2>2. /\ entries' = entries \ {Head(snap[m].txs)} /\ UNCHANGED <<fed, pc>>
        /\ snap' = [snap EXCEPT ![m].txs = Tail(@)]
    BY <1>5 DEF GenEvict, Evict
  <2>3. snap'[m].txs = Tail(snap[m].txs)
    BY <1>0, <2>2 DEF Snaps
  <2>4. entries' \subseteq ToSet(snap'[m].txs)
    BY <2>1, <2>2, <2>3, MinedHead DEF NodeShape
  <2> QED BY <2>1, <2>2, <2>4 DEF Mining
<1>8. ASSUME NEW m \in Miners, GenReturn(m) PROVE Mining'
  <2>1. /\ pc[m] = "evict" /\ entries \subseteq ToSet(<<>>) /\ \A n \in Miners : n # m => pc[n] = "idle"
    BY <1>8 DEF GenReturn, Serial, Mining
  <2>2. entries' = {} /\ fed' = fed /\ pc' = [pc EXCEPT ![m] = "idle"]
    BY <1>8, <2>1 DEF GenReturn, ToSet, pool
  <2>3. \A x \in Miners : pc'[x] = "idle"
    BY <1>0, <2>1, <2>2
  <2> QED BY <2>2, <2>3 DEF Mining
<1>6. ASSUME NEW p \in 0 .. count, NEW w \in Works, NEW txs \in PeerBodies(p),
             AcceptBlock(p, w, txs)
      PROVE  Mining'
  <2>1. Idle /\ fed' = fed + 1 /\ pc' = pc
    BY <1>6 DEF AcceptBlock, minerVars
  <2>2. fed' \in Nat /\ fed' # 0
    BY <2>1 DEF Mining
  <2> QED BY <2>1, <2>2 DEF Mining, Idle
<1>7. CASE UNCHANGED nodeVars
  BY <1>7 DEF nodeVars, Mining, minerVars, pool
<1> QED BY <1>1, <1>2, <1>3, <1>4, <1>5, <1>6, <1>7, <1>8 DEF NodeNext, Generate

LEMMA MiningInvariant == ASSUME ~Concurrent PROVE NodeSpec => []Mining
<1>1. NodeInit => Mining
  BY DEF NodeInit, Mining
<1>2. ASSUME NodeShape, Serial, Mining, [NodeNext]_nodeVars PROVE Mining'
  BY <1>2, MiningStep
<1> QED BY <1>1, <1>2, NodeShapeInvariant, SerialInvariant, PTL DEF NodeSpec

\* While only generate_block adds blocks, one call at a time, whatever was
\* admitted stays minable: the block that spends an input takes every entry
\* along, so none is left behind with a spent input.
THEOREM PoolStaysMinable ==
  ASSUME ~Concurrent
  PROVE  NodeSpec => []PoolIsMinable
<1>1. Mining => PoolIsMinable
  BY DEF Mining, PoolIsMinable, Idle
<1> QED BY <1>1, MiningInvariant, PTL

\* The blocks whose transactions have reached the UTXO set.
Applied ==
    {b \in 1 .. count : \A m \in Miners : pc[m] \in {"settip", "apply"} => snap[m].tip # b}

\* What the applied blocks have created.
Made == Coins \cup Applied \cup UNION {Outputs(body[b]) : b \in Applied}

\* As long as no block was fed: what the blocks spent was created on the chain
\* and is gone, and no two of their transactions spend the same outpoint.
SpendsOnce ==
    \A b, c \in 1 .. count : \A t \in ToSet(body[b]), s \in ToSet(body[c]) :
        Spends[t] \cap Spends[s] # {} => b = c /\ t = s
Ledger ==
    /\ utxo \subseteq Made
    /\ \A b \in Applied : Inputs(body[b]) \cap utxo = {} /\ Inputs(body[b]) \subseteq Made
    /\ SpendsOnce

\* Inputs and outputs, by transaction.
LEMMA BodyTxs ==
  ASSUME NEW txs \in Seq(Txs)
  PROVE  /\ ToSet(txs) \subseteq Txs
         /\ Inputs(txs) = UNION {Spends[t] : t \in ToSet(txs)}
         /\ Outputs(txs) = UNION {Creates[t] : t \in ToSet(txs)}
  BY LenProperties, ElementOfSeq DEF ToSet, Inputs, Outputs

\* What is proved of the pool holds inside the node.
LEMMA NodePool == NodeSpec => [](PoolInv /\ NoPoolConflict)
<1>1. PoolSpec => []NoPoolConflict
  BY PoolNeverConflicts
<1> QED BY <1>1, NodeUsesMempool, PoolInvariant, PTL DEF UsesMempool

\* A pool entry, minable, is on no applied block.
LEMMA EntriesAreNew ==
  ASSUME NodeShape, Ledger, HaveInputs, NEW t \in entries, Spends[t] \subseteq utxo,
         NEW b \in Applied
  PROVE  t \notin ToSet(body[b])
<1>1. b \in Numbers
  BY NodeAssumption DEF Applied, NodeShape, HeaderShape, Blocks, Numbers
<1>2. body[b] \in Seq(Txs)
  BY <1>1 DEF NodeShape, HeaderShape, Bodies
<1>3. Inputs(body[b]) = UNION {Spends[s] : s \in ToSet(body[b])}
  BY <1>2, BodyTxs
<1>4. Spends[t] # {}
  BY DEF HaveInputs, NodeShape, PoolShape
<1> QED BY <1>3, <1>4 DEF Ledger

\* Connecting the mined header: its transactions compete with no block before
\* it, and not with each other.
LEMMA LedgerConnect ==
  ASSUME ~Concurrent, NodeShape, Serial, Mining, NoPoolConflict, fed = 0, Ledger,
         NEW m \in Miners, GenInsertHeader(m)
  PROVE  Ledger'
<1>1. /\ pc[m] = "connect" /\ snap[m].tip = tip /\ \A n \in Miners : n # m => pc[n] = "idle"
  BY DEF GenInsertHeader, Serial
<1>2. /\ ToSet(snap[m].txs) = entries /\ \A tx \in entries : Spends[tx] \subseteq utxo
  BY <1>1 DEF Mining
<1>3. snap[m].txs \in Seq(Txs) /\ snap[m] \in Snaps /\ tip \in 0 .. count
  BY SnapTxs DEF NodeShape, HeaderShape
<1>4. InsertHeader(tip, 1, snap[m].txs)
  BY <1>1 DEF GenInsertHeader
<1>5. /\ count' = count + 1 /\ body'[count + 1] = snap[m].txs
      /\ \A x \in 1 .. count : body'[x] = body[x]
  BY <1>3, <1>4, InsertStep DEF NodeShape
<1>6. /\ count \in Nat /\ 1 .. count + 1 = (1 .. count) \cup {count + 1} /\ count + 1 \notin 1 .. count
  <2>1. count \in Nat
    BY BlocksFacts DEF NodeShape, HeaderShape
  <2> QED BY <2>1
<1>7. /\ snap' = [snap EXCEPT ![m].tip = count + 1] /\ utxo' = utxo
      /\ \E l \in {"settip", "apply"} : pc' = [pc EXCEPT ![m] = l]
  BY <1>5 DEF GenInsertHeader
<1>8. /\ snap'[m].tip = count + 1 /\ pc'[m] \in {"settip", "apply"}
      /\ \A n \in Miners : n # m => pc'[n] = "idle"
  BY <1>1, <1>3, <1>7 DEF NodeShape, MinerShape, Snaps
<1>9. Applied = 1 .. count
  <2>1. \A n \in Miners : pc[n] \notin {"settip", "apply"}
    BY <1>1
  <2> QED BY <2>1 DEF Applied
<1>10. Applied' = 1 .. count
  BY <1>5, <1>6, <1>8 DEF Applied
<1>11. Made' = Made
  BY <1>5, <1>9, <1>10 DEF Made
<1>12. ASSUME NEW b \in 1 .. count, NEW t \in ToSet(body[b]), NEW s \in entries PROVE Spends[t] \cap Spends[s] = {}
  <2>1. b \in Numbers
    BY NodeAssumption DEF NodeShape, HeaderShape, Blocks, Numbers
  <2>2. Inputs(body[b]) = UNION {Spends[x] : x \in ToSet(body[b])}
    BY <2>1, BodyTxs DEF NodeShape, HeaderShape, Bodies
  <2> QED BY <1>2, <1>9, <2>2 DEF Ledger
<1>13. \A t, s \in entries : Spends[t] \cap Spends[s] # {} => t = s
  BY DEF NoPoolConflict
<1>14. SpendsOnce'
  <2> SUFFICES ASSUME NEW b \in 1 .. count + 1, NEW c \in 1 .. count + 1,
                      NEW t \in ToSet(body'[b]), NEW s \in ToSet(body'[c]),
                      Spends[t] \cap Spends[s] # {}
               PROVE  b = c /\ t = s
    BY <1>5 DEF SpendsOnce
  <2>1. CASE b \in 1 .. count /\ c \in 1 .. count
    BY <1>5, <2>1 DEF Ledger, SpendsOnce
  <2>2. CASE b \in 1 .. count /\ c = count + 1
    BY <1>2, <1>5, <1>12, <2>2
  <2>3. CASE b = count + 1 /\ c \in 1 .. count
    <3>1. Spends[s] \cap Spends[t] = {}
      BY <1>2, <1>5, <1>12, <2>3
    <3> QED BY <3>1
  <2>4. CASE b = count + 1 /\ c = count + 1
    BY <1>2, <1>5, <1>13, <2>4
  <2> QED BY <1>6, <2>1, <2>2, <2>3, <2>4
<1>15. \A b \in Applied' : Inputs(body'[b]) \cap utxo' = {} /\ Inputs(body'[b]) \subseteq Made'
  BY <1>5, <1>7, <1>9, <1>10, <1>11 DEF Ledger
<1>16. utxo' \subseteq Made'
  BY <1>7, <1>11 DEF Ledger
<1> QED BY <1>14, <1>15, <1>16 DEF Ledger

\* Applying it: what it creates is new, so nothing spent comes back.
LEMMA LedgerApply ==
  ASSUME ~Concurrent, DistinctOutputs, HaveInputs, NodeShape, Serial, Mining, fed = 0, Ledger,
         NEW m \in Miners, GenConnectUtxos(m)
  PROVE  Ledger'
<1> DEFINE txs == body[tip]
<1>1. /\ pc[m] = "apply" /\ snap[m].tip = tip /\ snap[m].txs = txs
      /\ \A n \in Miners : n # m => pc[n] = "idle"
  BY DEF GenConnectUtxos, Serial
<1>2. /\ ToSet(txs) = entries /\ \A tx \in entries : Spends[tx] \subseteq utxo
  BY <1>1 DEF Mining
<1>3. /\ txs \in Seq(Txs) /\ entries \subseteq Txs /\ utxo \in SUBSET Outpoints
      /\ tip \in 1 .. count /\ tip \in Numbers /\ tip \in Outpoints
  <2>1. tip # 0 /\ tip \in 0 .. count /\ count \in Nat /\ count <= MaxBlocks /\ MaxBlocks \in Nat
    BY <1>1, NodeAssumption DEF NodeShape, HeaderShape, MinerShape, Blocks
  <2>2. tip \in 1 .. count /\ tip \in Numbers
    BY <2>1 DEF Numbers
  <2> QED BY <2>2, BlocksFacts DEF NodeShape, HeaderShape, Bodies, PoolShape, TableShape
<1>4. /\ Inputs(txs) = UNION {Spends[t] : t \in entries}
      /\ Outputs(txs) = UNION {Creates[t] : t \in entries}
  BY <1>2, <1>3, BodyTxs
<1>5. utxo' = ConnectUtxos(utxo, tip, txs) /\ body' = body /\ count' = count /\ snap' = snap
      /\ pc' = [pc EXCEPT ![m] = "evict"]
  BY <1>1 DEF GenConnectUtxos, ConnectBlock, headerVars
<1> HIDE DEF txs
<1>6. Applied = (1 .. count) \ {tip}
  BY <1>1 DEF Applied
<1>7. Applied' = 1 .. count
  <2>1. \A n \in Miners : pc'[n] \notin {"settip", "apply"}
    BY <1>1, <1>5 DEF NodeShape, MinerShape
  <2> QED BY <1>5, <2>1 DEF Applied
<1>8. Made' = Made \cup {tip} \cup Outputs(txs)
  BY <1>3, <1>5, <1>6, <1>7 DEF Made, txs
<1>9. Inputs(txs) \subseteq utxo /\ utxo \subseteq Made
  BY <1>2, <1>4 DEF Ledger
<1>10. \A b \in Applied : b \in Numbers /\ body[b] \in Seq(Txs) /\ b # tip
  <2>1. \A b \in Applied : b \in Numbers
    BY <1>6, NodeAssumption DEF NodeShape, HeaderShape, Blocks, Numbers
  <2> QED BY <1>6, <2>1 DEF NodeShape, HeaderShape, Bodies
<1>11. \A b \in Applied : \A o \in Outputs(body[b]) :
          \E s \in Txs : s \notin entries /\ o \in Creates[s]
  <2> SUFFICES ASSUME NEW b \in Applied, NEW o \in Outputs(body[b])
               PROVE  \E s \in Txs : s \notin entries /\ o \in Creates[s]
    OBVIOUS
  <2>1. PICK s \in ToSet(body[b]) : o \in Creates[s] /\ s \in Txs
    BY <1>10, BodyTxs
  <2>2. s \notin entries
    BY <1>2, EntriesAreNew
  <2> QED BY <2>1, <2>2
<1>12. tip \notin Made
  <2>1. tip \notin Coins /\ \A s \in Txs : tip \notin Creates[s]
    BY <1>3 DEF DistinctOutputs, Numbers
  <2> QED BY <1>10, <1>11, <2>1 DEF Made
<1>13. \A o \in Outputs(txs) : o \notin Made
  <2> SUFFICES ASSUME NEW t \in entries, NEW o \in Creates[t], o \in Made PROVE FALSE
    BY <1>4
  <2>1. o \notin Coins /\ o \notin Numbers
    BY <1>3 DEF DistinctOutputs, Numbers
  <2>2. PICK b \in Applied : o \in Outputs(body[b])
    BY <1>10, <2>1 DEF Made
  <2>3. PICK s \in Txs : s \notin entries /\ o \in Creates[s]
    BY <1>11, <2>2
  <2> QED BY <1>3, <2>3 DEF DistinctOutputs
<1>14. ASSUME NEW o \in Made
       PROVE  o \in utxo' <=> o \in utxo /\ o \notin Inputs(txs)
  BY <1>3, <1>5, <1>12, <1>13, ConnectUtxosEffect
<1>15. utxo' \subseteq Made'
  BY <1>3, <1>5, <1>8, <1>9, ConnectUtxosWithin
<1>16. ASSUME NEW b \in Applied' PROVE Inputs(body'[b]) \cap utxo' = {} /\ Inputs(body'[b]) \subseteq Made'
  <2>1. CASE b = tip
    BY <1>5, <1>8, <1>9, <1>14, <2>1 DEF txs
  <2>2. CASE b # tip
    <3>1. b \in Applied
      BY <1>6, <1>7, <2>2
    <3>2. Inputs(body[b]) \cap utxo = {} /\ Inputs(body[b]) \subseteq Made
      BY <3>1 DEF Ledger
    <3> QED BY <1>5, <1>8, <1>14, <3>2
  <2> QED BY <2>1, <2>2
<1>17. SpendsOnce'
  BY <1>5 DEF Ledger, SpendsOnce
<1> QED BY <1>15, <1>16, <1>17 DEF Ledger

\* Every other step leaves the ledger alone; a fed block ends it.
LEMMA LedgerStep ==
  ASSUME ~Concurrent, DistinctOutputs, HaveInputs, NodeShape, Serial, Mining, NoPoolConflict,
         fed = 0 => Ledger, [NodeNext]_nodeVars
  PROVE  (fed = 0 => Ledger)'
<1> SUFFICES ASSUME fed' = 0 PROVE Ledger'
  OBVIOUS
<1>1. ASSUME NEW p \in 0 .. count, NEW w \in Works, NEW txs \in PeerBodies(p),
             AcceptBlock(p, w, txs)
      PROVE  FALSE
  BY <1>1 DEF AcceptBlock, Mining
<1>2. ASSUME fed' = fed, UNCHANGED <<utxo, count, body>>, Applied' = Applied PROVE Ledger'
  <2>1. Made' = Made
    BY <1>2 DEF Made
  <2> QED BY <1>2, <2>1 DEF Ledger, SpendsOnce
<1>3. CASE \E tx \in Txs : SubmitTx(tx)
  BY <1>2, <1>3 DEF SubmitTx, Admit, minerVars, headerVars, Applied
<1>4. ASSUME NEW m \in Miners, GenSnapshot(m) PROVE Ledger'
  <2>1. Idle /\ pc' = [pc EXCEPT ![m] = "connect"] /\ fed' = fed /\ UNCHANGED <<utxo, headerVars>>
    BY <1>4 DEF GenSnapshot
  <2>2. \A n \in Miners : pc[n] \notin {"settip", "apply"} /\ pc'[n] \notin {"settip", "apply"}
    BY <2>1 DEF Idle, NodeShape, MinerShape
  <2> QED BY <1>2, <2>1, <2>2 DEF Applied, headerVars
<1>5. ASSUME NEW m \in Miners, GenInsertHeader(m) PROVE Ledger'
  <2>1. fed = 0
    BY <1>5 DEF GenInsertHeader
  <2> QED BY <1>5, <2>1, LedgerConnect
<1>6. ASSUME NEW m \in Miners, GenConnectUtxos(m) PROVE Ledger'
  <2>1. fed = 0
    BY <1>6 DEF GenConnectUtxos
  <2> QED BY <1>6, <2>1, LedgerApply
<1>9. ASSUME NEW m \in Miners, GenSetTip(m) PROVE Ledger'
  <2>1. /\ pc[m] = "settip" /\ pc' = [pc EXCEPT ![m] = "apply"] /\ fed' = fed
        /\ UNCHANGED <<utxo, count, body, snap>>
    BY <1>9 DEF GenSetTip
  <2>2. \A n \in Miners : pc'[n] \in {"settip", "apply"} <=> pc[n] \in {"settip", "apply"}
    BY <2>1 DEF NodeShape, MinerShape
  <2> QED BY <1>2, <2>1, <2>2 DEF Applied
<1>7. ASSUME NEW m \in Miners, GenEvict(m) \/ GenReturn(m) PROVE Ledger'
  <2>1. /\ pc[m] = "evict" /\ (pc' = [pc EXCEPT ![m] = "idle"] \/ pc' = pc) /\ fed' = fed
        /\ UNCHANGED <<utxo, headerVars>> /\ \A n \in Miners : n # m => pc[n] = "idle"
    BY <1>7 DEF GenEvict, GenReturn, Serial
  <2>2. \A n \in Miners : pc[n] \notin {"settip", "apply"} /\ pc'[n] \notin {"settip", "apply"}
    BY <2>1 DEF NodeShape, MinerShape
  <2> QED BY <1>2, <2>1, <2>2 DEF Applied, headerVars
<1>8. CASE UNCHANGED nodeVars
  BY <1>2, <1>8 DEF nodeVars, minerVars, headerVars, Applied
<1> QED BY <1>1, <1>3, <1>4, <1>5, <1>6, <1>7, <1>8, <1>9 DEF NodeNext, Generate

LEMMA LedgerInvariant ==
  ASSUME ~Concurrent, DistinctOutputs, HaveInputs
  PROVE  NodeSpec => [](fed = 0 => Ledger)
<1>1. NodeInit => (fed = 0 => Ledger)
  <2> SUFFICES ASSUME NodeInit PROVE Ledger
    OBVIOUS
  <2>1. 1 .. count = {} /\ utxo = Coins
    BY DEF NodeInit
  <2>2. Applied = {}
    BY <2>1 DEF Applied
  <2> QED BY <2>1, <2>2 DEF Ledger, Made, SpendsOnce
<1>2. ASSUME NodeShape, Serial, Mining, NoPoolConflict, fed = 0 => Ledger, [NodeNext]_nodeVars
      PROVE  (fed = 0 => Ledger)'
  BY <1>2, LedgerStep
<1> QED BY <1>1, <1>2, NodeShapeInvariant, SerialInvariant, MiningInvariant, NodePool, PTL
        DEF NodeSpec

\* generate_block does not validate what it mines; as long as every block is the
\* node's own and calls do not overlap, no outpoint is spent twice on the chain.
THEOREM OwnBlocksNeverDoubleSpend ==
  ASSUME ~Concurrent, DistinctOutputs, HaveInputs
  PROVE  NodeSpec => []OwnBlocksSpendOnce
<1>1. ASSUME NodeShape, fed = 0 => Ledger PROVE OwnBlocksSpendOnce
  <2> SUFFICES ASSUME fed = 0, NEW o \in Outpoints
               PROVE  Cardinality({p \in (ActiveChain \ {0}) \X Txs :
                          p[2] \in ToSet(body[p[1]]) /\ o \in Spends[p[2]]}) <= 1
    BY DEF OwnBlocksSpendOnce
  <2> DEFINE S == {p \in (ActiveChain \ {0}) \X Txs :
                     p[2] \in ToSet(body[p[1]]) /\ o \in Spends[p[2]]}
  <2>1. \A b \in ActiveChain \ {0} : b \in 1 .. count
    <3>1. Tree(parent) /\ tip \in Blocks /\ tip \in 0 .. count /\ count \in Nat
      BY <1>1, NodeAssumption DEF NodeShape, HeaderShape, Blocks
    <3>2. \A b \in ActiveChain : b \in Nat /\ b <= tip
      BY <3>1, PathSet, BlocksFacts DEF ActiveChain
    <3> QED BY <3>1, <3>2
  <2>2. ASSUME NEW p \in S, NEW q \in S PROVE p = q
    <3>1. /\ p[1] \in 1 .. count /\ q[1] \in 1 .. count
          /\ p[2] \in ToSet(body[p[1]]) /\ q[2] \in ToSet(body[q[1]])
          /\ o \in Spends[p[2]] \cap Spends[q[2]]
      BY <2>1
    <3>2. p[1] = q[1] /\ p[2] = q[2]
      BY <1>1, <3>1 DEF Ledger, SpendsOnce
    <3>3. p = <<p[1], p[2]>> /\ q = <<q[1], q[2]>>
      OBVIOUS
    <3> QED BY <3>2, <3>3
  <2> HIDE DEF S
  <2>3. Cardinality(S) <= 1
    <3>1. CASE S = {}
      BY <3>1, FS_EmptySet
    <3>2. CASE S # {}
      <4>1. PICK p : S = {p}
        BY <2>2, <3>2
      <4>2. Cardinality(S) = 1
        BY <4>1, FS_Singleton
      <4> QED BY <4>2
    <3> QED BY <3>1, <3>2
  <2> QED BY <2>3 DEF S
<1> QED BY <1>1, NodeShapeInvariant, LedgerInvariant, PTL

-----------------------------------------------------------------------------
(***************************************************************************)
(* Proofs about the watchtowers (Watchtower) and the monitor thread        *)
(* (Monitor), for any number of towers, channels, states and starts.       *)
(*                                                                         *)
(* Towers answer from inside the pool's _notify, which nests.  The         *)
(* argument looks at the outermost call only: a tower it has already       *)
(* called holds nothing newer than what the pool holds (Defended), because *)
(* its answer was admitted, or what it would have had to beat was newer;   *)
(* and nested calls only raise the sequence further.                       *)
(***************************************************************************)

-----------------------------------------------------------------------------
(***************************************************************************)
(* The monitor's threads.                                                  *)
(***************************************************************************)

\* As long as no join timed out, the only live thread is the monitor's own;
\* stop waits for it only if there is one.
Joined ==
    /\ spawned \in 0 .. MaxStarts /\ current \in 0 .. spawned
    /\ thread \in [Ids -> {"none", "check", "tick", "wait", "ended"}]
    /\ \A i \in Ids : i > spawned => thread[i] = "none"
    /\ owner = "joining" => current # 0
    /\ late \in BOOLEAN
    /\ ~late => \A i \in Ids : Alive(i) => i = current

LEMMA JoinedStep ==
  ASSUME Joined, [MonitorNext]_monitorVars
  PROVE  Joined'
<1> USE MonitorAssumption DEF Ids
<1>1. CASE StartMonitor
  <2>1. /\ spawned \in Nat /\ spawned < MaxStarts /\ spawned + 1 \in Ids
        /\ thread' = [thread EXCEPT ![spawned + 1] = "check"] /\ spawned' = spawned + 1
        /\ current' = spawned + 1 /\ owner' = owner /\ late' = late /\ owner = "outside"
    BY <1>1 DEF StartMonitor, Joined
  <2>2. \A i \in Ids : thread'[i] = IF i = spawned + 1 THEN "check" ELSE thread[i]
    BY <2>1 DEF Joined
  <2>3. ~late => \A i \in Ids : ~Alive(i)
    <3> SUFFICES ASSUME ~late, NEW i \in Ids, Alive(i) PROVE FALSE
      OBVIOUS
    <3>1. i = current /\ i # 0
      BY DEF Joined
    <3> QED BY <1>1, <3>1 DEF StartMonitor, IsRunning
  <2>4. ~late' => \A i \in Ids : Alive(i)' => i = current'
    BY <2>1, <2>2, <2>3 DEF Alive
  <2>5. spawned' \in 0 .. MaxStarts /\ current' \in 0 .. spawned'
    BY <2>1
  <2>6. thread' \in [Ids -> {"none", "check", "tick", "wait", "ended"}]
    BY <2>1 DEF Joined
  <2>7. \A i \in Ids : i > spawned' => thread'[i] = "none"
    BY <2>1, <2>2 DEF Joined
  <2> QED BY <2>1, <2>4, <2>5, <2>6, <2>7 DEF Joined
<1>2. CASE StopMonitor
  BY <1>2 DEF StopMonitor, Joined, Alive
<1>3. CASE JoinEnds
  <2>1. /\ UNCHANGED <<thread, spawned>> /\ current' = 0 /\ owner' = "outside"
        /\ late' = (late \/ Alive(current)) /\ current # 0
    BY <1>3 DEF JoinEnds, Joined
  <2>2. late' \in BOOLEAN
    BY <2>1 DEF Joined, Alive
  <2>3. ~late' => \A i \in Ids : ~Alive(i)'
    BY <2>1 DEF Joined, Alive
  <2>4. current' \in 0 .. spawned'
    BY <2>1 DEF Joined
  <2> QED BY <2>1, <2>2, <2>3, <2>4 DEF Joined
<1>4. ASSUME NEW i \in Ids, RunNext(i) PROVE Joined'
  <2>1. /\ UNCHANGED <<current, owner, spawned, late>> /\ Alive(i)
        /\ \E v \in {"check", "tick", "wait", "ended"} : thread' = [thread EXCEPT ![i] = v]
    BY <1>4 DEF RunNext, CheckStop, Tick, WaitEnds, Alive
  <2>2. PICK v \in {"check", "tick", "wait", "ended"} : thread' = [thread EXCEPT ![i] = v]
    BY <2>1
  <2>3. \A j \in Ids : thread'[j] = IF j = i THEN v ELSE thread[j]
    BY <2>2 DEF Joined
  <2>4. ~(i > spawned)
    BY <2>1 DEF Joined, Alive
  <2>5. \A j \in Ids : j > spawned' => thread'[j] = "none"
    BY <2>1, <2>3, <2>4 DEF Joined
  <2>6. \A j \in Ids : Alive(j)' => Alive(j)
    BY <2>1, <2>3 DEF Alive
  <2>7. thread' \in [Ids -> {"none", "check", "tick", "wait", "ended"}]
    BY <2>2 DEF Joined
  <2> QED BY <2>1, <2>5, <2>6, <2>7 DEF Joined
<1>5. CASE UNCHANGED monitorVars
  BY <1>5 DEF monitorVars, Joined, Alive
<1> QED BY <1>1, <1>2, <1>3, <1>4, <1>5 DEF MonitorNext

\* Monitor.start and stop: as long as every join ended in time, no thread runs
\* that the monitor has forgotten, for any number of starts and stops.
THEOREM MonitorNeverLeaks == MonitorSpec => []NoLeakedThread
<1>1. MonitorInit => Joined
  <2> SUFFICES ASSUME MonitorInit PROVE Joined
    OBVIOUS
  <2>1. spawned \in 0 .. MaxStarts /\ current \in 0 .. spawned
    BY MonitorAssumption DEF MonitorInit
  <2>2. \A i \in Ids : thread[i] = "none" /\ ~Alive(i)
    BY DEF MonitorInit, Alive
  <2> QED BY <2>1, <2>2 DEF MonitorInit, Joined
<1>2. Joined => NoLeakedThread
  BY DEF Joined, NoLeakedThread, IsRunning, Ids
<1> QED BY <1>1, <1>2, JoinedStep, PTL DEF MonitorSpec

-----------------------------------------------------------------------------
(***************************************************************************)
(* Towers on the node.                                                     *)
(***************************************************************************)
Frames == [tx : Txs, todo : Seq(Towers)]

TowerShape ==
    /\ attached \in Seq(Towers)
    /\ record \in [Towers -> [Chans -> States \cup {NoTx}]]
    /\ \A t \in Towers, o \in Chans : record[t][o] # NoTx => o \in Spends[record[t][o]]
    /\ calls \in Seq(Frames)
    /\ pledge \in [Chans -> Nat]

\* While observers run, no other call does: they run inside submit_tx.
Inside == calls # <<>> => Idle

\* The stack after its top frame has taken one observer off its list, and after
\* a new frame was put on top of that.
LEMMA StackStep ==
  ASSUME NEW s \in Seq(Frames), s # <<>>, NEW f \in Frames, NEW g \in Frames
  PROVE  LET rest == <<f>> \o Tail(s)
             more == <<g>> \o rest
         IN  /\ rest \in Seq(Frames) /\ rest # <<>> /\ Len(rest) = Len(s) /\ rest[1] = f
             /\ \A i \in 2 .. Len(s) : rest[i] = s[i]
             /\ more \in Seq(Frames) /\ more # <<>> /\ Len(more) = Len(s) + 1 /\ more[1] = g
             /\ \A i \in 1 .. Len(s) : more[i + 1] = rest[i]
<1> DEFINE rest == <<f>> \o Tail(s)
           more == <<g>> \o rest
<1>1. /\ Len(s) \in Nat \ {0} /\ Tail(s) \in Seq(Frames) /\ Len(Tail(s)) = Len(s) - 1
      /\ \A i \in 1 .. Len(s) - 1 : Tail(s)[i] = s[i + 1]
  BY HeadTailProperties, LenProperties, EmptySeq
<1>2. <<f>> \in Seq(Frames) /\ Len(<<f>>) = 1 /\ <<f>>[1] = f
  OBVIOUS
<1>3. <<g>> \in Seq(Frames) /\ Len(<<g>>) = 1 /\ <<g>>[1] = g
  OBVIOUS
<1>4. rest \in Seq(Frames) /\ Len(rest) = Len(s) /\ rest[1] = f
  BY <1>1, <1>2, ConcatProperties
<1>5. \A i \in 2 .. Len(s) : rest[i] = s[i]
  <2> SUFFICES ASSUME NEW i \in 2 .. Len(s) PROVE rest[i] = s[i]
    OBVIOUS
  <2>1. i - 1 \in 1 .. Len(s) - 1 /\ (i - 1) + 1 = i /\ i \in 1 .. Len(s) /\ i > 1
    BY <1>1
  <2>2. rest[i] = Tail(s)[i - 1]
    BY <1>1, <1>2, <2>1, ConcatProperties
  <2> QED BY <1>1, <2>1, <2>2
<1> HIDE DEF rest
<1>6. /\ more \in Seq(Frames) /\ Len(more) = Len(s) + 1 /\ more[1] = g
      /\ \A i \in 1 .. Len(s) : more[i + 1] = rest[i]
  BY <1>1, <1>3, <1>4, ConcatProperties
<1> HIDE DEF more
<1>7. rest # <<>> /\ more # <<>>
  BY <1>1, <1>4, <1>6
<1> QED BY <1>4, <1>5, <1>6, <1>7 DEF rest, more

\* One observer fewer.
LEMMA TodoStep ==
  ASSUME NEW todo \in Seq(Towers), todo # <<>>
  PROVE  /\ Head(todo) \in Towers /\ Tail(todo) \in Seq(Towers)
         /\ \A t \in ToSet(todo) : t = Head(todo) \/ t \in ToSet(Tail(todo))
<1>1. /\ Len(todo) \in Nat \ {0} /\ DOMAIN todo = 1 .. Len(todo)
      /\ Head(todo) = todo[1] /\ Head(todo) \in Towers
      /\ Tail(todo) \in Seq(Towers) /\ Len(Tail(todo)) = Len(todo) - 1
      /\ \A i \in 1 .. Len(todo) - 1 : Tail(todo)[i] = todo[i + 1]
  BY HeadTailProperties, LenProperties, EmptySeq
<1>2. DOMAIN Tail(todo) = 1 .. Len(todo) - 1
  BY <1>1, LenProperties
<1>3. ASSUME NEW i \in 1 .. Len(todo), i # 1 PROVE todo[i] \in ToSet(Tail(todo))
  <2>1. i - 1 \in 1 .. Len(todo) - 1 /\ (i - 1) + 1 = i
    BY <1>1, <1>3
  <2>2. Tail(todo)[i - 1] = todo[i]
    BY <1>1, <2>1
  <2> QED BY <1>2, <2>1, <2>2 DEF ToSet
<1> QED BY <1>1, <1>3 DEF ToSet

\* A response: the state a tower holds for the channel it saw contested.
LEMMA Response ==
  ASSUME TowerShape, NEW t \in Towers, NEW tx \in Txs, NEW o \in Chans, Stale(t, tx, o)
  PROVE  /\ record[t][o] \in States /\ record[t][o] \in Txs /\ Spends[record[t][o]] = {o}
         /\ o \in Spends[tx] /\ Held(t, o) = InputSeq[record[t][o]][o]
<1>1. record[t][o] \in States /\ o \in Spends[record[t][o]] /\ o \in Spends[tx]
  BY DEF TowerShape, Stale
<1>2. Spends[record[t][o]] = {o}
  BY <1>1, TowerAssumption
<1> QED BY <1>1, <1>2, TowerAssumption, TxAssumption DEF Held, Stale

\* What Observe does: it takes the next observer off the top frame, and admits
\* its response or finds that there is none to admit.
Resp(f) == {record[Head(f.todo)][o] : o \in {c \in Chans : Stale(Head(f.todo), f.tx, c)}}
Rest(f) == <<[f EXCEPT !.todo = Tail(@)]>> \o Tail(calls)

LEMMA ObserveIs ==
  ASSUME TowerShape, Observe
  PROVE  /\ calls # <<>> /\ calls[1] \in Frames /\ calls[1].todo # <<>>
         /\ UNCHANGED <<attached, record, pledge, headerVars, undo, minerVars, fed>>
         /\ \/ \E cur \in Resp(calls[1]) :
                 Admit(cur) /\ calls' = <<[tx |-> cur, todo |-> attached]>> \o Rest(calls[1])
            \/ /\ \A cur \in Resp(calls[1]) : ~Admissible(cur)
               /\ calls' = Rest(calls[1]) /\ UNCHANGED <<utxo, pool>>
<1>1. calls # <<>> /\ calls[1] \in Frames /\ calls[1].todo # <<>>
  BY ElementOfSeq, EmptySeq, LenProperties DEF Observe, TowerShape
<1> QED BY <1>1 DEF Observe, Resp, Rest, nodeVars

\* list.remove leaves a list of towers.
LEMMA RemoveFirstType ==
  ASSUME NEW S, NEW s \in Seq(S), NEW e
  PROVE  RemoveFirst(s, e) \in Seq(S)
<1> DEFINE I == {i \in 1 .. Len(s) : s[i] = e}
           k == SelectInSeq(s, LAMBDA v : v = e)
<1>1. CASE ~\E i \in 1 .. Len(s) : s[i] = e
  BY <1>1 DEF RemoveFirst
<1>2. CASE \E i \in 1 .. Len(s) : s[i] = e
  <2>1. k = Min(I) /\ RemoveFirst(s, e) = RemoveAt(s, k)
    BY <1>2 DEF SelectInSeq, RemoveFirst
  <2>2. Len(s) \in Nat /\ I \in SUBSET (1 .. Len(s)) /\ I # {}
    BY <1>2, LenProperties
  <2> HIDE DEF I
  <2>3. k \in 1 .. Len(s)
    BY <2>1, <2>2, FirstIndex
  <2> HIDE DEF k
  <2>4. SubSeq(s, 1, k - 1) \in Seq(S)
    BY <2>2, <2>3, SubSeqProperties
  <2>5. SubSeq(s, k + 1, Len(s)) \in Seq(S)
    BY <2>2, <2>3, SubSeqProperties
  <2>6. RemoveAt(s, k) \in Seq(S)
    BY <2>4, <2>5, ConcatProperties DEF RemoveAt
  <2> QED BY <2>1, <2>6
<1> QED BY <1>1, <1>2

LEMMA TowerInit == WatchInit => TowerShape /\ Inside
<1> SUFFICES ASSUME WatchInit PROVE TowerShape /\ Inside
  OBVIOUS
<1>1. attached \in Seq(Towers)
  BY TowerAssumption, OrderLists DEF WatchInit
<1>2. <<>> \in Seq(Frames)
  OBVIOUS
<1>3. \A t \in Towers, o \in Chans : record[t][o] = NoTx
  BY DEF WatchInit
<1> QED BY <1>1, <1>2, <1>3 DEF WatchInit, TowerShape, Inside

\* The highest state the online towers hold: it exists, because they are
\* finitely many.
LEMMA HighestIs ==
  ASSUME TowerShape, NEW o \in Chans
  PROVE  /\ HighestHeld(o) \in Nat
         /\ HighestHeld(o) = 0 \/ \E t \in ToSet(attached) : HighestHeld(o) = Held(t, o)
<1> DEFINE n == Len(attached)
           H(i) == {0} \cup {Held(attached[j], o) : j \in 1 .. i}
           T == {i \in 0 .. n : \E v \in H(i) : \A j \in 1 .. i : Held(attached[j], o) <= v}
<1>1. n \in Nat /\ \A j \in 1 .. n : attached[j] \in Towers
  BY LenProperties, ElementOfSeq DEF TowerShape
<1>2. \A t \in Towers : Held(t, o) \in Nat
  <2> SUFFICES ASSUME NEW t \in Towers PROVE Held(t, o) \in Nat
    OBVIOUS
  <2>1. CASE record[t][o] = NoTx
    BY <2>1 DEF Held
  <2>2. CASE record[t][o] # NoTx
    <3>1. record[t][o] \in Txs /\ o \in Spends[record[t][o]]
      BY <2>2, TowerAssumption, TxAssumption DEF TowerShape
    <3> QED BY <2>2, <3>1, TxAssumption DEF Held
  <2> QED BY <2>1, <2>2
<1>3. ToSet(attached) = {attached[j] : j \in 1 .. n}
  BY LenProperties DEF ToSet, TowerShape
<1> HIDE DEF n
<1>4. 0 \in T
  BY <1>1
<1>5. ASSUME NEW i \in 1 .. n, i - 1 \in T PROVE i \in T
  <2>1. i \in 0 .. n /\ i \in 1 .. i /\ \A j \in 1 .. i : j \in 1 .. i - 1 \/ j = i
    BY <1>1
  <2>2. \A j \in 1 .. i - 1 : j \in 1 .. i /\ j \in 1 .. n
    BY <1>1
  <2>3. PICK v \in H(i - 1) : \A j \in 1 .. i - 1 : Held(attached[j], o) <= v
    BY <1>5
  <2> DEFINE w == Held(attached[i], o)
  <2>4. v \in Nat /\ w \in Nat /\ \A j \in 1 .. i - 1 : Held(attached[j], o) \in Nat
    BY <1>1, <1>2, <2>2
  <2>5. v \in H(i) /\ w \in H(i)
    BY <2>1, <2>2
  <2> HIDE DEF w
  <2>6. CASE w <= v
    <3>1. \A j \in 1 .. i : Held(attached[j], o) <= v
      BY <2>1, <2>3, <2>6 DEF w
    <3> QED BY <2>1, <2>5, <3>1
  <2>7. CASE ~(w <= v)
    <3>1. \A j \in 1 .. i - 1 : Held(attached[j], o) <= w
      BY <2>3, <2>4, <2>7
    <3>2. Held(attached[i], o) <= w
      BY <2>4 DEF w
    <3>3. \A j \in 1 .. i : Held(attached[j], o) <= w
      BY <2>1, <3>1, <3>2
    <3> QED BY <2>1, <2>5, <3>3
  <2> QED BY <2>6, <2>7
<1> HIDE DEF T
<1>6. n \in T
  <2>1. 0 .. n \subseteq T
    BY <1>1, <1>4, <1>5, SetInduction
  <2> QED BY <1>1, <2>1
<1>7. PICK v \in H(n) : \A j \in 1 .. n : Held(attached[j], o) <= v
  BY <1>6 DEF T
<1>8. H(n) = {0} \cup {Held(t, o) : t \in ToSet(attached)}
  BY <1>3
<1>9. \E x \in {0} \cup {Held(t, o) : t \in ToSet(attached)} :
         \A t \in ToSet(attached) : Held(t, o) <= x
  BY <1>3, <1>7, <1>8
<1>10. HighestHeld(o) \in {0} \cup {Held(t, o) : t \in ToSet(attached)}
  BY <1>9, Zenon DEF HighestHeld
<1>11. \A t \in ToSet(attached) : t \in Towers
  BY <1>1, <1>3
<1> QED BY <1>2, <1>10, <1>11

LEMMA TowerStep ==
  ASSUME TowerShape, Inside, [WatchNext]_watchVars
  PROVE  TowerShape' /\ Inside'
<1>1. ASSUME UNCHANGED <<attached, calls, pledge>>, calls = <<>>,
             record' \in [Towers -> [Chans -> States \cup {NoTx}]],
             \A t \in Towers, o \in Chans : record'[t][o] # NoTx => o \in Spends[record'[t][o]]
      PROVE  TowerShape' /\ Inside'
  BY <1>1 DEF TowerShape, Inside
<1>2. ASSUME NEW t \in Towers, NEW tx \in States, Register(t, tx) PROVE TowerShape' /\ Inside'
  <2>1. PICK o \in Chans : o \in Spends[tx] /\ record' = [record EXCEPT ![t][o] = tx]
    BY <1>2 DEF Register
  <2>2. record' \in [Towers -> [Chans -> States \cup {NoTx}]]
    BY <2>1 DEF TowerShape
  <2>3. \A u \in Towers, c \in Chans : record'[u][c] = IF u = t /\ c = o THEN tx ELSE record[u][c]
    BY <2>1 DEF TowerShape
  <2>4. \A u \in Towers, c \in Chans : record'[u][c] # NoTx => c \in Spends[record'[u][c]]
    BY <2>1, <2>3 DEF TowerShape
  <2> QED BY <1>1, <1>2, <2>2, <2>4 DEF Register
<1>3. ASSUME NEW tx \in States, RegisterChannel(tx) PROVE TowerShape' /\ Inside'
  <2>1. PICK o \in Chans : o \in Spends[tx] /\ record' = [t \in Towers |-> [record[t] EXCEPT ![o] = tx]]
    BY <1>3 DEF RegisterChannel
  <2>2. record' \in [Towers -> [Chans -> States \cup {NoTx}]]
    BY <2>1 DEF TowerShape
  <2>3. \A u \in Towers, c \in Chans : record'[u][c] = IF c = o THEN tx ELSE record[u][c]
    BY <2>1 DEF TowerShape
  <2>4. \A u \in Towers, c \in Chans : record'[u][c] # NoTx => c \in Spends[record'[u][c]]
    BY <2>1, <2>3 DEF TowerShape
  <2> QED BY <1>1, <1>3, <2>2, <2>4 DEF RegisterChannel
<1>4. ASSUME NEW tx \in Txs, Broadcast(tx) PROVE TowerShape' /\ Inside'
  <2>1. calls' = <<[tx |-> tx, todo |-> attached]>> /\ UNCHANGED <<attached, record, pc>> /\ Idle
        /\ pledge' = [o \in Chans |-> IF o \in Spends[tx] THEN HighestHeld(o) ELSE pledge[o]]
    BY <1>4 DEF Broadcast, SubmitTx, minerVars
  <2>2. [tx |-> tx, todo |-> attached] \in Frames
    BY DEF Frames, TowerShape
  <2>3. calls' \in Seq(Frames)
    BY <2>1, <2>2
  <2>4. pledge' \in [Chans -> Nat]
    BY <2>1, HighestIs DEF TowerShape
  <2> QED BY <2>1, <2>3, <2>4 DEF TowerShape, Inside, Idle
<1>5. CASE Observe
  <2> DEFINE f == calls[1]
             g == [f EXCEPT !.todo = Tail(@)]
  <2>1. /\ calls # <<>> /\ f \in Frames /\ f.todo # <<>>
        /\ UNCHANGED <<attached, record, pledge, pc>>
    BY <1>5, ObserveIs DEF minerVars
  <2>2. g \in Frames
    BY <2>1, TodoStep DEF Frames
  <2>3. calls \in Seq(Frames) /\ Rest(f) = <<g>> \o Tail(calls)
    BY DEF TowerShape, Rest
  <2>4. Rest(f) \in Seq(Frames)
    BY <2>1, <2>2, <2>3, StackStep
  <2>5. \A cur \in Txs : <<[tx |-> cur, todo |-> attached]>> \o Rest(f) \in Seq(Frames)
    <3> SUFFICES ASSUME NEW cur \in Txs
                 PROVE  <<[tx |-> cur, todo |-> attached]>> \o Rest(f) \in Seq(Frames)
      OBVIOUS
    <3>1. [tx |-> cur, todo |-> attached] \in Frames
      BY DEF Frames, TowerShape
    <3> HIDE DEF f, g
    <3> QED BY <2>1, <2>2, <2>3, <3>1, StackStep
  <2>6. \A cur \in Resp(f) : cur \in Txs
    <3>1. f.tx \in Txs /\ f.todo \in Seq(Towers) /\ Head(f.todo) \in Towers
      BY <2>1, TodoStep DEF Frames
    <3> QED BY <3>1, Response DEF Resp
  <2>7. calls' \in Seq(Frames)
    BY <1>5, <2>4, <2>5, <2>6, ObserveIs
  <2>8. Inside'
    BY <2>1 DEF Inside, Idle
  <2> QED BY <2>1, <2>7, <2>8 DEF TowerShape
<1>6. CASE EndNotify
  <2>1. calls # <<>> /\ calls' = Tail(calls) /\ UNCHANGED <<attached, record, pledge, pc>>
    BY <1>6 DEF EndNotify, nodeVars, minerVars
  <2>2. Tail(calls) \in Seq(Frames)
    BY <2>1, HeadTailProperties DEF TowerShape
  <2> QED BY <2>1, <2>2 DEF TowerShape, Inside, Idle
<1>7. ASSUME NEW t \in Towers, Forfeit(t) PROVE TowerShape' /\ Inside'
  BY <1>4, <1>7, TowerAssumption DEF Forfeit
<1>8. ASSUME NEW t \in Towers, Disable(t) \/ Enable(t) PROVE TowerShape' /\ Inside'
  <2>1. calls = <<>> /\ UNCHANGED <<record, calls, pledge>>
    BY <1>8 DEF Disable, Enable
  <2>2. attached' \in Seq(Towers)
    <3>1. CASE Enable(t)
      <4>1. Append(attached, t) \in Seq(Towers)
        BY AppendProperties DEF TowerShape
      <4> QED BY <3>1, <4>1 DEF Enable
    <3>2. CASE Disable(t)
      <4>1. RemoveFirst(attached, t) \in Seq(Towers)
        BY RemoveFirstType DEF TowerShape
      <4> QED BY <3>2, <4>1 DEF Disable
    <3> QED BY <1>8, <3>1, <3>2
  <2> QED BY <2>1, <2>2 DEF TowerShape, Inside
<1>9. CASE Mine
  BY <1>9 DEF Mine, towerVars, TowerShape, Inside
<1>10. CASE UNCHANGED watchVars
  BY <1>10 DEF watchVars, towerVars, nodeVars, minerVars, TowerShape, Inside, Idle
<1> QED BY <1>2, <1>3, <1>4, <1>5, <1>6, <1>7, <1>8, <1>9, <1>10 DEF WatchNext

LEMMA TowerInvariant == WatchSpec => [](TowerShape /\ Inside)
  BY TowerInit, TowerStep, PTL DEF WatchSpec

\* What Observe admits is a transaction.
LEMMA RespTxs ==
  ASSUME TowerShape, Observe
  PROVE  Resp(calls[1]) \subseteq Txs
<1>1. calls[1].tx \in Txs /\ Head(calls[1].todo) \in Towers
  BY ObserveIs, TodoStep DEF Frames
<1> QED BY <1>1, Response DEF Resp

LEMMA NodeStepOfTowers ==
  ASSUME TowerShape, Inside, [WatchNext]_watchVars
  PROVE  [NodeNext]_nodeVars
<1>1. ASSUME NEW tx \in Txs, Broadcast(tx) PROVE NodeNext
  BY <1>1 DEF Broadcast, NodeNext
<1>2. CASE Observe
  <2>1. CASE \E cur \in Resp(calls[1]) : Admit(cur)
    <3>1. PICK cur \in Txs : Admit(cur)
      BY <1>2, <2>1, RespTxs
    <3>2. SubmitTx(cur)
      BY <1>2, <3>1, ObserveIs DEF SubmitTx, Inside
    <3> QED BY <3>2 DEF NodeNext
  <2>2. CASE UNCHANGED <<utxo, pool>>
    BY <1>2, <2>2, ObserveIs DEF nodeVars
  <2> QED BY <1>2, <2>1, <2>2, ObserveIs
<1>3. CASE Mine
  BY <1>3 DEF Mine, NodeNext
<1>4. CASE \E t \in Towers, tx \in States : Register(t, tx)
  BY <1>4 DEF Register
<1>5. CASE \E tx \in States : RegisterChannel(tx)
  BY <1>5 DEF RegisterChannel
<1>6. CASE EndNotify
  BY <1>6 DEF EndNotify
<1>7. ASSUME NEW t \in Towers, Forfeit(t) PROVE NodeNext
  BY <1>1, <1>7, TowerAssumption DEF Forfeit
<1>8. CASE \E t \in Towers : Disable(t) \/ Enable(t)
  BY <1>8 DEF Disable, Enable
<1>9. CASE UNCHANGED watchVars
  BY <1>9 DEF watchVars
<1> QED BY <1>1, <1>2, <1>3, <1>4, <1>5, <1>6, <1>7, <1>8, <1>9 DEF WatchNext

\* The node with towers attached is still a node: they act on it only through
\* submit_tx, from inside another submit_tx, so every theorem about the node
\* holds with any number of towers.
THEOREM TowersUseNode == WatchSpec => NodeSpec
<1>1. WatchInit => NodeInit
  BY DEF WatchInit
<1> QED BY <1>1, NodeStepOfTowers, TowerInvariant, PTL DEF WatchSpec, NodeSpec

-----------------------------------------------------------------------------
(***************************************************************************)
(* A stale state is overtaken.                                             *)
(***************************************************************************)
Overtaken(o) == spentBy[o] # NoTx => InputSeq[spentBy[o]][o] >= pledge[o]

Outer == calls[Len(calls)]

\* Towers that the outermost _notify has already called hold nothing newer than
\* the pool: what one of them had to answer is in, or was overtaken.
Defended(o) ==
    /\ o \in utxo /\ spentBy[o] \in Txs
    /\ InputSeq[Outer.tx][o] <= InputSeq[spentBy[o]][o]
    /\ \A t \in ToSet(attached) :
         t \in ToSet(Outer.todo) \/ Held(t, o) <= InputSeq[spentBy[o]][o]
    /\ pledge[o] = 0 \/ \E t \in ToSet(attached) : pledge[o] = Held(t, o)

\* The nested _notify calls are all about the channel of the outermost one; the
\* others are left as they were.
Watched ==
    /\ calls = <<>> => \A o \in Chans : Overtaken(o)
    /\ calls # <<>> =>
         /\ \A i \in 1 .. Len(calls), o \in Chans :
              o \in Spends[calls[i].tx] <=> o \in Spends[Outer.tx]
         /\ \A o \in Chans : IF o \in Spends[Outer.tx] THEN Defended(o) ELSE Overtaken(o)

\* An admitted transaction takes over what it spends; elsewhere the index only
\* loses rows.
LEMMA AdmitIndex ==
  ASSUME PoolInv, NEW tx \in Txs, Admit(tx), NEW o \in Outpoints
  PROVE  IF o \in Spends[tx] THEN spentBy'[o] = tx ELSE spentBy'[o] \in {spentBy[o], NoTx}
  BY DEF Admit, IndexWithout

\* It raises the sequence of what it takes over.
LEMMA AdmitRaises ==
  ASSUME PoolInv, NEW tx \in Txs, Admit(tx), NEW o \in Spends[tx], spentBy[o] # NoTx
  PROVE  InputSeq[spentBy[o]][o] < InputSeq[tx][o]
<1>1. o \in Outpoints /\ spentBy[o] \in Txs
  BY TxAssumption DEF PoolInv, PoolTypeOK
<1>2. spentBy[o] \in entries /\ o \in Spends[spentBy[o]]
  BY <1>1 DEF PoolInv, IndexExact
<1>3. spentBy[o] # tx
  BY <1>2 DEF Admit, Admissible
<1>4. spentBy[o] \in Conflicts(tx)
  BY <1>3 DEF Conflicts
<1>5. Outbids(tx, spentBy[o])
  BY <1>4 DEF Admit, Admissible, ReplacementOK
<1>6. InputSeq[tx][o] \in Nat /\ InputSeq[spentBy[o]][o] \in Nat
  BY <1>1, <1>2, TxAssumption
<1> QED BY <1>2, <1>5, <1>6 DEF Outbids

\* A tower's state that is not admissible has nothing to overtake.
LEMMA NotAdmissible ==
  ASSUME PoolInv, NEW cur \in States, NEW o \in Chans, Spends[cur] = {o}, o \in utxo,
         spentBy[o] \in Txs, ~Admissible(cur)
  PROVE  InputSeq[cur][o] <= InputSeq[spentBy[o]][o]
<1>1. cur \in Txs /\ cur \in Accepted /\ o \in Outpoints
  BY TowerAssumption, TxAssumption
<1>2. spentBy[o] \in entries /\ o \in Spends[spentBy[o]] /\ spentBy[o] # NoTx
  BY <1>1, TxAssumption DEF PoolInv, IndexExact
<1>3. InputSeq[cur][o] \in Nat /\ InputSeq[spentBy[o]][o] \in Nat
  BY <1>1, <1>2, TxAssumption
<1>4. CASE spentBy[o] = cur
  BY <1>3, <1>4
<1>5. CASE spentBy[o] # cur
  <2>1. cur \notin entries
    BY <1>1, <1>5 DEF PoolInv, IndexExact
  <2>2. Validates(cur)
    BY <1>1 DEF Validates
  <2>3. Conflicts(cur) = {spentBy[o]}
    BY <1>2, <1>5 DEF Conflicts
  <2>4. ~Outbids(cur, spentBy[o])
    BY <2>1, <2>2, <2>3 DEF Admissible, ReplacementOK
  <2>5. ~(InputSeq[cur][o] > InputSeq[spentBy[o]][o])
    BY <2>4 DEF Outbids
  <2> QED BY <1>3, <2>5
<1> QED BY <1>4, <1>5

LEMMA HeldNat ==
  ASSUME TowerShape, NEW t \in Towers, NEW o \in Chans
  PROVE  Held(t, o) \in Nat
<1>1. CASE record[t][o] = NoTx
  BY <1>1 DEF Held
<1>2. CASE record[t][o] # NoTx
  <2>1. record[t][o] \in Txs /\ o \in Spends[record[t][o]]
    BY <1>2, TowerAssumption, TxAssumption DEF TowerShape
  <2> QED BY <1>2, <2>1, TxAssumption DEF Held
<1> QED BY <1>1, <1>2

\* The outermost frame stays the outermost one; it has called one more observer
\* if it is the only one.
LEMMA OuterStep ==
  ASSUME TowerShape, Observe, NEW h \in Frames
  PROVE  LET f == calls[1]
             more == <<h>> \o Rest(f)
             Bottom(s) == s[Len(s)]
             Follows(g) == /\ g.tx = Outer.tx
                           /\ \A u \in ToSet(Outer.todo) :
                                u \in ToSet(g.todo) \/ (Outer = f /\ u = Head(f.todo))
         IN  /\ Rest(f) # <<>> /\ Follows(Bottom(Rest(f)))
             /\ \A i \in 1 .. Len(Rest(f)) : Rest(f)[i].tx = calls[i].tx /\ i \in 1 .. Len(calls)
             /\ more # <<>> /\ Follows(Bottom(more))
             /\ \A i \in 1 .. Len(more) :
                  more[i] = h \/ \E j \in 1 .. Len(calls) : more[i].tx = calls[j].tx
<1> DEFINE f == calls[1]
           g == [f EXCEPT !.todo = Tail(@)]
           n == Len(calls)
           rest == Rest(f)
           more == <<h>> \o rest
           Follows(k) == /\ k.tx = Outer.tx
                         /\ \A u \in ToSet(Outer.todo) :
                              u \in ToSet(k.todo) \/ (Outer = f /\ u = Head(f.todo))
<1>1. /\ calls \in Seq(Frames) /\ calls # <<>> /\ f \in Frames /\ f.todo # <<>>
  BY ObserveIs DEF TowerShape
<1>2. n \in Nat \ {0}
  BY <1>1, LenProperties, EmptySeq
<1>3. /\ g \in Frames /\ g.tx = f.tx /\ g.todo = Tail(f.todo)
      /\ \A u \in ToSet(f.todo) : u = Head(f.todo) \/ u \in ToSet(g.todo)
  BY <1>1, TodoStep DEF Frames
<1>4. rest = <<g>> \o Tail(calls)
  BY DEF Rest
<1> HIDE DEF f, g
<1>5. /\ rest # <<>> /\ Len(rest) = n /\ rest[1] = g /\ \A i \in 2 .. n : rest[i] = calls[i]
      /\ more # <<>> /\ Len(more) = n + 1 /\ more[1] = h
      /\ \A i \in 1 .. n : more[i + 1] = rest[i]
  BY <1>1, <1>3, <1>4, StackStep
<1> HIDE DEF rest, more
<1>6. Outer = calls[n] /\ f = calls[1]
  BY DEF Outer, f
<1> HIDE DEF n
<1>7. Follows(rest[n])
  <2>1. CASE n = 1
    BY <1>3, <1>5, <1>6, <2>1
  <2>2. CASE n # 1
    <3>1. n \in 2 .. n
      BY <1>2, <2>2
    <3> QED BY <1>5, <1>6, <3>1
  <2> QED BY <2>1, <2>2
<1> HIDE DEF Follows
<1>8. Follows(more[n + 1])
  <2>1. n \in 1 .. n
    BY <1>2
  <2> QED BY <1>5, <1>7, <2>1
<1>9. \A i \in 1 .. n : rest[i].tx = calls[i].tx
  <2> SUFFICES ASSUME NEW i \in 1 .. n PROVE rest[i].tx = calls[i].tx
    OBVIOUS
  <2>1. CASE i = 1
    BY <1>3, <1>5, <1>6, <2>1
  <2>2. CASE i # 1
    <3>1. i \in 2 .. n
      BY <1>2, <2>2
    <3> QED BY <1>5, <3>1
  <2> QED BY <2>1, <2>2
<1>10. \A i \in 1 .. n + 1 : more[i] = h \/ \E j \in 1 .. n : more[i].tx = calls[j].tx
  <2> SUFFICES ASSUME NEW i \in 1 .. n + 1, i # 1 PROVE \E j \in 1 .. n : more[i].tx = calls[j].tx
    BY <1>5
  <2>1. i - 1 \in 1 .. n /\ (i - 1) + 1 = i
    BY <1>2
  <2>2. more[(i - 1) + 1] = rest[i - 1]
    BY <1>5, <2>1
  <2> QED BY <1>9, <2>1, <2>2
<1>11. /\ Follows(rest[Len(rest)]) /\ Follows(more[Len(more)])
       /\ \A i \in 1 .. Len(rest) : rest[i].tx = calls[i].tx /\ i \in 1 .. n
       /\ \A i \in 1 .. Len(more) : more[i] = h \/ \E j \in 1 .. n : more[i].tx = calls[j].tx
  BY <1>5, <1>7, <1>8, <1>9, <1>10
<1> QED BY <1>5, <1>11 DEF Follows, rest, more, f, n

\* Broadcast: the outermost call begins, with every tower still to be called.
LEMMA BroadcastStep ==
  ASSUME TowerShape, PoolInv, Watched, NEW tx \in Txs, Broadcast(tx)
  PROVE  Watched'
<1> DEFINE f == [tx |-> tx, todo |-> attached]
<1>1. /\ calls = <<>> /\ calls' = <<f>> /\ Admit(tx) /\ UNCHANGED <<attached, record>>
      /\ pledge' = [o \in Chans |-> IF o \in Spends[tx] THEN HighestHeld(o) ELSE pledge[o]]
  BY DEF Broadcast, SubmitTx
<1>2. Len(<<f>>) = 1 /\ <<f>>[1] = f /\ <<f>> # <<>> /\ f.tx = tx /\ f.todo = attached
  OBVIOUS
<1> HIDE DEF f
<1>3. Outer' = f /\ Len(calls') = 1 /\ calls'[1] = f /\ calls' # <<>>
  BY <1>1, <1>2 DEF Outer
<1>4. ASSUME NEW o \in Chans, o \in Spends[tx] PROVE Defended(o)'
  <2>1. o \in Outpoints
    BY <1>4, TxAssumption
  <2>2. spentBy'[o] = tx /\ utxo' = utxo /\ o \in utxo
    BY <1>1, <1>4, <2>1, AdmitIndex DEF Admit, Admissible, Validates
  <2>3. pledge'[o] = HighestHeld(o)
    BY <1>1, <1>4
  <2>4. \A t : Held(t, o)' = Held(t, o)
    BY <1>1 DEF Held
  <2>5. InputSeq[tx][o] \in Nat
    BY <1>4, TxAssumption
  <2>6. pledge'[o] = 0 \/ \E t \in ToSet(attached') : pledge'[o] = Held(t, o)'
    BY <1>1, <2>3, <2>4, HighestIs
  <2> QED BY <1>1, <1>2, <1>3, <2>2, <2>5, <2>6 DEF Defended
<1>5. ASSUME NEW o \in Chans, o \notin Spends[tx] PROVE Overtaken(o)'
  <2>1. Overtaken(o) /\ pledge'[o] = pledge[o]
    BY <1>1, <1>5 DEF Watched
  <2>2. spentBy'[o] \in {spentBy[o], NoTx} \/ spentBy'[o] = NoTx
    BY <1>1, <1>5, AdmitIndex, TowerAssumption
  <2> QED BY <2>1, <2>2 DEF Overtaken
<1> QED BY <1>2, <1>3, <1>4, <1>5 DEF Watched

\* A tower answers, from inside a running submit_tx.
LEMMA AnswerStep ==
  ASSUME TowerShape, PoolInv, Watched, Observe, NEW cur \in Resp(calls[1]), Admit(cur),
         calls' = <<[tx |-> cur, todo |-> attached]>> \o Rest(calls[1])
  PROVE  Watched'
<1> DEFINE f == calls[1]
           h == [tx |-> cur, todo |-> attached]
           t == Head(f.todo)
<1>1. /\ calls # <<>> /\ f \in Frames /\ t \in Towers /\ f.tx \in Txs /\ 1 \in 1 .. Len(calls)
      /\ UNCHANGED <<attached, record, pledge>>
  <2>1. Len(calls) \in Nat \ {0}
    BY ObserveIs, LenProperties, EmptySeq DEF TowerShape
  <2> QED BY <2>1, ObserveIs, TodoStep DEF Frames
<1>2. PICK c \in Chans : Stale(t, f.tx, c) /\ cur = record[t][c]
  BY DEF Resp
<1>3. cur \in States /\ cur \in Txs /\ Spends[cur] = {c} /\ c \in Spends[f.tx]
      /\ Held(t, c) = InputSeq[cur][c]
  BY <1>1, <1>2, Response
<1>4. h \in Frames /\ h.tx = cur
  BY <1>3 DEF Frames, TowerShape
<1>5. /\ calls' # <<>> /\ Outer'.tx = Outer.tx
      /\ \A u \in ToSet(Outer.todo) : u \in ToSet(Outer'.todo) \/ (Outer = f /\ u = t)
      /\ \A i \in 1 .. Len(calls') :
           calls'[i] = h \/ \E j \in 1 .. Len(calls) : calls'[i].tx = calls[j].tx
  BY <1>4, OuterStep DEF Outer
<1> HIDE DEF f, h, t
<1>6. c \in Spends[Outer.tx] /\ Defended(c)
  BY <1>1, <1>3 DEF Watched, f
<1>7. Outer.tx \in Txs
  <2>1. Len(calls) \in 1 .. Len(calls)
    BY <1>1, LenProperties DEF TowerShape
  <2>2. Outer \in Frames
    BY <2>1, ElementOfSeq DEF Outer, TowerShape
  <2> QED BY <2>2 DEF Frames
<1>8. \A o \in Chans : o \in Spends[Outer.tx] <=> o = c
  BY <1>6, <1>7, TowerAssumption
<1>9. \A i \in 1 .. Len(calls'), o \in Chans : o \in Spends[calls'[i].tx] <=> o \in Spends[Outer'.tx]
  <2> SUFFICES ASSUME NEW i \in 1 .. Len(calls'), NEW o \in Chans
               PROVE  o \in Spends[calls'[i].tx] <=> o \in Spends[Outer'.tx]
    OBVIOUS
  <2>1. CASE calls'[i] = h
    BY <1>3, <1>4, <1>5, <1>8, <2>1
  <2>2. CASE \E j \in 1 .. Len(calls) : calls'[i].tx = calls[j].tx
    BY <1>1, <1>5, <2>2 DEF Watched
  <2> QED BY <1>5, <2>1, <2>2
<1>10. Defended(c)'
  <2>1. c \in Outpoints /\ c \in Spends[cur]
    BY <1>3, TowerAssumption
  <2>2. spentBy'[c] = cur /\ utxo' = utxo
    BY <1>3, <2>1, AdmitIndex DEF Admit
  <2>3. InputSeq[spentBy[c]][c] < InputSeq[cur][c]
    BY <1>3, <1>6, <2>1, AdmitRaises, TxAssumption DEF Defended
  <2>4. spentBy[c] \in Txs /\ c \in Spends[spentBy[c]]
    BY <1>6, <2>1 DEF Defended, PoolInv, IndexExact
  <2>5. InputSeq[Outer.tx][c] \in Nat /\ InputSeq[cur][c] \in Nat /\ InputSeq[spentBy[c]][c] \in Nat
    BY <1>3, <1>6, <1>7, <2>1, <2>4, TxAssumption
  <2>6. InputSeq[Outer'.tx][c] <= InputSeq[spentBy'[c]][c]
    BY <1>5, <1>6, <2>2, <2>3, <2>5 DEF Defended
  <2>7. \A u : Held(u, c)' = Held(u, c)
    BY <1>1 DEF Held
  <2>8. ASSUME NEW u \in ToSet(attached) PROVE u \in ToSet(Outer'.todo) \/ Held(u, c) <= InputSeq[cur][c]
    <3>1. u \in Towers /\ Held(u, c) \in Nat
      BY <2>8, HeldNat, LenProperties, ElementOfSeq DEF ToSet, TowerShape
    <3>2. CASE u \in ToSet(Outer.todo)
      BY <1>3, <1>5, <2>5, <3>2
    <3>3. CASE Held(u, c) <= InputSeq[spentBy[c]][c]
      BY <2>3, <2>5, <3>1, <3>3
    <3> QED BY <1>6, <3>2, <3>3 DEF Defended
  <2>9. pledge'[c] = 0 \/ \E u \in ToSet(attached') : pledge'[c] = Held(u, c)'
    BY <1>1, <1>6, <2>7 DEF Defended
  <2>10. \A u \in ToSet(attached') : u \in ToSet(Outer'.todo) \/ Held(u, c)' <= InputSeq[spentBy'[c]][c]
    BY <1>1, <2>2, <2>7, <2>8
  <2> QED BY <1>3, <1>6, <2>2, <2>6, <2>9, <2>10 DEF Defended
<1>11. ASSUME NEW o \in Chans, o # c PROVE Overtaken(o)'
  <2>1. Overtaken(o) /\ o \notin Spends[cur]
    BY <1>1, <1>3, <1>8, <1>11 DEF Watched
  <2>2. spentBy'[o] \in {spentBy[o], NoTx}
    BY <1>3, <2>1, AdmitIndex, TowerAssumption
  <2> QED BY <1>1, <2>1, <2>2 DEF Overtaken
<1> QED BY <1>5, <1>8, <1>9, <1>10, <1>11 DEF Watched

\* A tower has nothing to answer, or nothing the pool would take.
LEMMA SilentStep ==
  ASSUME TowerShape, PoolInv, Watched, Observe, \A cur \in Resp(calls[1]) : ~Admissible(cur),
         calls' = Rest(calls[1]), UNCHANGED <<utxo, pool>>
  PROVE  Watched'
<1> DEFINE f == calls[1]
           t == Head(f.todo)
<1>1. /\ calls # <<>> /\ f \in Frames /\ t \in Towers /\ f.tx \in Txs /\ 1 \in 1 .. Len(calls)
      /\ UNCHANGED <<attached, record, pledge, spentBy, utxo>>
  <2>1. Len(calls) \in Nat \ {0}
    BY ObserveIs, LenProperties, EmptySeq DEF TowerShape
  <2> QED BY <2>1, ObserveIs, TodoStep DEF Frames, pool
<1>2. /\ calls' # <<>> /\ Outer'.tx = Outer.tx
      /\ \A u \in ToSet(Outer.todo) : u \in ToSet(Outer'.todo) \/ (Outer = f /\ u = t)
      /\ \A i \in 1 .. Len(calls') : calls'[i].tx = calls[i].tx /\ i \in 1 .. Len(calls)
  BY <1>1, OuterStep DEF Outer
<1> HIDE DEF f, t
<1>3. \A i \in 1 .. Len(calls'), o \in Chans : o \in Spends[calls'[i].tx] <=> o \in Spends[Outer'.tx]
  BY <1>1, <1>2 DEF Watched
<1>4. ASSUME NEW o \in Chans, o \in Spends[Outer.tx] PROVE Defended(o)'
  <2>1. Defended(o) /\ o \in Outpoints
    BY <1>1, <1>4, TowerAssumption DEF Watched
  <2>2. \A u : Held(u, o)' = Held(u, o)
    BY <1>1 DEF Held
  <2>3. Outer = f => Held(t, o) <= InputSeq[spentBy[o]][o]
    <3> SUFFICES ASSUME Outer = f PROVE Held(t, o) <= InputSeq[spentBy[o]][o]
      OBVIOUS
    <3>1. o \in Spends[f.tx] /\ InputSeq[f.tx][o] <= InputSeq[spentBy[o]][o]
      BY <1>4, <2>1 DEF Defended
    <3>2. spentBy[o] \in Txs /\ o \in Spends[spentBy[o]]
      BY <2>1 DEF Defended, PoolInv, IndexExact
    <3>3. InputSeq[f.tx][o] \in Nat /\ InputSeq[spentBy[o]][o] \in Nat /\ Held(t, o) \in Nat
      BY <1>1, <3>1, <3>2, TxAssumption, HeldNat
    <3>4. CASE Stale(t, f.tx, o)
      <4>1. /\ record[t][o] \in States /\ Spends[record[t][o]] = {o}
            /\ Held(t, o) = InputSeq[record[t][o]][o]
        BY <1>1, <3>4, Response
      <4>2. ~Admissible(record[t][o])
        BY <3>4 DEF Resp, f, t
      <4> QED BY <2>1, <4>1, <4>2, NotAdmissible DEF Defended
    <3>5. CASE record[t][o] = NoTx
      BY <3>3, <3>5 DEF Held
    <3>6. CASE ~(InputSeq[f.tx][o] < Held(t, o))
      BY <3>1, <3>3, <3>6
    <3> QED BY <3>1, <3>4, <3>5, <3>6 DEF Stale
  <2>4. \A u \in ToSet(attached') : u \in ToSet(Outer'.todo) \/ Held(u, o)' <= InputSeq[spentBy'[o]][o]
    BY <1>1, <1>2, <2>1, <2>2, <2>3 DEF Defended
  <2>5. pledge'[o] = 0 \/ \E u \in ToSet(attached') : pledge'[o] = Held(u, o)'
    BY <1>1, <2>1, <2>2 DEF Defended
  <2> QED BY <1>1, <1>2, <2>1, <2>4, <2>5 DEF Defended
<1>5. ASSUME NEW o \in Chans, o \notin Spends[Outer.tx] PROVE Overtaken(o)'
  BY <1>1, <1>5 DEF Watched, Overtaken
<1> QED BY <1>2, <1>3, <1>4, <1>5 DEF Watched

\* A _notify loop ends.  When the outermost one does, every online tower was
\* called, so the pool holds at least the newest state any of them held.
LEMMA EndStep ==
  ASSUME TowerShape, PoolInv, Watched, EndNotify
  PROVE  Watched'
<1>1. /\ calls # <<>> /\ calls[1].todo = <<>> /\ calls' = Tail(calls)
      /\ UNCHANGED <<attached, record, pledge, spentBy, utxo>>
  BY DEF EndNotify, nodeVars, pool
<1>2. /\ Len(calls) \in Nat \ {0} /\ Len(Tail(calls)) = Len(calls) - 1
      /\ Tail(calls) \in Seq(Frames)
      /\ \A i \in 1 .. Len(calls) - 1 : Tail(calls)[i] = calls[i + 1]
  BY <1>1, HeadTailProperties, LenProperties, EmptySeq DEF TowerShape
<1>3. CASE Len(calls) = 1
  <2>1. calls' = <<>>
    BY <1>1, <1>2, <1>3, EmptySeq
  <2>2. Outer = calls[1] /\ ToSet(Outer.todo) = {}
    BY <1>1, <1>3 DEF Outer, ToSet
  <2>3. ASSUME NEW o \in Chans PROVE Overtaken(o)'
    <3>1. CASE o \notin Spends[Outer.tx]
      BY <1>1, <2>3, <3>1 DEF Watched, Overtaken
    <3>2. CASE o \in Spends[Outer.tx]
      <4>1. Defended(o) /\ o \in Outpoints
        BY <1>1, <2>3, <3>2, TowerAssumption DEF Watched
      <4>2. spentBy[o] \in Txs /\ o \in Spends[spentBy[o]] /\ InputSeq[spentBy[o]][o] \in Nat
        BY <4>1, TxAssumption DEF Defended, PoolInv, IndexExact
      <4>3. \A t \in ToSet(attached) : Held(t, o) <= InputSeq[spentBy[o]][o] /\ Held(t, o) \in Nat
        <5> SUFFICES ASSUME NEW t \in ToSet(attached)
                     PROVE  Held(t, o) <= InputSeq[spentBy[o]][o] /\ Held(t, o) \in Nat
          OBVIOUS
        <5>1. t \in Towers
          BY LenProperties, ElementOfSeq DEF ToSet, TowerShape
        <5> QED BY <2>2, <4>1, <5>1, HeldNat DEF Defended
      <4>4. pledge[o] \in Nat /\ pledge[o] <= InputSeq[spentBy[o]][o]
        BY <4>1, <4>2, <4>3 DEF Defended, TowerShape
      <4> QED BY <1>1, <4>2, <4>4 DEF Overtaken
    <3> QED BY <3>1, <3>2
  <2> QED BY <2>1, <2>3 DEF Watched
<1>4. CASE Len(calls) # 1
  <2>1. /\ Len(calls) - 1 \in 1 .. Len(calls) - 1 /\ (Len(calls) - 1) + 1 = Len(calls)
        /\ \A i \in 1 .. Len(calls) - 1 : i + 1 \in 1 .. Len(calls)
    BY <1>2, <1>4
  <2>2. Outer' = Outer /\ Len(calls') = Len(calls) - 1 /\ calls' # <<>>
    <3>1. Len(calls') = Len(calls) - 1
      BY <1>1, <1>2
    <3>2. calls'[Len(calls) - 1] = calls[Len(calls)]
      BY <1>1, <1>2, <2>1
    <3>3. calls' # <<>>
      BY <1>2, <1>4, <3>1
    <3> QED BY <3>1, <3>2, <3>3 DEF Outer
  <2>3. \A i \in 1 .. Len(calls'), o \in Chans : o \in Spends[calls'[i].tx] <=> o \in Spends[Outer'.tx]
    BY <1>1, <1>2, <2>1, <2>2 DEF Watched
  <2>4. \A o \in Chans : Defended(o)' = Defended(o) /\ Overtaken(o)' = Overtaken(o)
    BY <1>1, <2>2 DEF Defended, Overtaken, Held
  <2> QED BY <1>1, <2>2, <2>3, <2>4 DEF Watched
<1> QED BY <1>3, <1>4

\* Between calls a block only takes rows out of the index.
LEMMA MineStep ==
  ASSUME NodeShape, Watched, Mine
  PROVE  Watched'
<1>1. calls = <<>> /\ UNCHANGED <<attached, record, calls, pledge>>
  BY DEF Mine, towerVars
<1>2. ASSUME NEW T, Evict(T), NEW o \in Outpoints PROVE spentBy'[o] \in {spentBy[o], NoTx}
  BY <1>2 DEF Evict, IndexWithout
<1>3. ASSUME NEW o \in Chans PROVE spentBy'[o] \in {spentBy[o], NoTx}
  <2>0. o \in Outpoints
    BY TowerAssumption
  <2>1. ASSUME NEW m \in Miners, Generate(m), ~GenEvict(m)
        PROVE  spentBy'[o] \in {spentBy[o], NoTx}
    BY <2>1 DEF Generate, GenSnapshot, GenInsertHeader, GenSetTip, GenConnectUtxos, GenReturn, pool
  <2>2. CASE \E m \in Miners : GenEvict(m)
    BY <1>2, <2>0, <2>2 DEF GenEvict
  <2>3. ASSUME NEW p \in 0 .. count, NEW w \in Works, NEW txs \in PeerBodies(p),
               AcceptBlock(p, w, txs)
        PROVE  spentBy'[o] \in {spentBy[o], NoTx}
    BY <1>2, <2>0, <2>3, AcceptStep
  <2> QED BY <2>1, <2>2, <2>3 DEF Mine
<1>4. \A o \in Chans : Overtaken(o)'
  BY <1>1, <1>3 DEF Watched, Overtaken
<1> QED BY <1>1, <1>4 DEF Watched

LEMMA WatchedStep ==
  ASSUME NodeShape, PoolInv, TowerShape, Watched, [WatchNext]_watchVars
  PROVE  Watched'
<1>1. ASSUME NEW t \in Towers, Forfeit(t) PROVE Watched'
  BY <1>1, BroadcastStep, TowerAssumption DEF Forfeit
<1>2. ASSUME calls = <<>>, UNCHANGED <<calls, spentBy, pledge>> PROVE Watched'
  BY <1>2 DEF Watched, Overtaken
<1>3. CASE \E t \in Towers, tx \in States : Register(t, tx)
  BY <1>2, <1>3 DEF Register, nodeVars, pool
<1>4. CASE \E tx \in States : RegisterChannel(tx)
  BY <1>2, <1>4 DEF RegisterChannel, nodeVars, pool
<1>5. CASE \E tx \in Txs : Broadcast(tx)
  BY <1>5, BroadcastStep
<1>6. CASE Observe
  BY <1>6, ObserveIs, AnswerStep, SilentStep
<1>7. CASE EndNotify
  BY <1>7, EndStep
<1>8. CASE \E t \in Towers : Disable(t) \/ Enable(t)
  BY <1>2, <1>8 DEF Disable, Enable, nodeVars, pool
<1>9. CASE Mine
  BY <1>9, MineStep
<1>10. CASE UNCHANGED watchVars
  BY <1>10 DEF watchVars, towerVars, nodeVars, pool, Watched, Overtaken, Defended, Outer, Held
<1> QED BY <1>1, <1>3, <1>4, <1>5, <1>6, <1>7, <1>8, <1>9, <1>10 DEF WatchNext

LEMMA WatchedInvariant == WatchSpec => []Watched
<1>1. WatchInit => Watched
  BY TowerAssumption DEF WatchInit, NodeInit, Watched, Overtaken
<1> QED BY <1>1, WatchedStep, TowersUseNode, NodeShapeInvariant, NodePool, TowerInvariant, PTL
        DEF WatchSpec

\* Tower._observe, called from inside admit: when submit_tx returns, the pool
\* holds for every channel a state at least as new as the newest one any online
\* tower held, for any number of towers, whatever they hold, in any order.
THEOREM StaleIsOvertaken == WatchSpec => []StaleOvertaken
<1>1. Watched => StaleOvertaken
  BY DEF Watched, Overtaken, StaleOvertaken
<1> QED BY <1>1, WatchedInvariant, PTL

\* So the node mines no state that an online tower should have overtaken, as
\* long as its calls do not overlap.
THEOREM StaleIsNeverMined ==
  ASSUME ~Concurrent
  PROVE  WatchSpec => StaleNeverMined
<1> DEFINE A == \A o \in Chans, tx \in Txs :
              (count' # count /\ fed' = fed /\ tx \in ToSet(body'[count']) /\ o \in Spends[tx])
                 => InputSeq[tx][o] >= pledge[o]
<1>1. ASSUME NodeShape, PoolInv, Mining, TowerShape, Watched, [WatchNext]_watchVars
      PROVE  [A]_watchVars
  <2> SUFFICES ASSUME NEW o \in Chans, NEW tx \in Txs, count' # count, fed' = fed,
                      tx \in ToSet(body'[count']), o \in Spends[tx]
               PROVE  InputSeq[tx][o] >= pledge[o]
    OBVIOUS
  <2>1. ASSUME NEW m \in Miners, GenInsertHeader(m), calls = <<>>
        PROVE  InputSeq[tx][o] >= pledge[o]
    <3>1. snap[m].tip \in 0 .. count /\ snap[m].txs \in Seq(Txs)
      <4>1. snap[m].tip \in Nat /\ count \in Nat /\ snap[m].tip <= count /\ snap[m].txs \in Seq(Txs)
        BY <1>1, SnapTxs, BlocksFacts DEF NodeShape, MinerShape, HeaderShape
      <4> QED BY <4>1
    <3>2. body'[count'] = snap[m].txs
      BY <1>1, <2>1, <3>1, InsertStep DEF GenInsertHeader, NodeShape
    <3>3. tx \in entries
      BY <1>1, <2>1, <3>2 DEF Mining, GenInsertHeader
    <3>4. spentBy[o] = tx /\ tx # NoTx
      BY <1>1, <3>3, TowerAssumption, TxAssumption DEF PoolInv, IndexExact
    <3> QED BY <1>1, <2>1, <3>4 DEF Watched, Overtaken
  <2>2. CASE Mine
    <3>1. ASSUME NEW p \in 0 .. count, NEW w \in Works, NEW txs \in PeerBodies(p),
                 AcceptBlock(p, w, txs)
          PROVE  FALSE
      BY <1>1, <3>1 DEF AcceptBlock, Mining
    <3>2. \A m \in Miners : Generate(m) => GenInsertHeader(m)
      BY DEF Generate, GenSnapshot, GenSetTip, GenConnectUtxos, GenEvict, GenReturn, headerVars
    <3> QED BY <2>1, <2>2, <3>1, <3>2 DEF Mine
  <2>3. CASE ~Mine
    <3>1. \A u \in Txs : ~Broadcast(u)
      BY DEF Broadcast, SubmitTx, headerVars
    <3>2. \A t \in Towers : ~Forfeit(t) /\ ~Disable(t) /\ ~Enable(t)
      BY <3>1, TowerAssumption DEF Forfeit, Disable, Enable, nodeVars, headerVars
    <3>3. ~Observe
      BY <1>1, ObserveIs DEF headerVars
    <3>4. /\ \A t \in Towers, u \in States : ~Register(t, u)
          /\ \A u \in States : ~RegisterChannel(u)
      BY DEF Register, RegisterChannel, nodeVars, headerVars
    <3>5. ~EndNotify /\ ~UNCHANGED watchVars
      BY DEF EndNotify, watchVars, nodeVars, headerVars
    <3> QED BY <1>1, <2>3, <3>1, <3>2, <3>3, <3>4, <3>5 DEF WatchNext
  <2> QED BY <2>2, <2>3
<1> QED BY <1>1, TowersUseNode, NodeShapeInvariant, NodePool, MiningInvariant, TowerInvariant,
           WatchedInvariant, PTL DEF WatchSpec, StaleNeverMined
=============================================================================
