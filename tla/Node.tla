---------------------------------- MODULE Node ----------------------------------
(***************************************************************************)
(* The embedded node: node/network.py (EmbeddedNode), node/headers.py      *)
(* (HeaderStore), node/blockstore.py (blocks and UTXO tables), around the  *)
(* mempool.                                                                *)
(*                                                                         *)
(* Blocks are numbered in the order in which their headers are connected;  *)
(* block 0 is the chain up to and including the funding of the channel,    *)
(* whose unspent outputs are Coins.  The coinbase output of block b is the *)
(* outpoint b: blocks pay distinct coinbases (make_coinbase hashes height, *)
(* payout and extra data).  A header's work is one of Works: connect()     *)
(* checks the hash against the header's own bits and nothing else.         *)
(*                                                                         *)
(* generate_block is cut into its steps, because the daemon runs it in one *)
(* request thread per client without a node-wide lock (Concurrent).  It is *)
(* the only call that may meet another: the daemon's handlers offer        *)
(* node.generate, and submit_tx and accept_block are called only by        *)
(* single-threaded programs, where a call ends before the next begins.     *)
(* What two generate_block do to the tables in GenConnectUtxos is one step *)
(* each; nothing is claimed of the tables when Concurrent holds.           *)
(***************************************************************************)
EXTENDS Mempool, SequencesExt

CONSTANTS Coins,         \* unspent outputs of block 0
          Miners,        \* threads that may be inside generate_block
          Concurrent,    \* may calls of generate_block interleave?
          Works,         \* work of a block fed to accept_block
          MaxBlocks,     \* bound: blocks connected in all
          MaxFed         \* bound: blocks fed to accept_block

ASSUME NodeAssumption ==
    /\ MaxBlocks \in Nat /\ MaxFed \in Nat
    /\ Coins \subseteq Outpoints /\ 1 .. MaxBlocks \subseteq Outpoints
    /\ Works \subseteq Nat \ {0}
    /\ Concurrent \in BOOLEAN

\* Outpoints are (txid, index) pairs and a txid is a hash of the transaction:
\* two transactions, a coinbase or one of block 0 included, create no output in
\* common.  Every transaction of the channel spends something; the code does not
\* insist on it (validate_tx accepts a transaction without inputs).
DistinctOutputs ==
    /\ \A t1, t2 \in Txs : t1 # t2 => Creates[t1] \cap Creates[t2] = {}
    /\ \A tx \in Txs : Creates[tx] \cap (Coins \cup 1 .. MaxBlocks) = {}
    /\ Coins \cap 1 .. MaxBlocks = {}
HaveInputs == \A tx \in Txs : Spends[tx] # {}

VARIABLES parent, body, cumwork,   \* HeaderStore.by_hash and the blocks table
          count,                   \* number of blocks connected
          tip,                     \* HeaderStore.tip_hash
          undo,                    \* undo_log and created_log of a block
          pc, snap,                \* control state of generate_block
          fed

headerVars == <<parent, body, cumwork, count, tip>>
minerVars  == <<pc, snap>>
nodeVars   == <<utxo, pool, headerVars, undo, minerVars, fed>>

Blocks == 0 .. MaxBlocks
NoUndo == [connected |-> FALSE, spent |-> {}, created |-> {}]
NoSnap == [tip |-> 0, txs |-> <<>>]

NodeInit ==
    /\ utxo = Coins
    /\ entries = {} /\ spentBy = [o \in Outpoints |-> NoTx]
    /\ parent = [b \in 1 .. MaxBlocks |-> 0]
    /\ body = [b \in 1 .. MaxBlocks |-> <<>>]
    /\ cumwork = [b \in Blocks |-> 0]
    /\ count = 0 /\ tip = 0 /\ fed = 0
    /\ undo = [b \in 1 .. MaxBlocks |-> NoUndo]
    /\ pc = [m \in Miners |-> "idle"]
    /\ snap = [m \in Miners |-> NoSnap]

-----------------------------------------------------------------------------
(***************************************************************************)
(* The UTXO set.                                                           *)
(***************************************************************************)

\* spend_utxo and add_utxo, for a set of rows; an absent row is left alone.
SpendUtxos(u, rows) == u \ rows
AddUtxos(u, rows) == u \cup rows

Inputs(txs)  == UNION {Spends[txs[i]] : i \in DOMAIN txs}
Outputs(txs) == UNION {Creates[txs[i]] : i \in DOMAIN txs}

\* make_coinbase: the outpoint the coinbase of block b creates.
Coinbase(b) == b

\* connect_block_utxos: the coinbase, then each transaction in block order;
\* deleting an absent row is a no-op.
ConnectUtxos(u, b, txs) ==
    LET ApplyTx(v, tx) == AddUtxos(SpendUtxos(v, Spends[tx]), Creates[tx])
    IN  FoldLeft(ApplyTx, AddUtxos(u, {Coinbase(b)}), txs)

\* _connect_block_with_undo, on the tables st.utxo and st.undo.
ConnectBlock(st, b, txs) ==
    [utxo |-> ConnectUtxos(st.utxo, b, txs),
     undo |-> [st.undo EXCEPT ![b] =
                 [connected |-> TRUE, spent |-> Inputs(txs) \cap st.utxo,
                  created |-> Outputs(txs) \cup {Coinbase(b)}]]]

\* _disconnect_block
DisconnectKeepsSpent(st, b) ==
    [utxo |-> st.utxo \ st.undo[b].created,
     undo |-> [st.undo EXCEPT ![b] = NoUndo]]
DisconnectKeepsLog(st, b) ==
    [utxo |-> (st.utxo \ st.undo[b].created) \cup st.undo[b].spent,
     undo |-> st.undo]
DisconnectBlock(st, b) ==
    [utxo |-> AddUtxos(SpendUtxos(st.utxo, st.undo[b].created), st.undo[b].spent),
     undo |-> [st.undo EXCEPT ![b] = NoUndo]]

\* path_to in _reorg_utxos: from b down to block 0, for the header tree p.
PathTo(p, b) ==
    LET path[x \in Blocks] == IF x = 0 THEN <<0>> ELSE <<x>> \o path[p[x]]
    IN  path[b]

\* The first shared ancestor on the new path, and the blocks of a path above it.
Ancestor(old, new) == new[SelectInSeq(new, LAMBDA b : b \in ToSet(old))]
Above(path, a) == SubSeq(path, 1, SelectInSeq(path, LAMBDA b : b = a) - 1)

DisconnectAll(st, bs) == FoldLeft(DisconnectBlock, st, bs)
ConnectAll(st, bs, bodies) ==
    LET Connect(s, b) == ConnectBlock(s, b, bodies[b]) IN FoldLeft(Connect, st, bs)

\* _reorg_utxos: disconnect from the old tip back to the ancestor, then connect
\* from there up to the new tip.
Reorg(st, p, bodies, from, to) ==
    LET old == PathTo(p, from)
        new == PathTo(p, to)
        a   == Ancestor(old, new)
    IN  ConnectAll(DisconnectAll(st, Above(old, a)), Reverse(Above(new, a)), bodies)

\* The transactions a reorganisation evicts from the pool.
ReorgTxs(p, bodies, from, to) ==
    LET new == PathTo(p, to)
    IN  UNION {ToSet(bodies[b]) : b \in ToSet(Above(new, Ancestor(PathTo(p, from), new)))}

-----------------------------------------------------------------------------
(***************************************************************************)
(* Headers.                                                                *)
(***************************************************************************)

\* The tip moves only to strictly more cumulative work: the first seen stays.
MovesOnTie(w) == w >= cumwork[tip]
Overtakes(w) == w > cumwork[tip]

\* The insertion of a new header on block p, and store_block of its body.
InsertHeader(p, w, txs) ==
    LET b == count + 1 IN
    /\ count < MaxBlocks
    /\ count' = b
    /\ parent' = [parent EXCEPT ![b] = p]
    /\ body' = [body EXCEPT ![b] = txs]
    /\ cumwork' = [cumwork EXCEPT ![b] = cumwork[p] + w]

\* HeaderStore.connect, undisturbed: insert the header, compare, set the tip.
ConnectHeader(p, w, txs) ==
    /\ InsertHeader(p, w, txs)
    /\ tip' = IF Overtakes(cumwork[p] + w) THEN count + 1 ELSE tip

-----------------------------------------------------------------------------
Idle == \A m \in Miners : pc[m] = "idle"

\* submit_tx
SubmitUnchecked(tx) ==
    /\ Idle
    /\ entries' = entries \cup {tx}
    /\ UNCHANGED <<utxo, spentBy, headerVars, undo, minerVars, fed>>
SubmitTx(tx) ==
    /\ Idle
    /\ Admit(tx)
    /\ UNCHANGED <<headerVars, undo, minerVars, fed>>

\* generate_block: read the tip and the pool.  Every pool transaction goes into
\* the block; validate_tx is consulted for the fee only.
GenSnapshot(m) ==
    /\ Concurrent \/ Idle
    /\ pc[m] = "idle" /\ count < MaxBlocks
    /\ \E txs \in SetToSeqs(entries) :
         snap' = [snap EXCEPT ![m] = [tip |-> tip, txs |-> txs]]
    /\ pc' = [pc EXCEPT ![m] = "connect"]
    /\ UNCHANGED <<utxo, pool, headerVars, undo, fed>>

\* HeaderStore.connect of the mined header: insert it and compare its work with
\* that of the present tip.
GenInsertHeader(m) ==
    /\ pc[m] = "connect"
    /\ InsertHeader(snap[m].tip, 1, snap[m].txs)
    /\ snap' = [snap EXCEPT ![m].tip = count']
    /\ pc' = [pc EXCEPT ![m] = IF Overtakes(cumwork[snap[m].tip] + 1) THEN "settip" ELSE "apply"]
    /\ UNCHANGED <<utxo, pool, tip, undo, fed>>

\* Then set tip_hash, whatever another thread has set it to in between.
GenSetTip(m) ==
    /\ pc[m] = "settip"
    /\ tip' = snap[m].tip
    /\ pc' = [pc EXCEPT ![m] = "apply"]
    /\ UNCHANGED <<utxo, pool, parent, body, cumwork, count, undo, snap, fed>>

\* Apply it to the UTXO set, whether or not it became the tip.
GenConnectUtxos(m) ==
    LET st == ConnectBlock([utxo |-> utxo, undo |-> undo], snap[m].tip, snap[m].txs)
    IN  /\ pc[m] = "apply"
        /\ utxo' = st.utxo /\ undo' = st.undo
        /\ pc' = [pc EXCEPT ![m] = "evict"]
        /\ UNCHANGED <<pool, headerVars, snap, fed>>

\* Evict the mined transactions one by one.
GenEvict(m) ==
    /\ pc[m] = "evict" /\ snap[m].txs # <<>>
    /\ Evict({Head(snap[m].txs)})
    /\ snap' = [snap EXCEPT ![m].txs = Tail(@)]
    /\ UNCHANGED <<utxo, headerVars, undo, pc, fed>>

GenReturn(m) ==
    /\ pc[m] = "evict" /\ snap[m].txs = <<>>
    /\ pc' = [pc EXCEPT ![m] = "idle"]
    /\ snap' = [snap EXCEPT ![m] = NoSnap]
    /\ UNCHANGED <<utxo, pool, headerVars, undo, fed>>

Generate(m) ==
    \/ GenSnapshot(m) \/ GenInsertHeader(m) \/ GenSetTip(m)
    \/ GenConnectUtxos(m) \/ GenEvict(m) \/ GenReturn(m)

\* The UTXO set of the chain that ends in block b.
Replay(b) ==
    LET r[x \in Blocks] == IF x = 0 THEN Coins
                           ELSE ConnectUtxos(r[parent[x]], x, body[x])
    IN  r[b]

\* A block a peer built honestly on p: at most one transaction of ours, with
\* its inputs unspent there.
PeerBodies(p) ==
    {<<>>} \cup {<<tx>> : tx \in {t \in Accepted : Spends[t] \subseteq Replay(p)}}

\* accept_block of a new block: a stale fork (headers only), a direct extension,
\* or a fork that overtakes the active chain.  The body is not validated.
AcceptBlock(p, w, txs) ==
    LET b == count + 1 IN
    /\ Idle /\ fed < MaxFed
    /\ fed' = fed + 1
    /\ ConnectHeader(p, w, txs)
    /\ IF tip' # b
       THEN UNCHANGED <<utxo, pool, undo>>
       ELSE LET st == Reorg([utxo |-> utxo, undo |-> undo], parent', body', tip, b)
            IN  /\ utxo' = st.utxo /\ undo' = st.undo
                /\ Evict(ReorgTxs(parent', body', tip, b))
    /\ UNCHANGED minerVars

NodeNext ==
    \/ \E tx \in Txs : SubmitTx(tx)
    \/ \E m \in Miners : Generate(m)
    \/ \E p \in 0 .. count, w \in Works : \E txs \in PeerBodies(p) :
         AcceptBlock(p, w, txs)

NodeSpec == NodeInit /\ [][NodeNext]_nodeVars

-----------------------------------------------------------------------------
ActiveChain == ToSet(PathTo(parent, tip))

\* No block repeats a transaction of a block below it.
NoRepeat ==
    \A b \in 1 .. count : \A a \in ToSet(PathTo(parent, parent[b])) \ {0} :
        ToSet(body[a]) \cap ToSet(body[b]) = {}

\* _reorg_utxos: between calls, after any disconnecting and connecting, the
\* table is the replay of the active chain from the start.  Only where no chain
\* mines a transaction twice: the undo data of the second block would remove
\* outputs that the first one made.
UtxoMatchesChain == (Idle /\ NoRepeat) => utxo = Replay(tip)

\* Between calls exactly the blocks of the active chain have undo data, so that
\* every one of them, and no other, can be disconnected later.
UndoCoversActiveChain ==
    Idle => {b \in 1 .. MaxBlocks : undo[b].connected} = ActiveChain \ {0}

\* Between calls the tip has the most cumulative work of all headers, and among
\* equals it is the one seen first.  (Not when requests race: a thread may set
\* the tip it compared with an older one.)
TipIsBest ==
    Idle => \A b \in 0 .. count :
        cumwork[b] <= cumwork[tip] /\ (cumwork[b] = cumwork[tip] => tip <= b)

\* generate_block puts every pool entry into the block without validating it.
\* As long as all blocks are the node's own that is sound: no outpoint is spent
\* twice on the chain.  (accept_block keeps pool entries that conflict with the
\* accepted block, and the next generated block then spends an outpoint again.)
OwnBlocksSpendOnce ==
    fed = 0 => \A o \in Outpoints :
        Cardinality({p \in (ActiveChain \ {0}) \X Txs :
            p[2] \in ToSet(body[p[1]]) /\ o \in Spends[p[2]]}) <= 1

\* While the chain only grows, and only by the node's own blocks, every entry
\* stays minable between calls: what admit looked up is still unspent.
PoolIsMinable == (fed = 0 /\ Idle) => \A tx \in entries : Spends[tx] \subseteq utxo

\* The node uses the pool as Mempool.tla says it may be used, so what is proved
\* of the pool holds inside the node.
UsesMempool == PoolSpec

(***************************************************************************)
(* What the documentation says and the code does not do.                   *)
(***************************************************************************)

\* EmbeddedNode: "The UTXO set after the reorg is therefore exactly what a
\* fresh ingest of the heavier chain would produce".
UtxoIsFreshIngest == Idle => utxo = Replay(tip)
=============================================================================
