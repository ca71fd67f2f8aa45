-------------------------------- MODULE Mempool --------------------------------
(***************************************************************************)
(* The transaction pool of the embedded node: node/mempool.py, with the    *)
(* admission test of node/validation.py.                                   *)
(*                                                                         *)
(* A transaction is an identity with the outpoints it spends and creates   *)
(* and the nSequence of each input.  Whether its scripts, signatures and   *)
(* amounts pass the interpreter is a fixed property of it (Accepted); that *)
(* its inputs are unspent is looked up in the confirmed UTXO set.          *)
(***************************************************************************)
EXTENDS Integers, FiniteSets

CONSTANTS Txs, Outpoints,
          Spends, Creates,   \* tx -> set of outpoints
          InputSeq,             \* tx -> spent outpoint -> nSequence
          Accepted,          \* txs every input script of which verifies
          NoTx               \* "no owner" in the index spent_by

ASSUME TxAssumption ==
    /\ NoTx \notin Txs
    /\ Spends \in [Txs -> SUBSET Outpoints]
    /\ Creates \in [Txs -> SUBSET Outpoints]
    /\ \A tx \in Txs : InputSeq[tx] \in [Spends[tx] -> Nat]
    /\ Accepted \subseteq Txs

VARIABLES utxo,      \* outpoints in the BlockStore's utxos table
          entries,   \* Mempool.entries
          spentBy    \* Mempool.spent_by

pool == <<entries, spentBy>>

PoolTypeOK ==
    /\ utxo \subseteq Outpoints
    /\ entries \subseteq Txs
    /\ spentBy \in [Outpoints -> Txs \cup {NoTx}]

PoolInit ==
    /\ utxo \in SUBSET Outpoints
    /\ entries = {}
    /\ spentBy = [o \in Outpoints |-> NoTx]

-----------------------------------------------------------------------------
\* validate_tx: every input is a confirmed unspent output and verifies.
SkipsUtxoLookup(tx) == tx \in Accepted
Validates(tx) == tx \in Accepted /\ Spends[tx] \subseteq utxo

\* admit, conflict detection: the owners of the outpoints tx spends.
NoConflictDetection(tx) == {}
Conflicts(tx) == {spentBy[o] : o \in Spends[tx]} \ {NoTx, tx}

\* Every shared input must carry a strictly higher nSequence.
OutbidsOrTies(tx, old) ==
    \A o \in Spends[tx] \cap Spends[old] : InputSeq[tx][o] >= InputSeq[old][o]
Outbids(tx, old) ==
    \A o \in Spends[tx] \cap Spends[old] : InputSeq[tx][o] > InputSeq[old][o]

\* At most one conflicting entry, and tx outbids it.
ReplacementOK(tx) ==
    \/ Conflicts(tx) = {}
    \/ \E old \in Txs : Conflicts(tx) = {old} /\ Outbids(tx, old)

Admissible(tx) == tx \notin entries /\ ReplacementOK(tx) /\ Validates(tx)

\* _evict_internal on every member of T: an index row goes only if it still
\* names the evicted transaction.
IndexWithout(T) ==
    [o \in Outpoints |->
        IF spentBy[o] \in T /\ o \in Spends[spentBy[o]] THEN NoTx ELSE spentBy[o]]

\* admit, on success: evict the conflict, insert tx.  Every other outcome
\* ("already in mempool", a rejection) leaves the pool as it is.
Admit(tx) ==
    /\ Admissible(tx)
    /\ entries' = (entries \ Conflicts(tx)) \cup {tx}
    /\ spentBy' = [o \in Outpoints |-> IF o \in Spends[tx] THEN tx
                                       ELSE IndexWithout(Conflicts(tx))[o]]
    /\ UNCHANGED utxo

\* evict, for each transaction of the set T.
EvictKeepsIndex(T) == entries' = entries \ T /\ UNCHANGED spentBy
Evict(T) == entries' = entries \ T /\ spentBy' = IndexWithout(T \cap entries)

\* What the node does to the pool from outside: it connects or disconnects
\* blocks, which changes the UTXO set, and evicts some transactions.
StoreChanges ==
    /\ \E T \in SUBSET Txs : Evict(T)
    /\ utxo' \in SUBSET Outpoints

PoolNext == (\E tx \in Txs : Admit(tx)) \/ StoreChanges

PoolSpec == PoolInit /\ [][PoolNext]_<<utxo, pool>>

-----------------------------------------------------------------------------
\* The index spent_by says exactly which entry spends which outpoint; so no two
\* entries spend the same one, and none is unreachable for conflict detection
\* (admit reads self.entries[owner] without a test).
IndexExact ==
    \A o \in Outpoints, tx \in Txs :
        spentBy[o] = tx <=> tx \in entries /\ o \in Spends[tx]

\* No two transactions of the pool spend the same outpoint.
NoPoolConflict ==
    \A t1, t2 \in entries : t1 # t2 => Spends[t1] \cap Spends[t2] = {}

\* The replacement rule the channel relies on: when an outpoint passes from one
\* pool transaction to another, its nSequence goes up.
ReplacementRaisesSequence ==
    [][\A o \in Outpoints :
        LET old == spentBy[o]  new == spentBy'[o] IN
        (old # NoTx /\ new # NoTx /\ old # new) => InputSeq[new][o] > InputSeq[old][o]
      ]_<<utxo, pool>>
=============================================================================
