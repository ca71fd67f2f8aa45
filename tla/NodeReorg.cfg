SPECIFICATION NodeSpec
CONSTANTS
  chan = chan
  bond = bond
  out0 = out0
  out1 = out1
  outC = outC
  outF = outF
  outP = outP
  state0 = state0
  state1 = state1
  close = close
  forfeit = forfeit
  payment = payment
  forged = forged
  NoTx = NoTx
  m1 = m1
  m2 = m2
  Txs <- MCTxs
  Outpoints <- MCOutpoints
  Coins <- MCCoins
  Spends <- MCSpends
  Creates <- MCCreates
  InputSeq <- MCInputSeq
  Accepted <- MCAccepted
  Miners = {m1}
  Concurrent = FALSE
  Works = {1, 3}
  MaxBlocks = 3
  MaxFed = 3
INVARIANT UtxoMatchesChain
INVARIANT UndoCoversActiveChain
INVARIANT TipIsBest
INVARIANT IndexExact
INVARIANT NoPoolConflict
INVARIANT OwnBlocksSpendOnce
INVARIANT PoolIsMinable
PROPERTY ReplacementRaisesSequence
PROPERTY UsesMempool
CHECK_DEADLOCK FALSE
