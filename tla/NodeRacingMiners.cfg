SPECIFICATION NodeSpec
CONSTANTS
  chan = chan
  bond = bond
  out0 = out0
  out1 = out1
  outC = outC
  outF = outF
  outP = outP
  state0 = state0
  state1 = state1
  close = close
  forfeit = forfeit
  payment = payment
  forged = forged
  NoTx = NoTx
  m1 = m1
  m2 = m2
  Txs <- MCTxs
  Outpoints <- MCOutpoints
  Coins <- MCCoins
  Spends <- MCSpends
  Creates <- MCCreates
  InputSeq <- MCInputSeq
  Accepted <- MCAccepted
  Miners = {m1, m2}
  Concurrent = TRUE
  Works = {1}
  MaxBlocks = 2
  MaxFed = 0
CHECK_DEADLOCK FALSE
INVARIANT UtxoIsFreshIngest
