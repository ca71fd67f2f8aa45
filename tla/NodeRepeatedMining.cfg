SPECIFICATION NodeSpec
CONSTANTS
  chan = chan
  bond = bond
  out0 = out0
  out1 = out1
  outC = outC
  outF = outF
  outP = outP
  state0 = state0
  state1 = state1
  close = close
  forfeit = forfeit
  payment = payment
  forged = forged
  NoTx = NoTx
  m1 = m1
  m2 = m2
  Txs <- PaymentTxs
  Outpoints <- MCOutpoints
  Coins <- MCCoins
  Spends <- PaymentSpends
  Creates <- PaymentCreates
  InputSeq <- PaymentInputSeq
  Accepted <- PaymentTxs
  Miners = {m1}
  Concurrent = FALSE
  Works = {1, 3}
  MaxBlocks = 5
  MaxFed = 2
CHECK_DEADLOCK FALSE
INVARIANT UtxoIsFreshIngest
