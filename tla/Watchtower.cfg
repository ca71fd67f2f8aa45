SPECIFICATION WatchSpec
CONSTANTS
  chan = chan
  bond = bond
  state0 = state0
  state1 = state1
  state2 = state2
  close = close
  forfeitA = forfeitA
  forfeitB = forfeitB
  towerA = towerA
  towerB = towerB
  m1 = m1
  NoTx = NoTx
  Txs <- MCTxs
  Outpoints <- MCOutpoints
  Coins <- MCCoins
  Spends <- MCSpends
  Creates <- MCCreates
  InputSeq <- MCInputSeq
  Accepted <- MCTxs
  Towers = {towerA, towerB}
  Chans = {chan}
  States <- MCStates
  ForfeitOf <- MCForfeitOf
  Miners = {m1}
  Concurrent = FALSE
  Works = {1}
  MaxBlocks = 2
  MaxFed = 1
INVARIANT StaleOvertaken
PROPERTY StaleNeverMined
