SPECIFICATION Spec
CONSTANTS
  alice = alice
  bob = bob
  ChannelOwner = ChannelOwner
  Wallets = {alice, bob}
  Keys = {0, 1}
  Amounts = {2, 5}
  ChannelOutputs <- MCChannelOutputs
  Reward = 8
  Headroom = 3
  BaseSize = 0
  InputSize = 1
  OutputSize = 1
  Dust = 1
  MaxBlocks = 3
  MaxSends = 2
CHECK_DEADLOCK FALSE
SYMMETRY MCSymmetry
INVARIANT BooksMatch
INVARIANT SupplyConserved
