SPECIFICATION AlgorithmsSpec
CONSTANTS
  N = 3
  K = 3
  S = 2
  Base = 6
  VarWidths <- MCVarWidths
  MaxMessageSize = 30
  Noise = {0, 5}
  Streams <- MCStreams
  Sizes = {2, 3, 17, 129}
  Mixed = 3
CHECK_DEADLOCK FALSE
INVARIANT QuantiseSettles
INVARIANT MessagesIntact
INVARIANT CleanStreamDelivered
INVARIANT UnlocksExactly
PROPERTY TransferIsFair
