SPECIFICATION PartsSpec
CONSTANTS
  N = 3
  K = 2
  S = 1
  Bonds <- MCBonds
  Fees = {0, 1}
  FinalSequence = 2
  MaxHistory = 3
  MaxSigned = 2
  MaxRefresh = 1
  p1 = p1
  p2 = p2
  Commands = {p1, p2}
  BondValues <- MCBonds
  Missing = Missing
  Empty = Empty
  Torn = Torn
  MaxVersion = 2
  MaxRuns = 4
  MaxKills = 1
  MaxCloses = 1
  NoFile = NoFile
  Broken = Broken
  Watched = {w1, w2}
  RecordVersions = {1, 2}
  MaxSaves = 4
  MaxStops = 2
SYMMETRY MCSymmetry
CHECK_DEADLOCK FALSE
INVARIANT SignedIsBalanced
INVARIANT CloseOutbidsStates
INVARIANT SequenceIdentifiesState
 
 
 
INVARIANT RegistryReloads
