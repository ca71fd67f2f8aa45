SPECIFICATION PartsSpec
CONSTANTS
  N = 2
  K = 2
  S = 1
  Bonds <- MCBonds
  Fees = {0}
  FinalSequence = 2
  MaxHistory = 3
  MaxSigned = 2
  MaxRefresh = 1
  p1 = p1
  p2 = p2
  Commands = {p1, p2}
  BondValues <- MCBonds
  Missing = Missing
  Empty = Empty
  Torn = Torn
  MaxVersion = 2
  MaxRuns = 0
  MaxKills = 1
  MaxCloses = 1
  NoFile = NoFile
  Broken = Broken
  Watched = {w1, w2}
  RecordVersions = {1, 2}
  MaxSaves = 0
  MaxStops = 0
CHECK_DEADLOCK FALSE
INVARIANT LaterStateSupersedes
