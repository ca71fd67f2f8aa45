SPECIFICATION FairSpec
CONSTANTS
  t1 = t1
  t2 = t2
  c1 = c1
  NoThread = NoThread
  N = 2
  K = 2
  S = 1
  Threads <- TwoThreads
  Channels <- OneChannel
  EarlyUse = FALSE
  MaxVersion = 2
  MaxCrashes = 1
  MaxStoreFailures = 1
INVARIANT TypeOK
INVARIANT RowsFaithful
INVARIANT AckedDurable
INVARIANT MemoryIsDurable
INVARIANT LateTransfersBounded
PROPERTY LatestNeverRegresses
PROPERTY CloseUsesLatest
PROPERTY ImplementsLedger
PROPERTY LockReleased
