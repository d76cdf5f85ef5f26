CONSTANTS
  w1 = w1
  w2 = w2
  Main = Main
  NoThread = NoThread
  Worker = {w1, w2}
  MinRequests = 0
  MaxRequests = 3
  RequestCounts <- MCAnyCounts
  NumPaths = 3
  Chunks = 1
SPECIFICATION FairSpec
INVARIANT TypeOK
INVARIANT RequestsConserved
INVARIANT ShutdownDrained
INVARIANT SleepersJustified
INVARIANT ActiveCounts
INVARIANT DestroyedUnused
INVARIANT DownloadsKept
INVARIANT FailuresRemoved
PROPERTY ImplementsBatch
PROPERTY Termination
