CONSTANTS
  w1 = w1
  w2 = w2
  Main = Main
  NoThread = NoThread
  Worker = {w1, w2}
  MinRequests = 2
  MaxRequests = 2
  RequestCounts <- MCRequestCounts
  NumPaths = 1
  Chunks = 1
SPECIFICATION Spec
INVARIANT DownloadsKept
