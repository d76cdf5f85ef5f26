CONSTANTS
  w1 = w1
  w2 = w2
  c1 = c1
  c2 = c2
  c3 = c3
  long = long
  short = short
  missing = missing
  Boss = Boss
  NoThread = NoThread
  NoConn = NoConn
  NoKey = NoKey
  NoHeader = NoHeader
  Worker = {w1, w2}
  Conn = {c1, c2}
  Key <- MixedKeys
  Size <- MixedSize
  Buffer = 2
  Troubles = {"create", "stat"}
SPECIFICATION FairSpec
PROPERTY EveryConnectionEnds
PROPERTY PoolProgress
CHECK_DEADLOCK FALSE
