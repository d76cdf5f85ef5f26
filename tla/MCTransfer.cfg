CONSTANTS
  c1 = c1
  c2 = c2
  NoClient = NoClient
  Client = {c1, c2}
  File <- FileOfThree
  BufSize = 2
  Troubles = {"leave", "read", "seek", "send", "write"}
SPECIFICATION FairSpec
INVARIANT StreamIsFile
INVARIANT FileArrives
PROPERTY EveryClientServed
CHECK_DEADLOCK FALSE
