CONSTANTS
  c1 = c1
  c2 = c2
  NoConn = NoConn
  Conn = {c1, c2}
  Requests <- MCRequests
  HeaderSize = 11
  Troubles = {"leave", "reset"}
SPECIFICATION FairSpec
INVARIANT RequestsJudged
INVARIANT OnlyAnsweredLeftOpen
PROPERTY EveryRequestServed
CHECK_DEADLOCK FALSE
