CONSTANTS
  c1 = c1
  c2 = c2
  NoConn = NoConn
  Conn = {c1}
  Requests <- FewRequests
  HeaderSize = 11
  Troubles = {"reset"}
SPECIFICATION Spec
INVARIANT NoUseAfterFree
CHECK_DEADLOCK FALSE
