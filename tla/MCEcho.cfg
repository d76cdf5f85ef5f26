CONSTANTS
  c1 = c1
  c2 = c2
  NoClient = NoClient
  Client = {c1, c2}
  Messages <- MCMessages
  AddressLists <- MCAddressLists
  BufSize = 2
  Leaving = TRUE
SPECIFICATION FairSpec
INVARIANT OwnEcho
INVARIANT DescriptorsReleased
INVARIANT FailsOnlyUnreachable
PROPERTY EveryoneAnswered
CHECK_DEADLOCK FALSE
