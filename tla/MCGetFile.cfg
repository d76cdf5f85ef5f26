CONSTANTS
  Workloads <- MCWorkloads
  MaxRequests = 2
  Content <- MCContent
  NoFile = NoFile
  LongPaths <- MCLongPaths
  PathLength = 2
  BufSize = 11
  HeaderSize = 11
  WordSize = 64
  Troubles = {"disk", "reset", "read"}
SPECIFICATION FairSpec
INVARIANT KeptFilesComplete
INVARIANT AnswerMatchesRequest
PROPERTY ProgramEnds
CHECK_DEADLOCK FALSE
