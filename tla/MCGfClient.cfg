CONSTANTS
  Addresses = 2
  RequestLength = 2
  BufSize = 11
  WordSize = 64
  Responses <- MCResponses
SPECIFICATION Spec
INVARIANT VerdictIndependentOfPieces
INVARIANT BodyIntact
PROPERTY Returns
CHECK_DEADLOCK FALSE
