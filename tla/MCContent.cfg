CONSTANTS
  Keys <- MCKeys
  NoKey = 0
  Lists <- MCLists
  InitialCapacity = 2
SPECIFICATION Spec
INVARIANT RoomForNextLine
INVARIANT KeyInWindow
INVARIANT AnswerRight
INVARIANT WindowHalves
CHECK_DEADLOCK FALSE
