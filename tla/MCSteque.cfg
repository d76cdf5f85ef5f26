CONSTANTS
  a1 = a1
  a2 = a2
  a3 = a3
  a4 = a4
  x1 = x1
  x2 = x2
  Null = Null
  Addr <- MCAddr
  Item <- MCItem
SPECIFICATION Spec
INVARIANT WellLinked
PROPERTY ImplementsDeque
PROPERTY DestroyEmpties
