SPECIFICATION FairSpec
CONSTANTS
  p1 = p1
  p2 = p2
  p3 = p3
  Procs = {p1, p2}
  Faulty = {p2}
  CtorThrows = TRUE
  nElements = 2
  countPerElement = 2
  sizeT = 3
  sizeControl = 5
CHECK_DEADLOCK FALSE
INVARIANTS
  Ownership
PROPERTIES
  PoolImplements
  BuffersImplement
  Reclaimed
