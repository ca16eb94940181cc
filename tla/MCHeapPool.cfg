SPECIFICATION PoolSpec
CONSTANTS
  t1 = t1
  t2 = t2
  Threads = {t1, t2}
  nElementsTotal = 2
  sizeSharedT = 2
  countPerElement = 2
  count = 2
  MaxRefs = 2
  Nothing = Nothing
  Buffers = {"blocks", "pointers", "arrays"}
  Requests <- MCRequests
  Addresses = 18
  Word = 32
  maxAlign = 2
  pointerSize = 2
CHECK_DEADLOCK FALSE
SYMMETRY Symmetry
INVARIANTS
  LoansExact
  ElementsPlaced
  ObjectLifetimes
