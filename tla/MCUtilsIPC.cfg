SPECIFICATION FairUtilsSpec
CONSTANTS
  p1 = p1
  p2 = p2
  p3 = p3
  g1 = g1
  g2 = g2
  Procs = {p1, p2, p3}
  Faulty = {p3}
  Segments = {g1, g2}
  NoSegment = NoSegment
  nProcessMax = 2
  CtorThrows = TRUE
  TooSmall = TRUE
  Nuclear = TRUE
CHECK_DEADLOCK FALSE
INVARIANTS
  HandlesLive
  OneSegmentUnlessRaced
PROPERTIES
  NameReclaimed
