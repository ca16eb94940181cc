SPECIFICATION GrowerSpec
CONSTANTS
  p1 = p1
  p2 = p2
  Callers = {p1, p2}
  initialSize = 0
  Counts = {0, 1}
  MaxPools = 4
  Nobody = Nobody
SYMMETRY Symmetry
INVARIANTS
  NeverEmpty
  GrowthFollowsDemand
