SPECIFICATION RateSpec
CONSTANTS
  e1 = e1
  e2 = e2
  e3 = e3
  Enforcers = {e1, e2}
  Rates = {0, 1, 2}
  SendRates = {1, 16}
  MaxRates = {1, 2}
  Alpha = 1
  Trigger = 3
  Unit = 2
  Unlimited = 2
  MaxEnforcers = 3
CHECK_DEADLOCK FALSE
SYMMETRY Symmetry
INVARIANTS
  IdsValid
  SharesWithinMax
  SilenceIsEnough
