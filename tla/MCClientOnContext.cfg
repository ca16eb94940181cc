SPECIFICATION FairSpec
CONSTANTS
  t1 = t1
  main = main
  other = other
  Workers = {t1}
  Handler = {t1}
  Callers = {main, other}
  Owner = main
  Nobody = Nobody
  None = None
  MaxRuns = 2
  MaxWrites = 2
  MaxCloses = 1
CHECK_DEADLOCK FALSE
INVARIANTS
  ClientClosedOnce
  OneWriteUnderWay
  ShutdownQuiesces
PROPERTIES
  ShutdownReturns
