SPECIFICATION FairSpec
CONSTANTS
  a1 = a1
  a2 = a2
  r1 = r1
  r2 = r2
  Callers = {a1, a2}
  Receivers = {r1, r2}
  MaxPipes = 3
  Modes = {"wait", "timed"}
  Ops = {"Send", "Shutdown", "NumReceivers"}
  capacity = 1
  MaxCalls = 1
  Nobody = Nobody
CHECK_DEADLOCK FALSE
INVARIANTS
  SameOrder
  EachPipeServed
PROPERTIES
  MutexComesBack
