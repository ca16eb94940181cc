SPECIFICATION LoopingSpec
CONSTANTS
  s1 = s1
  s2 = s2
  r1 = r1
  r2 = r2
  c1 = c1
  Senders = {s1, s2}
  Receivers = {r1, r2}
  Closers = {c1}
  Faulty = {r1}
  Modes = {"wait", "timed"}
  capacity = 2
  SizeModulus = 16
  MaxSends = 2
  MaxShutdowns = 1
  NULL = NULL
  Nobody = Nobody
CHECK_DEADLOCK FALSE
INVARIANTS
  SlotsAccounted
  SafeAfterShutdown
PROPERTIES
  PipeImplements
  Delivered
  OneSenderReleased
