SPECIFICATION FairSpec
CONSTANTS
  s1 = s1
  s2 = s2
  a1 = a1
  a2 = a2
  e1 = e1
  e2 = e2
  Sessions = {s1, s2}
  Kind <- MCKind
  Endpoint <- MCEndpoint
  Callers = {a1, a2}
  MaxCalls = 1
  NoSession = NoSession
  Nobody = Nobody
CHECK_DEADLOCK FALSE
INVARIANTS
  RegistryValid
  ReachesItsSessions
PROPERTIES
  HandlerCalled
