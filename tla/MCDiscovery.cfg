SPECIFICATION LiveDiscoverySpec
CONSTANTS
  HasTimeout = TRUE
  topicStates = {"t"}
  useSSL = FALSE
  permitLoopback = FALSE
  ownId = 2
  Servers <- MCServers
  serverTopic = "t"
  serverId = 1
  Strays <- MCStrays
  MaxStrays = 1
  requested <- MCRequested
  Sessions = {x1, x2}
  MaxSends = 1
  Absent = Absent
INVARIANTS
  OneSessionPerServer
  SendReachesAll
PROPERTIES
  HandlerCalledOnce
  Reconnects
