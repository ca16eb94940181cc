SPECIFICATION FairHttpSpec
CONSTANTS
  limit = 2
  Protocols = {"http", "tcp"}
  MaxRequests = 4
  MaxMessages = 4
  MaxQueueSizes = {2}
  Kinds = {"normal", "empty"}
CHECK_DEADLOCK FALSE
INVARIANTS
  OneReadUnlessFull
PROPERTIES
  EverythingAnswered
