SPECIFICATION FairSpec
CONSTANTS
  MaxMessages = 4
  MaxPosted = 2
  MaxQueueSizes = {2, 3}
  Kinds = {"normal", "forced", "empty"}
  MayStop = TRUE
CHECK_DEADLOCK FALSE
INVARIANTS
  QueueServed
PROPERTIES
  HandledWhenDestroyed
  SentInOrder
  EventuallyHandled
