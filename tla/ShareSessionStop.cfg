SPECIFICATION Spec
CONSTANTS
  Requesters = {"A"}
  Rooms = {1}
  MaxRequests = 1
  MaxBreaks = 0
  QueueBound = 2
  InboxBound = 1
INVARIANTS
  ShareCanBeStopped
CHECK_DEADLOCK FALSE
