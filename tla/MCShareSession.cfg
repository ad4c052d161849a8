SPECIFICATION FairSpec
CONSTANTS
  Requesters = {"A"}
  Rooms = {1}
  MaxRequests = 1
  MaxBreaks = 1
  QueueBound = 2
  InboxBound = 1
INVARIANTS
  TypeOK
  SharedIsKnown
  NeverNull
  NoTimerEndsShare
PROPERTIES
  StopsEnd
CHECK_DEADLOCK FALSE
