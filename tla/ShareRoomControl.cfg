CONSTANTS
  Rooms = {1, 2}
  SharerAsks = 0
  ViewerAsks = 1
  QueueBound = 2
  InboxBound = 3
  MaxBreaks = 1
SPECIFICATION Spec
INVARIANTS
  TypeOK
  RoomControlIsConsented
