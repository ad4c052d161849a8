CONSTANTS
  Rooms = {1}
  SharerAsks = 0
  ViewerAsks = 0
  QueueBound = 2
  InboxBound = 4
  MaxBreaks = 2
SPECIFICATION FairSpec
PROPERTIES
  SharerRejoins
