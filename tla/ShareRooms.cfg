CONSTANTS
  Rooms = {1, 2}
  SharerAsks = 0
  ViewerAsks = 0
  QueueBound = 2
  InboxBound = 4
  MaxBreaks = 1
SPECIFICATION FairSpec
INVARIANTS
  SharingMeansMember
  ViewerSharesRealRoom
PROPERTIES
  WaitsEnd
  SharerRejoins
