CONSTANTS
  MaxQueueSize = 3
  MaxFrames = 5
  NULL = NULL
  Fresh = Fresh
SPECIFICATION FairSpec
INVARIANTS
  TypeOK
  SentFrameAtHead
  SendsInOrder
PROPERTIES
  RingIsFifo
  EveryFrameLeaves
CHECK_DEADLOCK FALSE
