CONSTANTS
  Rooms = {1}
  SharerAsks = 2
  ViewerAsks = 2
  QueueBound = 3
SPECIFICATION FairSpec
INVARIANTS
  SrvTypeOK
  EffectiveControlIsConsented
  ControlAgreesAtRest
PROPERTIES
  StopTakesEffect
CHECK_DEADLOCK FALSE
