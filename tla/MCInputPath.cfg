SPECIFICATION Spec
CONSTANTS
  Size = 3
  RecvQSize = 2
  Inputs <- MCInputs
INVARIANTS
  TypeOK
  NoLostWakeUp
  InputsInOrder
  ThreadsEndFirst
PROPERTIES
  ChannelIsPipe
  
  InputsHandled
CHECK_DEADLOCK FALSE
