SPECIFICATION VtFairSpec
CHECK_DEADLOCK FALSE
CONSTANTS
  MaxFrames = 3
  RecvQSize = 2
INVARIANTS TypeOK DllWhileUsed DeletedLast
PROPERTIES UninitEnds FramesShown
