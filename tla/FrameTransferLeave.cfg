SPECIFICATION Spec
CHECK_DEADLOCK FALSE
CONSTANTS
  MaxFrames = 3
  Total <- MCTotal
  MaxPayload = 2
  SeqModulus = 6
  MaxFailures = 1
  WireBound = 3
  RecvQSize = 1
  MaxRefusals = 1
  MaxAborts = 1
  MaxBreaks = 0
  MaxLeaves = 1
  NoFrame = NoFrame
INVARIANT WholeFrames
