SPECIFICATION FairSpec
CHECK_DEADLOCK FALSE
CONSTANTS
  MaxFrames = 3
  Total <- MCTotal
  MaxPayload = 2
  SeqModulus = 6
  MaxFailures = 1
  WireBound = 2
  RecvQSize = 1
  MaxRefusals = 1
  MaxAborts = 1
  MaxBreaks = 1
  MaxLeaves = 1
  NoFrame = NoFrame
INVARIANTS TypeOK OneMixedPerLeave OnlyForward
PROPERTIES DeliversFrames FrameArrives
