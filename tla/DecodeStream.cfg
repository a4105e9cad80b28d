CONSTANTS
  t1 = t1
  t2 = t2
  PoolThreads <- TwoThreads
  WindowSlots = 2
  Outputs <- AllOutputs
  RtspSlots = 2
  RtspQueue = 1
  StreamFrames = 4
  InputQueue = 1
SPECIFICATION FairSpec
CHECK_DEADLOCK FALSE
INVARIANTS
  FramesInOrder
  DecodersUsedSafely
  ShowsItsFrame
  OkMeansComplete
  StopsAloneUnlessBothFail
PROPERTIES
  RunEnds
