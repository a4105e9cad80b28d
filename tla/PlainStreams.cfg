CONSTANTS
  t1 = t1
  t2 = t2
  PoolThreads <- TwoThreads
  FrameParts <- TwoFragmentsOrThree
  QueueBytes = 3
  ReceiveQueue = 1
  Faults = 1
  Settings <- FileOrUdp
SPECIFICATION FairSpec
CHECK_DEADLOCK FALSE
INVARIANTS
  EntropyJobsInOrder
  FramesArriveWhole
  EndMeansAll
PROPERTIES
  BothEnd
