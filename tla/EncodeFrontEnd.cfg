CONSTANTS
  p1 = p1
  w1 = w1
  w2 = w2
  Poppers <- OneProducer
  Workers <- TwoWorkers
  Settings <- TwoSettings
  Sources <- AllSources
  SlotCount = 2
  FramesToAttempt = 3
  CameraCapacity = 1
  TensorCapacity = 1
  RtspCapacity = 1
  BufferCount = 4
SPECIFICATION CameraFairSpec
INVARIANTS
  SlotsOwnedOnce
  FramesIntact
  PopsTheStream
  StopsAlone
  CodecSeesTheSource
  OkMeansComplete
PROPERTIES
  RunEnds
