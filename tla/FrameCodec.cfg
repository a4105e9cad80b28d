SPECIFICATION Spec
CONSTANTS
  StageInputs <- MCStageInputs
  StageOutputs <- MCStageOutputs
  ZGroup <- MCZGroup
  GaussianGroup <- MCGaussianGroup
  ScaleLevels = 4
  MaxParts = 4
  WordSize = 1048576
  BlockDim = 1
  ZChannels = 2
  Thres = 0
  Kinds <- MCKinds
  Pictures <- MCPictures
  Qps <- MCQps
  Options <- MixedOptions
  WireBound = 1
  Conversions <- MCConversions
INVARIANTS
  FramesAgree
  HandlesCoherent
  DeviceFollowsHost
