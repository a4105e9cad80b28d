CONSTANTS
  Options <- ForcedOld
  Commands <- NoCommand
  WarpGop = 4
  WarpReset = 2
  MaxLtrFrames = 3
  MaxInTransit = 2
  IdSpace = 32
  Translations <- Shifts
  Bounds <- OneLoss
SPECIFICATION Spec
CHECK_DEADLOCK FALSE
INVARIANT LossSurvived
