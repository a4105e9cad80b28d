CONSTANTS
  Options <- LongGop
  Commands <- NoCommand
  WarpGop = 4
  WarpReset = 2
  MaxLtrFrames = 2
  MaxInTransit = 2
  IdSpace = 32
  Translations <- Shifts
  Bounds <- NoFault
SPECIFICATION Spec
CHECK_DEADLOCK FALSE
INVARIANT LosslessAccepted
