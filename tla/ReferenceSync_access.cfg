CONSTANTS
  Options <- RtpSchedules
  Commands <- NoCommand
  WarpGop = 4
  WarpReset = 2
  MaxLtrFrames = 3
  MaxInTransit = 2
  IdSpace = 32
  Translations <- Shifts
  Bounds <- OneRequest
SPECIFICATION Spec
CHECK_DEADLOCK FALSE
INVARIANT RefsAgree
