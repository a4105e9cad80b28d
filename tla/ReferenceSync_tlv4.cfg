CONSTANTS
  Options <- RtpSchedules
  Commands <- AccessCommand
  WarpGop = 4
  WarpReset = 2
  MaxLtrFrames = 3
  MaxInTransit = 2
  IdSpace = 32
  Translations <- Shifts
  Bounds <- OneCommand
SPECIFICATION Spec
CHECK_DEADLOCK FALSE
PROPERTY RandomAccessHonoured
