CONSTANTS
  Options <- ScheduleStreams
  Commands <- ScheduleCommands
  WarpGop = 4
  WarpReset = 2
  MaxLtrFrames = 3
  MaxInTransit = 2
  IdSpace = 32
  Translations <- Shifts
  Bounds <- ScheduleBounds
SPECIFICATION Spec
CHECK_DEADLOCK FALSE
INVARIANTS
  RefsAgree
  CopiesAgree
  NeverRejects
  ForcedRecoverySound
