CONSTANTS
  SeqSpace = 16
  FirstSequence = 14
  QueueBytes = 4
  HistoryLimit = 3
  BatchLimit = 2
  ControlLimit = 1
  SeqHistory = 6
  MaxPendingUnits = 2
  MaxPendingBytes = 4
  PreStartBytes = 2
  QueuedUnits = 2
  QueuedUnitBytes = 5
  NackLimit = 2
  ReplayWindow = 2
  Commands <- LinkCommands
  Scenarios <- LinkScenarios
SPECIFICATION FairSpec
CHECK_DEADLOCK FALSE
INVARIANTS
  QueueAccounted
  SwitchStartsAtRandomAccess
  RtcpActsOnce
  UnitsOnce
  SequencesExact
PROPERTIES
  BothEndsClose
