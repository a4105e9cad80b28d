CONSTANTS
  Streams <- FourStreams
  MaxPending = 3
  NetSize = 4
  Losses = 2
  Copies = 1
SPECIFICATION FairSpec
CHECK_DEADLOCK FALSE
INVARIANTS
  HonestStreamAccepted
  CompleteWithoutGap
PROPERTIES
  NeverBackwards
  ReceiverMovesOn
