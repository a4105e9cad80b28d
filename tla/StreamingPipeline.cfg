CONSTANTS
  w1 = w1
  w2 = w2
  p1 = p1
  c1 = c1
  m1 = m1
  Workers <- TwoWorkers
  Producers <- OneProducer
  Consumers <- OneConsumer
  Controllers <- MainThread
  Capacity = 2
  MaxInputs = 3
  MaxStarts = 1
SPECIFICATION FairSpec
INVARIANTS
  SlotsAccounted
  NoPushBlocks
  OutputInInputOrder
  NothingAcceptedIsLost
PROPERTIES
  ImplementsWindow
  CallsReturn
