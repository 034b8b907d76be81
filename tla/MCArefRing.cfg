\* two producers, two consumers, double buffering, three laps
SPECIFICATION FairSpec
CONSTANTS
  p1 = p1
  p2 = p2
  c1 = c1
  c2 = c2
  l1 = l1
  l2 = l2
  Producers = {p1, p2}
  Consumers = {c1, c2}
  Depth = 2
  Trips = 6
  Kinds <- MCKinds
  Loads <- MCLoads
INVARIANTS IInv ReaderSeesItsLap ParityUnambiguous WriterKeepsUnread
PROPERTIES ImplementsChannel FullMeansFilled Completes
