\* The master sending to two nodes, under fairness.
CONSTANTS
  Peers = {n1, n2}
  NoPeer = NoPeer
  IsMaster = TRUE
  MaxNodes = 64
  MaxPacketEntries = 2
  MaxSequenceNum = 3
  SlidingWindowSize = 2
  MaxSent = 2
  MaxAcks = 1
SPECIFICATION FairSpec
PROPERTY DeliveredOnceStarted
