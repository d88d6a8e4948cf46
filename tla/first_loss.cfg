\* A node sending to the master, under fairness: the first packet is lost.
CONSTANTS
  Peers = {master}
  NoPeer = NoPeer
  IsMaster = FALSE
  MaxNodes = 64
  MaxPacketEntries = 2
  MaxSequenceNum = 4
  SlidingWindowSize = 2
  MaxSent = 1
  MaxAcks = 1
SPECIFICATION FairSpec
PROPERTY AllDelivered
