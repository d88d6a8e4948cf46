\* The master sending to two nodes; sequence numbers wrap.
CONSTANTS
  Peers = {n1, n2}
  NoPeer = NoPeer
  IsMaster = TRUE
  MaxNodes = 64
  MaxPacketEntries = 2
  MaxSequenceNum = 3
  SlidingWindowSize = 2
  MaxSent = 4
  MaxAcks = 2
SYMMETRY PeerSymmetry
SPECIFICATION Spec
INVARIANTS
  TypeOK
  NoAssertionFails
  ActiveIffQueued
  RetainedUntilDelivered
PROPERTY ReliableDelivery
