\* A node sending to the master; sequence numbers wrap.
CONSTANTS
  Peers = {master}
  NoPeer = NoPeer
  IsMaster = FALSE
  MaxNodes = 64
  MaxPacketEntries = 4
  MaxSequenceNum = 5
  SlidingWindowSize = 3
  MaxSent = 7
  MaxAcks = 2
SPECIFICATION Spec
INVARIANTS
  NoAssertionFails
  StoreMatchesWindows
  PacketOnWireIntact
  Inductive
PROPERTY ReliableDelivery
