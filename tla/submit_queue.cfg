\* Two nodes, two packet entries, three sequence numbers.
CONSTANTS
  Peers = {n1, n2}
  NoPeer = NoPeer
  NoDst = NoDst
  IsMaster = TRUE
  MaxNodes = 64
  MaxPacketEntries = 2
  MaxSequenceNum = 3
  SlidingWindowSize = 2
SYMMETRY PeerSymmetry
CHECK_DEADLOCK FALSE
SPECIFICATION Spec
INVARIANT BackloggedOnQueue
