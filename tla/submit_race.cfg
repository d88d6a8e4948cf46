\* Two nodes, two packet entries, three sequence numbers; a queue that a shift left
\* with a destination twice can be full.
CONSTANTS
  Peers = {n1, n2}
  NoPeer = NoPeer
  NoDst = NoDst
  IsMaster = TRUE
  MaxNodes = 3
  MaxPacketEntries = 2
  MaxSequenceNum = 3
  SlidingWindowSize = 2
SYMMETRY PeerSymmetry
CONSTRAINT OneCutIn
CHECK_DEADLOCK FALSE
SPECIFICATION Spec
INVARIANTS
  TypeOK
  NoAssertionFails
  PublishedComplete
  NoEntryLost
  QueueMatchesWindows
  NoTraceOfAbsent
  Inductive
