\* The receive path while nodes time out.
CONSTANTS
  Sources = {n1, n2}
  NoSource = NoSource
  MaxRxPacketEntries = 4
  MaxAccepted = 2
  MaxRemovals = 1
SYMMETRY SourceSymmetry
SPECIFICATION Spec
INVARIANTS
  TypeOK
  NoAssertionFails
  BuffersAccounted
  AcceptedReachApplication
  PeekedIntact
  Handoff
CHECK_DEADLOCK FALSE
