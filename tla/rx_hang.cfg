\* A node is removed while the queue has wrapped.
CONSTANTS
  Sources = {n1}
  NoSource = NoSource
  MaxRxPacketEntries = 3
  MaxAccepted = 3
  MaxRemovals = 1
SPECIFICATION Spec
INVARIANT RemovalEnds
CHECK_DEADLOCK FALSE
