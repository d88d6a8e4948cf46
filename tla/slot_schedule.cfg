\* Two nodes on a full duplex channel, and on a channel they share with the master
\* (3 slots ahead, as many as a node, an unallocated slot and the master need); a
\* node is removed and can join again.
CONSTANTS
  Nodes = {n1, n2}
  Master = Master
  Unallocated = Unallocated
  Invalid = Invalid
  MaxNodes = 3
  ScheduleLengths = {1, 3}
  MaxMasterSlotsBetweenAcks = 3
  MaxSlotsBetweenServicing = 3
  MinSlotsBetweenUnallocated = 2
  MaxSlotsBetweenUnallocated = 3
  NumSlotsBeforeAllocationChanged = 2
  ByteSize = 5
  MaxBufferLevel = 1
  MaxRemovals = 1
SYMMETRY NodeSymmetry
SPECIFICATION Spec
INVARIANTS
  TypeOK
  NoAssertionFails
  ServicedInTime
  MasterAlwaysScheduled
  BackloggedQueuedUnlessRejoined
  Inductive
