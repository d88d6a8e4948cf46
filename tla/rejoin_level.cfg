\* A full duplex channel; a node is removed and can join again.
CONSTANTS
  Nodes = {n1}
  Master = Master
  Unallocated = Unallocated
  Invalid = Invalid
  MaxNodes = 2
  ScheduleLengths = {1}
  MaxMasterSlotsBetweenAcks = 4
  MaxSlotsBetweenServicing = 6
  MinSlotsBetweenUnallocated = 2
  MaxSlotsBetweenUnallocated = 2
  NumSlotsBeforeAllocationChanged = 2
  ByteSize = 8
  MaxBufferLevel = 1
  MaxRemovals = 1
SPECIFICATION Spec
INVARIANT BackloggedQueued
