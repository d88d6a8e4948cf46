\* Two devices, two IDs, and one lost packet.
CONSTANTS
  Devices = {d1, d2}
  NoDevice = NoDevice
  Nodes = {1, 2}
  Master = Master
  Unallocated = Unallocated
  Invalid = Invalid
  MaxNodes = 3
  MaxMasterSlotsBetweenAcks = 2
  MaxSlotsBetweenServicing = 6
  MinSlotsBetweenUnallocated = 2
  MaxSlotsBetweenUnallocated = 2
  NumSlotsBeforeAllocationChanged = 2
  ByteSize = 8
  MaxNodesAllocatedAtOnce = 2
  MasterMaxTimeToLive = 2
  TimeToLiveUpdateTime = 8
  NodeTimeout = 8
  MaxNewNodeBackoff = 2
  MasterResetCycles = 1
  MaxFaults = 1
SPECIFICATION Spec
INVARIANT DistinctIds
