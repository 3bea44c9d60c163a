SPECIFICATION Spec
CONSTANTS
  Bytes <- MCBytes
  Addrs = {0, 1, 2}
  WriteShapes <- AlignedWrites
  ReadShapes <- AlignedReads
  Behavioral = TRUE
  DualBus = TRUE
  ReadDepth = 2
  WriteDepth = 2
  ActiveDepth = 2
  ResponseDepth = 2
  PhyReadDepth = 1
  PhyWriteDepth = 2
  ReadLatency = 1
  WriteLatency = 2
  PrechargeGate = 3
  HighMark = 1
  LowMark = 1
  MaxRequests = 3
  NoWrite = NoWrite
INVARIANTS
  PhyMatchesPending
PROPERTIES
  StorageMovesForward
  ImplementsAtomicStore
