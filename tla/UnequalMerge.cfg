SPECIFICATION Spec
CONSTANTS
  Bytes <- MCBytes
  Addrs = {0, 1, 2}
  WriteShapes <- UnequalWrites
  ReadShapes <- AlignedReads
  Behavioral = FALSE
  DualBus = FALSE
  ReadDepth = 2
  WriteDepth = 2
  ActiveDepth = 2
  ResponseDepth = 1
  PhyReadDepth = 1
  PhyWriteDepth = 1
  ReadLatency = 2
  WriteLatency = 2
  PrechargeGate = 0
  HighMark = 1
  LowMark = 1
  MaxRequests = 3
  NoWrite = NoWrite
INVARIANTS
  NewestValueHeld
