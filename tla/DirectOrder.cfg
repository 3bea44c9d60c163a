SPECIFICATION Spec
CONSTANTS
  Bytes <- MCBytes
  Addrs = {0, 1, 2}
  WriteShapes <- AlignedMaskedWrites
  ReadShapes <- StraddlingReads
  Behavioral = FALSE
  DualBus = FALSE
  ReadDepth = 2
  WriteDepth = 2
  ActiveDepth = 2
  ResponseDepth = 1
  PhyReadDepth = 1
  PhyWriteDepth = 1
  ReadLatency = 2
  WriteLatency = 1
  PrechargeGate = 0
  HighMark = 1
  LowMark = 1
  MaxRequests = 4
  NoWrite = NoWrite
INVARIANTS
  TypeOK
  ExactlyOnePlace
  BufferedIffQueued
  ReadsSeeAcceptedOrder
  NewestValueHeld
