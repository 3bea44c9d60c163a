SPECIFICATION Spec
CONSTANTS
  h1 = h1
  h2 = h2
  NoTag = NoTag
  Hosts <- OneHost
  MaxCount = 2
  StackCount = 2
  ChannelCount = 1
  Classes <- TwoClasses
  Strict = TRUE
  IngressSize = 3
  DispatchWidth = 2
  ControllerResponses = 1
  TransactionCap = 1
  HostCap = 1
  InitialMode = "Both"
  SetModes <- NoModes
  BatchCalls = TRUE
  MaxAccepted = 3
INVARIANTS
  HostQueueHolds
PROPERTIES
  DispatchInOrder
