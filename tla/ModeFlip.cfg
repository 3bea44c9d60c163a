SPECIFICATION Spec
CONSTANTS
  h1 = h1
  h2 = h2
  NoTag = NoTag
  Hosts <- OneHost
  MaxCount = 1
  StackCount = 1
  ChannelCount = 1
  Classes <- OneClass
  Strict = FALSE
  IngressSize = 2
  DispatchWidth = 1
  ControllerResponses = 1
  TransactionCap = 1
  HostCap = 1
  InitialMode = "Disabled"
  SetModes <- NoModes
  BatchCalls = FALSE
  MaxAccepted = 3
PROPERTIES
  ModeChangesWhenQuiescent
