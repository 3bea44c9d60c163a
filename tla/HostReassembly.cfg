SPECIFICATION Spec
CONSTANTS
  h1 = h1
  h2 = h2
  NoTag = NoTag
  Hosts <- TwoHosts
  MaxCount = 2
  StackCount = 1
  ChannelCount = 2
  Classes <- OneClass
  Strict = FALSE
  IngressSize = 2
  DispatchWidth = 1
  ControllerResponses = 1
  TransactionCap = 1
  HostCap = 1
  InitialMode = "Disabled"
  SetModes <- OtherMode
  BatchCalls = FALSE
  MaxAccepted = 3
INVARIANTS
  TagOutlivesItsTransactions
  SubmissionAccounts
  AnswersAreWhole
PROPERTIES
  ImplementsHostPort
