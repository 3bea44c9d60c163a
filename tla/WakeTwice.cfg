SPECIFICATION FairSpec
CONSTANTS
  Ranks = 2
  Sids = 1
  Positions = 2
  PseudoChannels = 1
  AllBank = FALSE
  Interval = 3
  PullinWindow = 1
  PostponeLimit = 2
  PullinLimit = 1
  CreditLimit = 0
  Setups <- RoundTrip
  PrioritySize = 2
  EntryDelay = 0
  ExitDelay = 1
  WakeDelay = 2
  MaxBacklog = 2
  MaxCredit = 2
PROPERTIES
  ControlsServed
CHECK_DEADLOCK TRUE
