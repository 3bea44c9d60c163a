SPECIFICATION Spec
CONSTANTS
  Ranks = 2
  Sids = 1
  Positions = 2
  PseudoChannels = 1
  AllBank = FALSE
  Interval = 3
  PullinWindow = 1
  PostponeLimit = 3
  PullinLimit = 1
  CreditLimit = 1
  Setups <- NoControls
  PrioritySize = 2
  EntryDelay = 0
  ExitDelay = 1
  WakeDelay = 2
  MaxBacklog = 2
  MaxCredit = 4
PROPERTIES
  RestsWithinLimit
CHECK_DEADLOCK TRUE
