SPECIFICATION TraceSpec
CONSTANTS
  Devices <- ClosedLpddr
  MaxRequests = 3
INVARIANTS
  Act2InTime
CHECK_DEADLOCK FALSE
