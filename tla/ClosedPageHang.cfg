SPECIFICATION TraceSpec
CONSTANTS
  Devices <- ClosedHbm
  MaxRequests = 3
PROPERTIES
  AllServed
CHECK_DEADLOCK FALSE
