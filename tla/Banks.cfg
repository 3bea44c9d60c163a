SPECIFICATION TraceSpec
CONSTANTS
  Devices <- MCDevices
  MaxRequests = 3
INVARIANTS
  ValidatorAccepts
  ActiveRowsHeld
  Act2InTime
  RfmWaiting
PROPERTIES
  AllServed
CHECK_DEADLOCK FALSE
