CONSTANTS
  Force = 1
  Settle = 1
  Idle = 1
  MaxReq = 1
  MaxFaults = 1
SPECIFICATION Spec

PROPERTIES WaitsForIdle
CHECK_DEADLOCK FALSE
