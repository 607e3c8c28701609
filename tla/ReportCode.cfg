SPECIFICATION Spec
CONSTANTS
  Cap = 2
  MaxOut = 1
  MaxFaults = 1
INVARIANT
  ReturnsCode
CHECK_DEADLOCK FALSE
