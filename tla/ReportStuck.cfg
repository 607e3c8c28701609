SPECIFICATION FairSpec
CONSTANTS
  Cap = 2
  MaxOut = 3
  MaxFaults = 0
PROPERTIES
  GivesList
CHECK_DEADLOCK FALSE
