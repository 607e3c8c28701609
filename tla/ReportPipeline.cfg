SPECIFICATION FairSpec
CONSTANTS
  Cap = 2
  MaxOut = 3
  MaxFaults = 2
INVARIANTS
  TypeOK
  ReportComplete
  EndsOnlyWhenItFits
  NoOrphan
PROPERTIES
  EndsWhenItFits
CHECK_DEADLOCK FALSE
