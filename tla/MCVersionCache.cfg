SPECIFICATION Spec
CONSTANTS
  Names = {1, 2, 3}
  Vers = {v1, v2}
  Torn = torn
  NoVersion = none
  Inputs <- MCInputs
  MaxCommands = 3
  MaxFaults = 2
INVARIANTS
  TypeOK
  SortedOnDisk
  MergeKeepsAll
PROPERTIES
  RecordsLastFetched
CHECK_DEADLOCK FALSE
