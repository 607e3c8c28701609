SPECIFICATION Spec
CONSTANTS
  a = a
  b = b
  Procs = {a, b}
  Names = {2, 4}
  Vers = {1, 3}
  Rest <- MCRest
  Inputs <- MCInputs
  Unknown = unknown
  MaxCommands = 3
  MaxFaults = 1
  Systems <- MCSystems
  FromAur = aur
  FromClone = clone
  Garbled = garbled
SYMMETRY Symmetry
INVARIANTS
  TypeOK
  SortedUnlessMixed
  FetchGitAccurate
  ReportFollowsRecord
PROPERTIES
  SaveKeeps
CHECK_DEADLOCK FALSE
