SPECIFICATION Spec
CONSTANTS
  Pkgs <- MCPkgs
  Bases <- MCBases
  BaseOf <- MCBaseOf
  GitPkgs = {"tool_git"}
  MaxCommit = 2
  MaxVcs = 2
  VerOf <- SameVersion
  Selections <- SplitSelections
  MaxCommands = 4
  MaxFaults = 1
INVARIANTS
  FilesMatchCheckout
  BuiltBeforeInstall
PROPERTIES
  InstalledFromCheckout
  GitReportFresh
  FetchReachesAur
CHECK_DEADLOCK FALSE
