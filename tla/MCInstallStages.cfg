SPECIFICATION FairSpec
CONSTANTS
  Pkgs <- MCPkgs
  Bases <- MCBases
  BaseOf <- MCBaseOf
  GitPkgs = {"tool_git"}
  MaxCommit = 1
  MaxVcs = 1
  VerOf <- OneVersion
  Selections <- MCSelections
  MaxCommands = 2
  MaxFaults = 2
INVARIANTS
  TypeOK
  InstallBound
  InstallNeedsFetched
  OuterRepoSafe
PROPERTIES
  StagesInOrder
  WholeTransaction
  CommandEnds
CHECK_DEADLOCK FALSE
