SPECIFICATION CommandSpec
CONSTANTS
  Names <- MCNames
  NodeKinds <- MCNodeKinds
  MaxInstalled = 3
  MaxIgnored = 3
  Arguments <- MCArguments
INVARIANTS
  TypeOK
  WalkSelects
  ExactWhenInstalled
  ArgsAsWritten
CHECK_DEADLOCK FALSE
