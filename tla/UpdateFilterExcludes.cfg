SPECIFICATION Spec
CONSTANTS
  Names = {1, 2, 3}
  NodeKinds <- MCNodeKinds
  MaxInstalled = 3
  MaxIgnored = 3
INVARIANT
  ExcludesHonoured
CHECK_DEADLOCK FALSE
