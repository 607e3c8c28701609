SPECIFICATION Spec
CONSTANTS
  Fragment = 3
  MaxPieces = 6
  MaxFaults = 1
INVARIANTS
  WithinBuffer
  ReadsWhole
CHECK_DEADLOCK FALSE
