CONSTANTS
  Var <- MCVar
  Input <- MCInput
  Path <- MCPath
  Slice <- MCSlice
  Graph <- MCGraph
  Target <- MCTarget
  Fails <- MCFails
  Region <- MCRegion
  PathOf <- MCPathOf
  Initial = "entry_sliced"
SPECIFICATION Spec
CHECK_DEADLOCK FALSE
INVARIANT InputsCovered
