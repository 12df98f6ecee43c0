CONSTANTS
  Var <- MCVar
  Input <- MCInput
  Path <- MCPath
  Slice <- MCSlice
  Graph <- MCGraph
  Target <- MCTarget
  Fails <- MCFails
  Region <- MCRegion
  PathOf <- MCPathOf
  Initial = "start"
SPECIFICATION FairSpec
CHECK_DEADLOCK FALSE
INVARIANTS RegionCovered SchedulesExact RegionsOnce SelectedCovers OneFragmentSelects InputsDefined
PROPERTY Terminates
