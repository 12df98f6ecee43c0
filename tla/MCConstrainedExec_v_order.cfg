CONSTANTS
  MaxThreads = 3
  MaxFragments = 3
  Sched <- CornerSched
  Level <- CornerLevel
  Selectors <- CornerSelectors
  Regions <- CornerRegions
SPECIFICATION Spec
INVARIANT HBOrder
CHECK_DEADLOCK FALSE
