CONSTANTS
  MaxThreads = 3
  MaxFragments = 3
  Sched <- CornerSched
  Level <- CornerLevel
  Selectors <- CornerSelectors
  Regions <- CornerRegions
SPECIFICATION Spec
INVARIANTS TypeOK BarrierCount SlotsDistinct FragmentsPublished
PROPERTIES RegionSync
CHECK_DEADLOCK FALSE
