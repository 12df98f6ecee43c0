CONSTANTS
  MaxThreads = 3
  MaxFragments = 3
  Sched <- MainSched
  Level <- MainLevel
  Selectors <- MainSelectors
  Regions <- MainRegions
SPECIFICATION FairSpec
INVARIANTS HBOrder SnapshotFresh SlotAgreement NoAssertFailure
PROPERTIES PublishedStable Termination
CHECK_DEADLOCK FALSE
