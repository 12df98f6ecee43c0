CONSTANTS
  None = None
  MaxWorkers = 2
  BalanceRate = 2
  MaxFaults = 1
  Branching <- OneFork
SPECIFICATION Spec
INVARIANTS
  NoJobTwice
  JobsKept
  TransfersPaired
  BalancerSurvives
  SleepsOnlyIdle
PROPERTIES
  DoneOverlooksOnlyArrivals
  Terminates
CHECK_DEADLOCK FALSE
