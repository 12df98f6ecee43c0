SPECIFICATION Spec
CONSTANTS
  Thread = {0, 1}
  FirstOwner = 0
  CountMod = 4
  MaxCalls = 2
INVARIANTS Exclusive
CHECK_DEADLOCK FALSE
