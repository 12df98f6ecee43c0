SPECIFICATION ReplaySpec
SYMMETRY Symmetry
CONSTANTS
  Thread = {t1, t2, t3, t4}
  Mutex = {m1, m2}
  None = None
  InitCount = 3
  InitValue = 1
  UIntSize = 6
  MaxCreate = 4
INVARIANT LockIsOurs
CHECK_DEADLOCK FALSE
