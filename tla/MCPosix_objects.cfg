SPECIFICATION MCSpec
SYMMETRY Symmetry
CONSTANTS
  Thread = {t1, t2, t3, t4}
  Mutex = {m1, m2}
  None = None
  InitCount = 3
  InitValue = 1
  UIntSize = 6
  MaxCreate = 4
INVARIANTS NoLostWakeup MutexExclusive RwExclusive SemUnitsKept SymbolicStartAdmits
           JoinServed JoinAllServed ReplaySame ReplayExclusive ReplayEnds
CHECK_DEADLOCK FALSE
