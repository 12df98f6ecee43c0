SPECIFICATION Spec
CONSTANTS
  Trace = {t1, t2}
  Elem = {a, b}
  None = None
  MaxSize = 3
  NodeId <- MCNodeId
SYMMETRY Symmetry
INVARIANTS TailPrivate AccessesAgree
PROPERTIES SharedFrozen BehavesAsSequences
CHECK_DEADLOCK FALSE
