CONSTANTS
  Obj = {o1, o2, o3}
  Short = {}
  Long = {}
  None = None
  MaxRefs = 2
  InitThreshold = 8
SPECIFICATION Spec
SYMMETRY Symmetry
INVARIANTS ReachableLive NoDangling
CHECK_DEADLOCK FALSE
