CONSTANTS
  Name = {l1, l2}
  MaxSize = 6
  Tree = {t1, t2, t3, t4}
  Addr = {a1, a2, a3}
  None = None
SPECIFICATION MCSpec
SYMMETRY Symmetry
CHECK_DEADLOCK FALSE
INVARIANTS AcceptedGotosSound RefusalsExact LabelCacheFresh
