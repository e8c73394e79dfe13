CONSTANTS
  Tree = {t1, t2, t3, t4}
  Addr = {a1, a2, a3}
  None = None
SPECIFICATION ChunksSpec
SYMMETRY Symmetry
CHECK_DEADLOCK FALSE
INVARIANT LoadedBodiesStable
