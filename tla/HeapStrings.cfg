CONSTANTS
  Obj = {o1, o2}
  Short = {"a", "b"}
  Long = {"x"}
  None = None
  MaxRefs = 2
  InitThreshold = 8
SPECIFICATION FairSpec
INVARIANTS IInv InternCanonical
PROPERTIES ImplementsPromise CollectReturns
CHECK_DEADLOCK FALSE
