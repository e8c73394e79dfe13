CONSTANTS
  Name = {"m", "q"}
  Marked = {"q"}
  Table = {t1, t2}
  Module = {v1}
  Templates = 2
  SearcherLists <- MCSearchers
  MaxStack = 2
  MaxWrites = 2
  Nil = Nil
  NoTable = NoTable
SPECIFICATION FairSpec
CHECK_DEADLOCK FALSE
INVARIANTS IInv ServedIsCached LoadedOnce SelfAssignmentKept SearchIsComplete
PROPERTY SearchEnds
