CONSTANTS
  MaxDepth = 3
  MaxStack = 6
  Object = {obj}
  Nil = Nil
  Undecided = Undecided
SPECIFICATION Spec
INVARIANTS IInv DepthAccounting ErrorValueKept
PROPERTY ImplementsPromise
