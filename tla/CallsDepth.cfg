CONSTANTS
  MaxDepth = 3
  MaxStack = 6
  Object = {obj}
  Nil = Nil
  Undecided = Undecided
SPECIFICATION Spec
INVARIANT DepthIsNesting
