CONSTANTS
  Var = {"x"}
  EnvTable = {"T"}
  G = "G"
  NoTable = "no table"
  NoName = "none"
  Labelled = {"chunk", "while", "repeat"}
  MaxSteps = 6
  MaxLocals = 4
  MaxBlocks = 3
SPECIFICATION Spec
CHECK_DEADLOCK FALSE
INVARIANT NamesAreLexical
