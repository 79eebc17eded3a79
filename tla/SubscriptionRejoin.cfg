SPECIFICATION Spec
CONSTANTS
  Call = {c1, c2, c3, c4}
  Handler = {}
  Command = {"toggle","leave","join"}
  Days = 1
  MaxNow = 0
  Parallel = 1
  Faults = {}
SYMMETRY Symmetry
PROPERTIES RestoresOwn
CHECK_DEADLOCK FALSE
