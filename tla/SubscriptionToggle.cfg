SPECIFICATION Spec
CONSTANTS
  Call = {c1}
  Handler = {h}
  Command = {"toggle"}
  Days = 1
  MaxNow = 2
  Parallel = 1
  Faults = {}
SYMMETRY Symmetry
PROPERTIES ExpiredIsNotEnabled
CHECK_DEADLOCK FALSE
