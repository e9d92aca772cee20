SPECIFICATION Spec
CONSTANTS
  MaxLoads = 2
  Indices = {i1}
  MaxAsks = 1
  Overlapping = TRUE
  Demos = TRUE
  Phased = TRUE
  Silent = FALSE
  None = None
INVARIANTS ModelIsOfFile
CHECK_DEADLOCK FALSE
