SPECIFICATION Spec
CONSTANTS
  MaxLoads = 2
  Indices = {i1}
  MaxAsks = 1
  Overlapping = FALSE
  Demos = TRUE
  Phased = TRUE
  Silent = TRUE
  None = None
PROPERTIES LoadEnds
CHECK_DEADLOCK FALSE
