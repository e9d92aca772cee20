SPECIFICATION Spec
CONSTANTS
  MaxLoads = 3
  Indices = {i1}
  MaxAsks = 1
  Overlapping = FALSE
  Demos = TRUE
  Phased = TRUE
  Silent = FALSE
  None = None
INVARIANTS
  ModelIsOfFile
  CardIsTrue
  PhaseIsOfFile
  ModelHasWasm
PROPERTIES
  LoadEnds
CHECK_DEADLOCK FALSE
