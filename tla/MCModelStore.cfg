CONSTANTS
  Jobs = {j1, j2, j3}
  Paths = {p1}
  Specs = {"Phase 1", "Phase 2"}
  PhaseIds = {1, 2}
  PhaseOf <- MCPhaseOf
  None = None
  MaxOpen = 2
  PhaseMemory = 1
  MaxWritten = 2
SYMMETRY JobSymmetry
SPECIFICATION Spec
INVARIANTS
  StoreIsTrue
  StoreIsOne
  NeverOlderThanAsked
  AnsweredAtPhaseAsked
PROPERTIES
  RefinesLru
