SPECIFICATION Spec
CONSTANTS
  MaxLoads = 2
  i2 = i2
  i3 = i3
  e1 = e1
  e2 = e2
  Indices = {i2, i3}
  MaxAsks = 2
  Overlapping = FALSE
  Demos = FALSE
  Phased = FALSE
  Silent = FALSE
  None = None
  IdOf <- MCIdOf
  PanelId <- MCPanelId
  Remembered = 1
  MaxReads = 2
INVARIANTS
  TypeOK
  OneRead
  LoadingIsRead
  ReadingIsOfElement
  GroupIsOfSelected
  AsksAfterRunningOut
PROPERTIES
  LoadingEnds
CHECK_DEADLOCK FALSE
