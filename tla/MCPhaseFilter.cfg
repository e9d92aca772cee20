SPECIFICATION Spec
CONSTANTS
  p1 = p1
  p2 = p2
  p3 = p3
  Phases = {p1, p2, p3}
  Elements = {wall}
  Rooms = {r1, r2}
  Orders <- MCOrders
  Copies <- MCCopies
  None = None
INVARIANTS
  MemoIsCurrent
  RoomsOfOnePhase
  NoneLostUnsaid
  LifeGoesOn
