CONSTANTS
  DefaultJobs = {d1, d2}
  CustomJobs = {c1}
  Threads = 2
  None = None
SPECIFICATION Spec
INVARIANTS
  OneDecoder
  FailureIsOwn
  CancelledInTime
PROPERTIES
  RefinesOnce
  EveryRequestAnswered
  CancelledDecodeEnds
