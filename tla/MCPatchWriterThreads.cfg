CONSTANTS
  Calls = {c1, c2}
  Paths = {model, copy}
  Streams = {"x", "y"}
  Values = {"v1", "v2"}
  Manifests <- MCManifestsAndCopy
  Process <- MCSameProcess
  None = None
SPECIFICATION Spec
INVARIANT TargetIsWhole
