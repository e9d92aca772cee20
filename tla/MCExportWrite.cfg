CONSTANTS
  Exports = {e1, e2}
  Outputs = {out}
  Input = model
  model = model
  out = out
  MODEL = MODEL
  Spellings <- MCSpellings
  Entry <- MCEntry
  Chunks = 2
  Someone = Someone
  Link = Link
  None = None
SPECIFICATION Spec
INVARIANTS
  TargetIsWhole
  InputIsKept
PROPERTIES
  RefinesAtomic
  ReplacesOnlyIfAsked
  LeavesNoTemp
  EveryExportEnds
