CONSTANTS
  Phases = {"old", "new"}
  Last = "new"
  Fallback = "old"
  Keys = {"server", "small"}
  None = None
  Panics = TRUE
  Unknown = "unknown"
SPECIFICATION Spec
INVARIANTS
  ElementsAsFresh
  PhaseAsAsked
  NotesFollowWalkUnlessCut
  TableAndLogFollow
