--------------------------- MODULE RevitHandleProofs ---------------------------
(***************************************************************************)
(* Theorems about RevitHandle, for every set of phases and of limits: an   *)
(* export gives the elements a fresh handle gives, at the phase it names,  *)
(* and unless a walk was cut off, with the notes, the sources and the      *)
(* frames of that walk.                                                    *)
(*                                                                         *)
(* The argument: the memoised walk always has the effect of the filter the *)
(* handle is at, and what was noted is of the memoised walk whenever no    *)
(* walk is between its reset of the notes and its end, or was left there.  *)
(***************************************************************************)
EXTENDS RevitHandle, TLAPS

Walking == {"recover", "store"}
Switched == {"walk", "scan", "recover", "store", "report"}

\* The walk is one at the phase the handle is at.
WalkInv == walk # None => walk.effect = Effect(filter)

\* The export in progress is at the phase it asked for, and notes what it asked
\* to have noted.
OptsInv ==
  /\ opts # None /\ opts.export /\ opts.phase # None /\ pc # "phase" =>
       filter = Named(opts.phase)
  /\ opts # None /\ opts.export /\ pc \in Switched =>
       noting = opts.table /\ frames = opts.log
  /\ opts # None /\ pc \in {"phase", "switches"} => opts.export
  /\ pc = "phase" => opts.phase # None
  /\ pc = "report" => walk = Wanted(opts, filter)
  /\ pc \in {"scan"} \cup Walking /\ walk # None => walk.key # opts.key

\* Every export has the same limits and score, as those of the server have.
OneKey == \A k, l \in Keys : k = l

\* What was noted, by where the walk is that notes it.
NotesInv ==
  /\ ~cut /\ walk # None /\ pc \notin Walking =>
       /\ notes = {walk}
       /\ noting => sources = {walk}
       /\ frames => listed
  /\ pc = "recover" => notes = {} /\ sources = {}
  /\ pc = "store" =>
       /\ notes = {Wanted(opts, filter)}
       /\ noting => sources = {Wanted(opts, filter)}
       /\ frames => listed

Reported ==
  /\ ElementsAsFresh /\ PhaseAsAsked
  /\ NotesFollowWalkUnlessCut /\ SourcesFollowWalk /\ FramesListed
  /\ pc # "idle" => report = None

IInv == /\ TypeOK /\ WalkInv /\ OptsInv /\ NotesInv /\ Reported
        /\ OneKey => ~cut

\* A change of phase that drops the walk exactly when the effect differs keeps
\* the walk at the handle's phase.
LEMMA KeptWalk ==
  ASSUME NEW f, WalkInv, filter' = f,
         walk' = IF Differs(filter, f) THEN None ELSE walk
  PROVE  WalkInv'
<1>1. CASE Differs(filter, f)
  BY <1>1 DEF WalkInv
<1>2. CASE ~Differs(filter, f)
  <2>1. walk' = walk /\ Effect(filter) = Effect(filter')
    BY <1>2 DEF Differs
  <2> QED
    BY <2>1 DEF WalkInv
<1> QED
  BY <1>1, <1>2

LEMMA NamedEffect ==
  ASSUME NEW p \in Phases
  PROVE  Named(p) \in Filters /\ Effect(Named(p)) = <<p, p>>
BY DEF Named, Filters, Effect, RoomPhase

LEMMA WantedIsWalk ==
  ASSUME NEW o \in Options, NEW f \in Filters
  PROVE  Wanted(o, f) \in Walks /\ Wanted(o, f).effect = Effect(f)
BY PhasesAssumption
   DEF Wanted, Walks, Effects, Effect, RoomPhase, Options, Filters

LEMMA NothingReported ==
  ASSUME report' = None
  PROVE  Reported'
BY DEF Reported, ElementsAsFresh, PhaseAsAsked, NotesFollowWalkUnlessCut,
       NotesFollowWalk, SourcesFollowWalk, FramesListed

LEMMA InitIInv == Init => IInv
<1> SUFFICES ASSUME Init PROVE IInv
  OBVIOUS
<1> USE NoneAssumption DEF Init
<1>1. TypeOK
  BY PhasesAssumption DEF TypeOK, Filters
<1>2. WalkInv /\ OptsInv /\ NotesInv
  BY DEF WalkInv, OptsInv, NotesInv, Walking
<1>3. Reported
  BY DEF Reported, ElementsAsFresh, PhaseAsAsked, NotesFollowWalkUnlessCut,
         NotesFollowWalk, SourcesFollowWalk, FramesListed
<1> QED
  BY <1>1, <1>2, <1>3 DEF IInv

-----------------------------------------------------------------------------
(* One lemma an action *)

LEMMA PhaseStep ==
  ASSUME IInv, (\E p \in Phases : ChoosePhase(p)) \/ ClearPhase
  PROVE  IInv'
<1>1. PICK f \in Filters :
        /\ filter' = f
        /\ walk' = IF Differs(filter, f) THEN None ELSE walk
        /\ pc = "idle" /\ report' = None
        /\ UNCHANGED <<noting, sources, frames, notes, listed, pc, opts, cut>>
  BY PhasesAssumption
     DEF ChoosePhase, ClearPhase, Filters, Named, Default
<1> USE NoneAssumption DEF IInv
<1>2. TypeOK'
  BY <1>1 DEF TypeOK
<1>3. WalkInv'
  BY <1>1, KeptWalk
<1>4. OptsInv' /\ NotesInv'
  BY <1>1 DEF OptsInv, NotesInv, TypeOK, Walking, Switched
<1>5. Reported'
  BY <1>1, NothingReported
<1> QED
  BY <1>1, <1>2, <1>3, <1>4, <1>5

LEMMA BeginStep ==
  ASSUME IInv, NEW o \in Options, Begin(o)
  PROVE  IInv'
<1> USE NoneAssumption DEF IInv, Begin
<1>1. TypeOK'
  BY DEF TypeOK, Options
<1>2. WalkInv' /\ NotesInv'
  BY DEF WalkInv, NotesInv, Walking
<1>3. OptsInv'
  BY DEF OptsInv, Switched, Walking, Options
<1>4. Reported'
  BY NothingReported
<1> QED
  BY <1>1, <1>2, <1>3, <1>4

LEMMA SetPhaseStep ==
  ASSUME IInv, SetPhase
  PROVE  IInv'
<1> USE NoneAssumption DEF IInv
<1>1. opts \in Options /\ opts.export /\ opts.phase # None /\ pc = "phase"
  BY DEF SetPhase, TypeOK, OptsInv
<1>2. report' = None
  BY <1>1 DEF SetPhase, Reported
<1>3. CASE opts.phase = Unknown
  <2>1. /\ pc' = "idle" /\ opts' = None
        /\ UNCHANGED <<filter, walk, noting, sources, frames, notes, listed,
                       report, cut>>
    BY <1>3 DEF SetPhase
  <2> QED
    BY <2>1, <1>1, <1>2, NothingReported
       DEF TypeOK, WalkInv, OptsInv, NotesInv, Walking, Switched
<1>4. CASE opts.phase # Unknown
  <2>1. opts.phase \in Phases
    BY <1>1, <1>4 DEF Options
  <2>2. /\ filter' = Named(opts.phase)
        /\ walk' = IF Differs(filter, Named(opts.phase)) THEN None ELSE walk
        /\ pc' = "switches"
        /\ UNCHANGED <<noting, sources, frames, notes, listed, opts, report,
                       cut>>
    BY <1>4 DEF SetPhase
  <2>3. TypeOK'
    BY <1>1, <1>2, <2>1, <2>2, NamedEffect DEF TypeOK
  <2>4. WalkInv'
    BY <2>2, KeptWalk
  <2>5. OptsInv' /\ NotesInv'
    BY <1>1, <2>2 DEF OptsInv, NotesInv, Walking, Switched
  <2> QED
    BY <1>2, <2>2, <2>3, <2>4, <2>5, NothingReported
<1> QED
  BY <1>3, <1>4

LEMMA SwitchesStep ==
  ASSUME IInv, Switches
  PROVE  IInv'
<1> USE NoneAssumption DEF IInv, Switches
<1>1. opts \in Options /\ opts.export /\ report' = None
  BY DEF TypeOK, OptsInv, Reported
<1>2. TypeOK'
  BY <1>1 DEF TypeOK, Options
<1>3. WalkInv'
  BY DEF WalkInv
<1>4. OptsInv'
  BY <1>1 DEF OptsInv, Switched, Walking
<1>5. NotesInv'
  BY <1>1 DEF NotesInv, Walking, TypeOK, Options
<1>6. Reported'
  BY <1>1, NothingReported
<1> QED
  BY <1>2, <1>3, <1>4, <1>5, <1>6

LEMMA WalkStep ==
  ASSUME IInv, Walk \/ Reset \/ Recover \/ Store
  PROVE  IInv'
<1> USE NoneAssumption DEF IInv
<1>1. /\ opts \in Options /\ filter \in Filters /\ pc # "idle"
      /\ report' = None /\ filter' = filter /\ opts' = opts
      /\ noting' = noting /\ frames' = frames
  BY DEF TypeOK, Reported, Walk, Reset, Recover, Store
<1> DEFINE w == Wanted(opts, filter)
<1>2. w \in Walks /\ w.effect = Effect(filter) /\ w.key = opts.key
  BY <1>1, WantedIsWalk DEF Wanted
<1>3. w' = w
  BY <1>1
<1>4. walk # None /\ walk.key = opts.key => walk = w
  BY <1>1, <1>2 DEF WalkInv, TypeOK, Walks, Wanted
<1> HIDE DEF w
<1>5. TypeOK'
  BY <1>1, <1>2 DEF TypeOK, Walk, Reset, Recover, Store, w
<1>6. WalkInv'
  BY <1>1, <1>2 DEF WalkInv, Walk, Reset, Recover, Store, w
<1>7. OptsInv'
  BY <1>1, <1>4
     DEF OptsInv, Switched, Walking, Walk, Hit, Reset, Recover, Store, w
<1>8. NotesInv'
  BY <1>1 DEF NotesInv, Walking, TypeOK, Walk, Reset, Recover, Store
<1>9. Reported'
  BY <1>1, NothingReported
<1>10. OneKey => ~cut'
  BY DEF Walk, Reset, Recover, Store
<1> QED
  BY <1>5, <1>6, <1>7, <1>8, <1>9, <1>10

LEMMA ReportStep ==
  ASSUME IInv, Report
  PROVE  IInv'
<1> USE NoneAssumption DEF IInv, Report
<1>1. /\ opts \in Options /\ filter \in Filters /\ walk = Wanted(opts, filter)
      /\ walk \in Walks
  BY WantedIsWalk DEF TypeOK, OptsInv
<1>2. /\ report'.opts = opts /\ report'.filter = filter
      /\ report'.elements = walk /\ report'.notes = notes
      /\ report'.sources = sources /\ report'.listed = (listed /\ frames)
  OBVIOUS
<1>3. TypeOK'
  BY <1>1, <1>2 DEF TypeOK
<1>4. WalkInv' /\ OptsInv' /\ NotesInv'
  BY DEF WalkInv, OptsInv, NotesInv, Walking, Switched
<1>5. ElementsAsFresh'
  BY <1>1, <1>2 DEF ElementsAsFresh, Fresh, Wanted
<1>6. PhaseAsAsked'
  <2>1. ASSUME opts.export, opts.phase # None
        PROVE  walk.effect = <<opts.phase, opts.phase>>
    <3>1. filter = Named(opts.phase)
      BY <1>1, <2>1 DEF OptsInv
    <3>2. opts.phase \in Phases
      BY <1>1, <3>1 DEF Filters, Named
    <3> QED
      BY <1>1, <3>1, <3>2, NamedEffect DEF Wanted
  <2> QED
    BY <1>2, <2>1 DEF PhaseAsAsked
<1>7. ~cut => notes = {walk}
  BY <1>1 DEF NotesInv, Walking
<1>8. NotesFollowWalkUnlessCut'
  BY <1>2, <1>7 DEF NotesFollowWalkUnlessCut, NotesFollowWalk
<1>9. ASSUME ~cut, opts.export
      PROVE  /\ opts.table => sources = {walk}
             /\ opts.log => listed /\ frames
  BY <1>1, <1>9 DEF NotesInv, OptsInv, Walking, Switched
<1>10. SourcesFollowWalk' /\ FramesListed'
  BY <1>2, <1>9 DEF SourcesFollowWalk, FramesListed
<1> QED
  BY <1>3, <1>4, <1>5, <1>6, <1>8, <1>10 DEF Reported

LEMMA BrokenOffStep ==
  ASSUME IInv, pc # "idle", BrokenOff
  PROVE  IInv'
<1> USE NoneAssumption DEF IInv, BrokenOff
<1>1. report' = None
  BY DEF Reported
<1>2. TypeOK'
  BY <1>1 DEF TypeOK
<1>3. WalkInv' /\ OptsInv'
  BY DEF WalkInv, OptsInv, Switched, Walking
<1>4. NotesInv'
  BY DEF NotesInv, Walking
<1>5. OneKey => ~cut'
  <2>1. ASSUME OneKey, pc \in Walking, walk # None PROVE FALSE
    BY <2>1 DEF TypeOK, OptsInv, Walking, OneKey, Walks, Options
  <2> QED
    BY <2>1 DEF Walking
<1> QED
  BY <1>1, <1>2, <1>3, <1>4, <1>5, NothingReported

LEMMA NextIInv == IInv /\ [Next]_vars => IInv'
<1> SUFFICES ASSUME IInv, [Next]_vars PROVE IInv'
  OBVIOUS
<1>1. CASE UNCHANGED vars
  BY <1>1 DEF vars, IInv, TypeOK, WalkInv, OptsInv, NotesInv, Reported,
       ElementsAsFresh, PhaseAsAsked, NotesFollowWalkUnlessCut,
       NotesFollowWalk, SourcesFollowWalk, FramesListed
<1>2. CASE (\E p \in Phases : ChoosePhase(p)) \/ ClearPhase
  BY <1>2, PhaseStep
<1>3. CASE \E o \in Options : Begin(o)
  BY <1>3, BeginStep
<1>4. CASE ExportStep
  BY <1>4, SetPhaseStep, SwitchesStep, WalkStep, ReportStep DEF ExportStep
<1>5. CASE Cancelled \/ Panic
  BY <1>5, BrokenOffStep DEF Cancelled, Panic
<1> QED
  BY <1>1, <1>2, <1>3, <1>4, <1>5 DEF Next

-----------------------------------------------------------------------------

\* The inductive invariant holds of every reachable state.
THEOREM Invariance == Spec => []IInv
<1>1. Init => IInv
  BY InitIInv
<1>2. IInv /\ [Next]_vars => IInv'
  BY NextIInv
<1> QED
  BY <1>1, <1>2, PTL DEF Spec

LEMMA IInvImplies ==
  IInv => /\ TypeOK /\ ElementsAsFresh /\ PhaseAsAsked
          /\ NotesFollowWalkUnlessCut /\ SourcesFollowWalk /\ FramesListed
BY DEF IInv, Reported

\* The variables keep their types.
THEOREM TypeCorrect == Spec => []TypeOK
BY Invariance, IInvImplies, PTL

\* An export gives the elements a handle just opened gives.
THEOREM HistoryDoesNotShow == Spec => []ElementsAsFresh
BY Invariance, IInvImplies, PTL

\* An export that names a phase is written at it, exactly.
THEOREM PhaseIsAsked == Spec => []PhaseAsAsked
BY Invariance, IInvImplies, PTL

\* The diagnostics are of the walk exported, unless a walk was cut off.
THEOREM NotesAreOfTheWalk == Spec => []NotesFollowWalkUnlessCut
BY Invariance, IInvImplies, PTL

\* So are the provenance table and the log.
THEOREM TableAndLogAreOfTheWalk == Spec => []TableAndLogFollow
BY Invariance, IInvImplies, PTL DEF TableAndLogFollow

\* Under one set of limits the notes are those of the walk exported, whatever
\* was cancelled or panicked before.
THEOREM NotesAreOfTheWalkUnderOneKey ==
  ASSUME OneKey
  PROVE  Spec => []NotesFollowWalk
<1>1. IInv => NotesFollowWalk
  BY DEF IInv, Reported, NotesFollowWalkUnlessCut
<1> QED
  BY <1>1, Invariance, PTL
=============================================================================
