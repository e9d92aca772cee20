------------------------------ MODULE RevitHandle ------------------------------
(***************************************************************************)
(* What one RevitFile handle remembers between exports, and what an export *)
(* makes of it: src/src/reader.rs, the production walk of                  *)
(* src/src/walker.rs and the steps of src/src/ifc/export_pipeline.rs.      *)
(*                                                                         *)
(* The handle keeps the export phase, two switches that say what readers   *)
(* note, one memoised walk with the key it was made under, and the notes   *)
(* that the partition recovery of a walk leaves for the diagnostics.  It is *)
(* used by one caller at a time, who runs one export after another, each   *)
(* with options of its own; an export may be cancelled, and may end in a   *)
(* panic that its caller survives, as the MCP server does.                 *)
(*                                                                         *)
(* The elements of a walk are the pair that determines them: its key and   *)
(* what its phase filter has in effect.  Notes are the walk they are of.   *)
(***************************************************************************)
EXTENDS Naturals, FiniteSets

CONSTANTS
  Phases,      \* the phases of the project
  Last,        \* the last of them
  Fallback,    \* the earlier phase whose rooms the default writes, or None
  Keys,        \* minimum scores with walker limits
  None,        \* none
  Unknown,     \* a phase the project does not have
  Panics       \* whether callers survive panics and go on with the handle

ASSUME PanicsAssumption == Panics \in BOOLEAN
ASSUME PhasesAssumption ==
  Last \in Phases /\ Fallback \in (Phases \ {Last}) \cup {None}

\* PhaseFilter, of which `named` also says that chosen_export_phase is set.
Filters == [export : Phases, named : BOOLEAN]

\* What differs_in_effect_from compares: the export phase and the phase rooms
\* are judged against.
Effects == Phases \X Phases
RoomPhase(f) ==
  IF ~f.named /\ Fallback # None THEN Fallback ELSE f.export
Effect(f) == <<f.export, RoomPhase(f)>>

Walks == [key : Keys, effect : Effects]

\* What a caller asks for.  `export` is a run of run_export; without it the
\* walk alone is asked for, or the exporter without the pipeline, and no
\* switch is set.  `heeds`: the walk is given the caller's control.
Options == [export : BOOLEAN, phase : Phases \cup {None, Unknown},
            table : BOOLEAN, log : BOOLEAN, key : Keys, heeds : BOOLEAN]

ASSUME NoneAssumption ==
  /\ None \notin Phases /\ Unknown \notin Phases \cup {None}
  /\ None \notin Walks /\ None \notin Options

VARIABLES
  filter,     \* phase_filter and chosen_export_phase
  noting,     \* whether value_sources is there to note in
  sources,    \* the walks whose readers' notes are in it
  frames,     \* frame_decisions
  walk,       \* the memoised walk, or None
  notes,      \* the walks that left export notes
  listed,     \* whether these hold the list of frames that stop
  pc,         \* where the export in progress is
  opts,       \* its options, None when there is none
  report,     \* what the export that just ended well reported, or None
  cut         \* history: whether the last walk that was broken off after it
              \* reset the notes left an older one memoised

vars == <<filter, noting, sources, frames, walk, notes, listed, pc, opts,
          report, cut>>

Init ==
  /\ filter = [export |-> Last, named |-> FALSE]
  /\ noting = FALSE /\ sources = {}
  /\ frames = FALSE
  /\ walk = None
  /\ listed = FALSE
  /\ notes = {}
  /\ pc = "idle"
  /\ opts = None
  /\ report = None
  /\ cut = FALSE

Named(p) == [export |-> p, named |-> TRUE]
Default == [export |-> Last, named |-> FALSE]

\* Mutant of Differs: a phase that is the one in effect changes nothing.
DiffersInPhase(f, g) == f.export # g.export

\* differs_in_effect_from
Differs(f, g) == Effect(f) # Effect(g)

\* The walk the options ask for on the handle as it is.
Wanted(o, f) == [key |-> o.key, effect |-> Effect(f)]

-----------------------------------------------------------------------------
(* The phase *)

\* set_export_phase, by itself.
ChoosePhase(p) ==
  /\ pc = "idle"
  /\ filter' = Named(p)
  /\ walk' = IF Differs(filter, Named(p)) THEN None ELSE walk
  /\ report' = None
  /\ UNCHANGED <<noting, sources, frames, notes, listed, pc, opts, cut>>

\* clear_export_phase
ClearPhase ==
  /\ pc = "idle"
  /\ filter.named
  /\ filter' = Default
  /\ walk' = IF Differs(filter, Default) THEN None ELSE walk
  /\ report' = None
  /\ UNCHANGED <<noting, sources, frames, notes, listed, pc, opts, cut>>

-----------------------------------------------------------------------------
(* An export *)

Begin(o) ==
  /\ pc = "idle"
  /\ opts' = o
  /\ pc' = IF ~o.export THEN "walk"
           ELSE IF o.phase # None THEN "phase" ELSE "switches"
  /\ report' = None
  /\ UNCHANGED <<filter, noting, sources, frames, walk, notes, listed, cut>>

\* set_export_phase of the options, before anything is read.
SetPhase ==
  /\ pc = "phase"
  /\ IF opts.phase = Unknown
       THEN pc' = "idle" /\ opts' = None /\ UNCHANGED <<filter, walk, cut>>
       ELSE /\ filter' = Named(opts.phase)
            /\ walk' = IF Differs(filter, Named(opts.phase)) THEN None ELSE walk
            /\ pc' = "switches"
            /\ UNCHANGED opts
  /\ UNCHANGED <<noting, sources, frames, notes, listed, report, cut>>

\* Mutant of Switches: the switches are set and the walk is left.
SwitchesOnly ==
  /\ pc = "switches"
  /\ noting' = opts.table
  /\ sources' = IF opts.table THEN sources ELSE {}
  /\ frames' = opts.log
  /\ pc' = "walk"
  /\ UNCHANGED <<filter, walk, notes, listed, opts, report, cut>>

\* record_value_sources and record_frame_decisions: to start noting drops the
\* walk that was made while nothing was noted.
Switches ==
  /\ pc = "switches"
  /\ noting' = opts.table
  /\ sources' = IF opts.table THEN sources ELSE {}
  /\ frames' = opts.log
  /\ walk' = IF \/ opts.table /\ ~noting
                \/ opts.log /\ ~frames
               THEN None ELSE walk
  /\ pc' = "walk"
  /\ UNCHANGED <<filter, notes, listed, opts, report, cut>>

-----------------------------------------------------------------------------
(* walk_shared *)

\* Mutant of Hit: any walk will do.
HitAnyKey(o) == walk # None

\* cached_walk: the key has to be the same; the phase is, by what drops it.
Hit(o) == walk # None /\ walk.key = o.key

Walk ==
  /\ pc = "walk"
  /\ pc' = IF Hit(opts) THEN "report" ELSE "scan"
  /\ UNCHANGED <<filter, noting, sources, frames, walk, notes, listed, opts,
                 report, cut>>

\* Mutant of Reset: the export notes are left to the recovery.
ResetSources ==
  /\ pc = "scan"
  /\ sources' = {} /\ listed' = FALSE
  /\ pc' = "recover"
  /\ UNCHANGED <<filter, noting, frames, walk, notes, opts, report, cut>>

\* reset_export_notes, once Global/Latest has been walked.
Reset ==
  /\ pc = "scan"
  /\ notes' = {} /\ sources' = {} /\ listed' = FALSE
  /\ pc' = "recover"
  /\ UNCHANGED <<filter, noting, frames, walk, opts, report, cut>>

\* The partition merges, whose readers add to what is noted.
Recover ==
  /\ pc = "recover"
  /\ notes' = notes \cup {Wanted(opts, filter)}
  /\ sources' = IF noting THEN sources \cup {Wanted(opts, filter)} ELSE sources
  /\ listed' = frames
  /\ pc' = "store"
  /\ UNCHANGED <<filter, noting, frames, walk, opts, report, cut>>

\* store_walk
Store ==
  /\ pc = "store"
  /\ walk' = Wanted(opts, filter)
  /\ cut' = FALSE
  /\ pc' = "report"
  /\ UNCHANGED <<filter, noting, sources, frames, notes, listed, opts, report>>

\* The model, its diagnostics, the provenance table and the log, from the walk
\* the handle holds and the notes that are there.  A caller who asked for the
\* elements alone is given these.
Report ==
  /\ pc = "report"
  /\ report' = [opts |-> opts, filter |-> filter,
                elements |-> walk, notes |-> notes,
                sources |-> sources, listed |-> listed /\ frames]
  /\ pc' = "idle" /\ opts' = None
  /\ UNCHANGED <<filter, noting, sources, frames, walk, notes, listed, cut>>

-----------------------------------------------------------------------------
(* What breaks an export off *)

\* The export ends where it is, and the handle keeps what it holds.
BrokenOff ==
  /\ pc' = "idle" /\ opts' = None
  /\ cut' = IF pc \in {"recover", "store"} THEN walk # None ELSE cut
  /\ UNCHANGED <<filter, noting, sources, frames, walk, notes, listed, report>>

\* A check of the control: before the walk, in the scan, before the partition
\* merges and after them, and in the steps after the walk.
Cancelled ==
  /\ \/ pc \in {"walk", "scan", "store"} /\ opts.heeds
     \/ pc = "report" /\ opts.export
  /\ BrokenOff

\* A panic leaves what the handle held.
Panic == Panics /\ pc # "idle" /\ BrokenOff

-----------------------------------------------------------------------------

ExportStep ==
  \/ SetPhase \/ Switches \/ Walk \/ Reset \/ Recover \/ Store \/ Report

Next ==
  \/ \E p \in Phases : ChoosePhase(p)
  \/ ClearPhase
  \/ \E o \in Options : Begin(o)
  \/ ExportStep
  \/ Cancelled
  \/ Panic

Spec == Init /\ [][Next]_vars

-----------------------------------------------------------------------------
(* Properties *)

TypeOK ==
  /\ filter \in Filters
  /\ cut \in BOOLEAN
  /\ noting \in BOOLEAN /\ frames \in BOOLEAN /\ listed \in BOOLEAN
  /\ walk \in Walks \cup {None}
  /\ sources \subseteq Walks /\ notes \subseteq Walks
  /\ ~noting => sources = {}
  /\ pc \in {"idle", "phase", "switches", "walk", "scan", "recover", "store",
             "report"}
  /\ opts \in Options \cup {None}
  /\ pc = "idle" <=> opts = None
  /\ report # None =>
       /\ report.opts \in Options /\ report.filter \in Filters
       /\ report.elements \in Walks \cup {None}

\* What a handle just opened, and put at the same phase, would walk.
Fresh(r) == Wanted(r.opts, r.filter)

\* An export gives the elements that a handle opened for its phase and its
\* limits gives, whatever exports came before, were cancelled or panicked.
\* (export_pipeline.rs:573-579, reader.rs:1235-1239.)
ElementsAsFresh == report # None => report.elements = Fresh(report)

\* The phase an export names is the one it is written at, exactly; one that
\* names none is written at the phase the handle was left at, with the rooms'
\* fallback only if that is the default.  (export_pipeline.rs:579-583.)
PhaseAsAsked ==
  report # None /\ report.opts.export /\ report.opts.phase # None =>
    report.elements.effect = <<report.opts.phase, report.opts.phase>>

\* The counts and reasons an export's diagnostics take from the notes are
\* those of the walk its elements are of.  (reset_export_notes,
\* reader.rs:591-608: "the notes follow the memoised walk that produced them".)
NotesFollowWalk == report # None => report.notes = {report.elements}

\* They are so unless a walk was broken off between its reset of the notes and
\* its end while the handle held a walk made under other limits: a handle that
\* is used under one set of limits, as the server's is, has the notes of its
\* walk whatever is cancelled or panics.  (walker.rs:1555, 1596-1600.)
NotesFollowWalkUnlessCut == ~cut => NotesFollowWalk

\* An export that asks for the provenance table has the sources its readers
\* took values from, though the walk may be one made before; unless one was cut
\* off.  (record_value_sources, reader.rs:615-631.)
SourcesFollowWalk ==
  report # None /\ report.opts.export /\ report.opts.table /\ ~cut =>
    report.sources = {report.elements}

\* An export that asks for the log of decisions has the frames that stop
\* listed, though the walk may be one made before; unless one was cut off.
\* (record_frame_decisions, reader.rs:557-567.)
FramesListed ==
  report # None /\ report.opts.export /\ report.opts.log /\ ~cut =>
    report.listed

\* What an export asks for beside its elements it gets of the walk exported,
\* though an earlier export made that walk and asked for neither.
TableAndLogFollow == SourcesFollowWalk /\ FramesListed
=============================================================================
