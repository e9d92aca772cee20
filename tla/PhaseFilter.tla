------------------------------ MODULE PhaseFilter ------------------------------
(***************************************************************************)
(* What the phase of an export leaves out, and what a handle keeps of it:  *)
(* src/src/research/native_phases.rs, with the phase choices of            *)
(* src/src/reader.rs.                                                      *)
(*                                                                         *)
(* A project lists its phases in order; an element carries the phase it was*)
(* created in and the one it was demolished in, and a room a phase of its  *)
(* own, in each copy of its record.  The filter is computed once for the   *)
(* default phase, the last, and derived again when a phase is named.  The  *)
(* set of what is written is memoised until the filter changes in effect.  *)
(*                                                                         *)
(* RevitHandle takes a walk to be determined by Effect alone; MemoIsCurrent*)
(* says that it is.                                                        *)
(***************************************************************************)
EXTENDS Naturals, Sequences, FiniteSets

CONSTANTS
  Elements,  \* records of elements other than rooms
  Rooms,     \* and of rooms
  Orders,    \* lists of a project's phases
  Phases,    \* the phases, and others a record may name
  Copies,    \* what the copies of a room's record may name, as sets
  None       \* no phase

Ids == Elements \cup Rooms
Dates == [created : Phases \cup {None}, demolished : Phases \cup {None}]

ASSUME IdsAssumption == Elements \cap Rooms = {}
ASSUME OrdersAssumption ==
  /\ Orders \subseteq Seq(Phases) /\ None \notin Phases
  /\ \A o \in Orders : \A k, n \in DOMAIN o : o[k] = o[n] => k = n
ASSUME CopiesAssumption == Copies \subseteq SUBSET (Phases \cup {None})

VARIABLES
  order,    \* the project's phases, in order
  dates,    \* dates[i]: the phases element i was created and demolished in
  copies,   \* copies[i]: the phases the copies of room i's record name
  placed,   \* the records of placed instances, not in another design option
  scans,    \* whether placement can be scanned in this release
  filter,   \* the PhaseFilter of the handle
  walk,     \* what the memoised walk wrote, or None
  report    \* what an export found left out for its phase, or None

project == <<order, dates, copies, placed, scans>>
vars == <<project, filter, walk, report>>

--------------------------------------------------------------------------------
In(p) == \E n \in DOMAIN order : order[n] = p
Pos(p) == CHOOSE n \in DOMAIN order : order[n] = p /\ \A k \in 1..(n-1) : order[k] # p
Last == IF order = <<>> THEN None ELSE order[Len(order)]

\* Mutant of Status: what is demolished in the phase is in it.
StatusAtStart(i, export) ==
  LET r == dates[i]
      gone == r.demolished # None /\ Pos(r.demolished) < Pos(export)
  IN  IF ~In(r.created) \/ export = None THEN "kept"
      ELSE IF Pos(r.created) > Pos(export) THEN "future"
      ELSE IF r.demolished # None /\ ~In(r.demolished) THEN "kept"
      ELSE IF gone THEN "demolished" ELSE "kept"

\* exclusion: an element whose phases are not the project's is kept.
Status(i, export) ==
  LET r == dates[i]
      gone == r.demolished # None /\ Pos(r.demolished) <= Pos(export)
  IN  IF ~In(r.created) \/ export = None THEN "kept"
      ELSE IF Pos(r.created) > Pos(export) THEN "future"
      ELSE IF r.demolished # None /\ ~In(r.demolished) THEN "kept"
      ELSE IF gone THEN "demolished" ELSE "kept"
Exclusions(export) == {i \in Elements : Status(i, export) # "kept"}

\* room_phases: the phase all copies of a room's record name.
RoomPhases == {i \in Rooms : \E p \in Phases : copies[i] = {p}}
OwnPhase(i) == CHOOSE p \in Phases : copies[i] = {p}

\* Mutant of Holds: a room that is not placed holds its phase.
HoldsAny(p) == \E i \in RoomPhases : OwnPhase(i) = p

\* room_fallback_phase, of the placed rooms, where an earlier phase holds a room
\* at all and placement can be scanned.
Holds(p) == \E i \in RoomPhases : i \in placed /\ OwnPhase(i) = p
RoomFallback ==
  LET held == {n \in DOMAIN order : Holds(order[n])}
  IN  IF ~scans \/ held = {} \/ Holds(Last) THEN None
      ELSE order[CHOOSE n \in held : \A k \in held : k <= n]

\* compute_phase_filter, with_export_phase and with_default_export_phase.
FilterFor(export, named, fallback) ==
  [export |-> export, named |-> named, excluded |-> Exclusions(export),
   fallback |-> fallback]
Computed == FilterFor(Last, FALSE, RoomFallback)
WithExportPhase(f, p) == FilterFor(p, TRUE, f.fallback)
WithDefaultExportPhase(f) == FilterFor(Last, FALSE, f.fallback)

\* Mutant of Differs: the rooms' phase is not compared.
DiffersInPhase(f, g) == f.export # g.export

\* room_export_phase, and differs_in_effect_from.
RoomExportPhase(f) ==
  IF ~f.named /\ f.fallback # None THEN f.fallback ELSE f.export
Effect(f) == <<f.export, RoomExportPhase(f)>>
Differs(f, g) == Effect(f) # Effect(g)

\* room_outside_export_phase and excludes.
RoomOutside(f, i) ==
  /\ i \in RoomPhases /\ RoomExportPhase(f) # None
  /\ OwnPhase(i) # RoomExportPhase(f) /\ In(OwnPhase(i))
Excludes(f, i) == IF i \in Rooms THEN RoomOutside(f, i) ELSE i \in f.excluded

Written(f) == {i \in placed : ~Excludes(f, i)}

\* Mutant of LeftOut: rooms alone are no reason to scan.
LeftOutOfElements(f) ==
  IF ~scans \/ f.excluded = {} THEN {} ELSE {i \in placed : Excludes(f, i)}

\* scan_phase_excluded_instances, which scans nothing where the filter leaves
\* nothing out.
LeftOut(f) ==
  IF ~scans \/ (f.excluded = {} /\ ~\E i \in Rooms : RoomOutside(f, i)) THEN {}
  ELSE {i \in placed : Excludes(f, i)}

--------------------------------------------------------------------------------
Init ==
  /\ order \in Orders /\ dates \in [Elements -> Dates]
  /\ copies \in [Rooms -> Copies]
  /\ placed \in SUBSET Ids /\ scans \in BOOLEAN
  /\ filter = Computed
  /\ walk = None /\ report = None

\* set_export_phase and clear_export_phase: the walk goes if the filter differs
\* in effect.  A phase the project has not is refused.
Replace(f) ==
  /\ filter' = f
  /\ walk' = IF Differs(filter, f) THEN None ELSE walk
  /\ report' = None
  /\ UNCHANGED project
SetExportPhase(p) == In(p) /\ Replace(WithExportPhase(filter, p))
ClearExportPhase == filter.named /\ Replace(WithDefaultExportPhase(filter))

\* An export: it walks, unless a walk is kept, and reports what was left out.
Export ==
  /\ walk' = IF walk = None THEN Written(filter) ELSE walk
  /\ report' = LeftOut(filter)
  /\ UNCHANGED <<project, filter>>

Next ==
  \/ \E p \in Phases : SetExportPhase(p)
  \/ ClearExportPhase \/ Export

Spec == Init /\ [][Next]_vars

--------------------------------------------------------------------------------
TypeOK ==
  /\ order \in Orders /\ dates \in [Elements -> Dates]
  /\ copies \in [Rooms -> Copies]
  /\ placed \subseteq Ids /\ scans \in BOOLEAN
  /\ filter \in [export : Phases \cup {None}, named : BOOLEAN,
                 excluded : SUBSET Elements, fallback : Phases \cup {None}]
  /\ walk \in (SUBSET Ids) \cup {None}
  /\ report \in (SUBSET Ids) \cup {None}

\* A memoised walk wrote what a walk at the phase now chosen would, though phases
\* were named and cleared in between and the walk was not made again.
\* (differs_in_effect_from, native_phases.rs:182-188.)
MemoIsCurrent == walk # None => walk = Written(filter)

\* The rooms an export writes that are of a phase of the project are all of one
\* ("rooms all in one phase cannot overlap", native_phases.rs:35), and by default
\* there is one wherever placement can be scanned and a room is placed in a phase.
RoomsOfOnePhase ==
  LET known(i) == i \in RoomPhases /\ i \in placed /\ In(OwnPhase(i))
      written == {i \in Written(filter) : known(i)}
  IN  /\ \A i, k \in written : OwnPhase(i) = OwnPhase(k)
      /\ ~filter.named /\ scans /\ (\E i \in Rooms : known(i)) => written # {}

\* An export that reports what its phase left out reports every placed record it
\* did not write, and nothing it did: none is lost without a word.
\* (scan_phase_excluded_instances, native_phases.rs:497-500.)
NoneLostUnsaid ==
  scans /\ report # None => report = placed \ walk

\* From one phase to a later one an element only goes on in its life, from not
\* yet built to built to demolished; and one built and demolished in the same
\* phase is in none.  (exclusion, native_phases.rs:354-378, and :41-43.)
Rank == [future |-> 1, kept |-> 2, demolished |-> 3]
LifeGoesOn ==
  \A i \in Elements, k, n \in DOMAIN order :
    /\ k <= n => Rank[Status(i, order[k])] <= Rank[Status(i, order[n])]
    /\ dates[i].created = dates[i].demolished /\ In(dates[i].created) =>
         Status(i, order[n]) # "kept"
================================================================================
