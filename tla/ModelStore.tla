------------------------------ MODULE ModelStore ------------------------------
(***************************************************************************)
(* The open models of the MCP server, src/rvt-mcp/src/store.rs.            *)
(*                                                                         *)
(* Every tool call runs as a job of the blocking pool and asks the store   *)
(* for a model, by path or by model_id, at a phase or at none.  The jobs   *)
(* share two vectors, each behind a mutex that is held for one step at a   *)
(* time: `entries`, the models held, most recent first, and `phases`, the  *)
(* remembered resolutions of phase names, newest first.  Between two of    *)
(* these steps a job stats or reads the file, and the file may be replaced *)
(* or removed by anybody.                                                  *)
(*                                                                         *)
(* A job serves one request, so it creates at most one entry and remembers *)
(* at most one resolution: the job names both.  A vector is the function   *)
(* that gives each of them its 1-based position, 0 when it is not there.   *)
(*                                                                         *)
(* The state of a file is a number that a replacement increases.  It       *)
(* stands for the bytes and for the (size, mtime) pair that identifies     *)
(* them: two states of one file are assumed to differ in that pair.        *)
(***************************************************************************)
EXTENDS Naturals, FiniteSets

CONSTANTS
  Jobs,              \* tool calls, each a job of the blocking pool
  Paths,             \* canonical paths
  Specs,             \* spellings of a phase in requests
  PhaseIds,          \* ElementIds of phases
  PhaseOf(_, _, _),  \* the phase a spelling names in a state of a file
  None,              \* no phase, no entry, no such phase
  MaxOpen,           \* Config::max_open_models
  PhaseMemory,       \* PHASE_MEMORY
  MaxWritten         \* bound: how often a file is replaced

States == Nat \ {0}          \* of a file that exists; 0 is no file

\* What a model_id stands for, and what an entry and a remembered resolution
\* are made of.
Ids == [path : Paths, ver : States, phase : PhaseIds \cup {None}]

EntryType == [path : Paths, ver : States, phase : PhaseIds \cup {None},
              spec : Specs \cup {None}, bytes : States]

NoteType == [path : Paths, ver : States, spec : Specs,
             phase : PhaseIds \cup {None}]

ASSUME JobsAssumption == IsFiniteSet(Jobs)
ASSUME SizeAssumption == MaxOpen \in Nat \ {0} /\ PhaseMemory \in Nat \ {0}
ASSUME BoundAssumption == MaxWritten \in Nat
ASSUME NoneAssumption ==
  /\ None \notin Jobs /\ None \notin Specs /\ None \notin PhaseIds
  /\ None \notin Ids /\ None \notin EntryType /\ None \notin NoteType
ASSUME PhaseAssumption ==
  \A p \in Paths, v \in 1 .. MaxWritten, s \in Specs :
    PhaseOf(p, v, s) \in PhaseIds \cup {None}

VARIABLES
  disk,       \* disk[p]: the state of the file at p, 0 when there is none
  written,    \* written[p]: the latest state the file had
  place,      \* place[r]: the position of the entry of r in `entries`
  entry,      \* entry[r]: the Entry that r created
  noted,      \* noted[r]: the position of the resolution of r in `phases`
  note,       \* note[r]: the resolution that r remembered
  job         \* job[j]: the local variables of the request j serves

vars == <<disk, written, place, entry, noted, note, job>>

(***************************************************************************)
(* Local state.  `asked` is a history variable: the state of the file when *)
(* the request came in (0 before that).                                    *)
(***************************************************************************)
Steps == {"idle", "stat", "find", "verify", "dropEntries", "dropNotes",
          "recall", "read", "remember", "touch", "openFile", "insert",
          "compare", "answered", "failed"}

JobType == [pc : Steps, path : Paths \cup {None}, ver : Nat,
            id : Ids \cup {None}, spec : Specs \cup {None},
            phase : PhaseIds \cup {None}, bytes : Nat,
            got : Jobs \cup {None}, asked : Nat]

IdleJob == [pc |-> "idle", path |-> None, ver |-> 0, id |-> None,
            spec |-> None, phase |-> None, bytes |-> 0, got |-> None,
            asked |-> 0]

Init ==
  /\ disk \in [Paths -> {0, 1} \cap 0 .. MaxWritten]
  /\ written = disk
  /\ place = [r \in Jobs |-> 0]
  /\ entry = [r \in Jobs |-> None]
  /\ noted = [r \in Jobs |-> 0]
  /\ note = [r \in Jobs |-> None]
  /\ job = [j \in Jobs |-> IdleJob]

-----------------------------------------------------------------------------
(* The two vectors *)

Held == {r \in Jobs : place[r] > 0}
Notes == {r \in Jobs : noted[r] > 0}

\* The vector of the members of H in the order of `key`, truncated to n.
Vector(H, key, n) ==
  [r \in Jobs |->
     LET at == Cardinality({q \in H : key[q] <= key[r]})
     IN  IF r \in H /\ at <= n THEN at ELSE 0]

\* The vector with r taken out, if it was there, and put first.
ToFront(H, key, r, n) == Vector(H \cup {r}, [key EXCEPT ![r] = 0], n)

\* Entry::model_id: the hash of the identity and the phase is that pair.
IdOf(e) == [path |-> e.path, ver |-> e.ver, phase |-> e.phase]

\* Entry::is
Is(e, p, v, ph) == e.path = p /\ e.ver = v /\ e.phase = ph

\* Mutant of Same: the job that read the file does not look again.
SameNotLookedFor(j) == {}

Same(j) == {r \in Held : Is(entry[r], job[j].path, job[j].ver, job[j].phase)}

\* Mutant of OtherSelves: only the entry at the same phase goes.
OtherSelvesAtPhase(j) ==
  {r \in Held : /\ entry[r].path = job[j].path /\ entry[r].ver # job[j].ver
                /\ entry[r].phase = job[j].phase}

\* What `entries.retain` of by_path drops: the same path in another state.
OtherSelves(j) ==
  {r \in Held : entry[r].path = job[j].path /\ entry[r].ver # job[j].ver}

\* Mutant of Unchanged: the file is there, and that is enough.
StillThere(j) == disk[job[j].path] # 0

\* Identity::unchanged
Unchanged(j) == disk[job[j].path] = job[j].ver

\* Mutant of Recalled: the path and the spelling, in whatever state.
RecalledOfPath(j) ==
  {r \in Notes : note[r].path = job[j].path /\ note[r].spec = job[j].spec}

\* The resolutions remembered for this identity and spelling.
Recalled(j) ==
  {r \in Notes : /\ note[r].path = job[j].path
                 /\ note[r].ver = job[j].ver
                 /\ note[r].spec = job[j].spec}

\* Mutant of NewEntry: the identity is taken when the entry is made.
EntryOfLatest(j) == [path |-> job[j].path, ver |-> written[job[j].path],
                     phase |-> job[j].phase, spec |-> job[j].spec,
                     bytes |-> job[j].bytes]

\* Entry::new, of the identity taken before the file was read.
NewEntry(j) == [path |-> job[j].path, ver |-> job[j].ver,
                phase |-> job[j].phase, spec |-> job[j].spec,
                bytes |-> job[j].bytes]

\* What `remember` keeps, under the identity taken before the file was read.
NewNote(j) == [path |-> job[j].path, ver |-> job[j].ver,
               spec |-> job[j].spec, phase |-> job[j].phase]

\* What set_export_phase makes of the spelling in the file as it now is.
Resolved(j) == PhaseOf(job[j].path, disk[job[j].path], job[j].spec)

\* Where a resolved phase leads: by_path looks for the entry, open of an id
\* compares with the entry it found.
AfterResolve(j) == IF job[j].id = None THEN "touch" ELSE "compare"

\* The job's locals become rec.
Become(j, rec) == job' = [job EXCEPT ![j] = rec]

Goto(j, pc) == Become(j, [job[j] EXCEPT !.pc = pc])
Answer(j, r) == Become(j, [job[j] EXCEPT !.pc = "answered", !.got = r])
Fail(j) == Become(j, [job[j] EXCEPT !.pc = "failed", !.got = None])

-----------------------------------------------------------------------------
(* The requests *)

AskPath(j, p, s) ==
  /\ job[j].pc = "idle"
  /\ Become(j, [job[j] EXCEPT !.pc = "stat", !.path = p, !.spec = s,
                              !.asked = written[p]])
  /\ UNCHANGED <<disk, written, place, entry, noted, note>>

\* A model_id is one the server issued; by now it may have been evicted.
AskId(j, r, s) ==
  /\ job[j].pc = "idle"
  /\ entry[r] # None
  /\ Become(j, [job[j] EXCEPT !.pc = "find", !.id = IdOf(entry[r]),
                              !.path = entry[r].path, !.spec = s,
                              !.asked = written[entry[r].path]])
  /\ UNCHANGED <<disk, written, place, entry, noted, note>>

-----------------------------------------------------------------------------
(* by_id *)

Find(j) ==
  /\ job[j].pc = "find"
  /\ \/ /\ \A r \in Held : IdOf(entry[r]) # job[j].id
        /\ Fail(j)
        /\ UNCHANGED place
     \/ \E r \in Held :
          /\ IdOf(entry[r]) = job[j].id
          /\ place' = ToFront(Held, place, r, MaxOpen)
          /\ Become(j, [job[j] EXCEPT !.pc = "verify", !.ver = entry[r].ver,
                                      !.got = r])
  /\ UNCHANGED <<disk, written, entry, noted, note>>

Verify(j) ==
  /\ job[j].pc = "verify"
  /\ Goto(j, IF ~Unchanged(j) THEN "dropEntries"
             ELSE IF job[j].spec = None THEN "answered" ELSE "recall")
  /\ UNCHANGED <<disk, written, place, entry, noted, note>>

DropEntries(j) ==
  /\ job[j].pc = "dropEntries"
  /\ place' = Vector({r \in Held : \/ entry[r].path # job[j].path
                                   \/ entry[r].ver # job[j].ver},
                     place, MaxOpen)
  /\ Goto(j, "dropNotes")
  /\ UNCHANGED <<disk, written, entry, noted, note>>

DropNotes(j) ==
  /\ job[j].pc = "dropNotes"
  /\ noted' = Vector({r \in Notes : \/ note[r].path # job[j].path
                                    \/ note[r].ver # job[j].ver},
                     noted, PhaseMemory)
  /\ Fail(j)
  /\ UNCHANGED <<disk, written, place, entry, note>>

\* open: the phase named with an id has to be the one the id was opened at.
Compare(j) ==
  /\ job[j].pc = "compare"
  /\ IF entry[job[j].got].phase = job[j].phase
       THEN Answer(j, job[j].got)
       ELSE Fail(j)
  /\ UNCHANGED <<disk, written, place, entry, noted, note>>

-----------------------------------------------------------------------------
(* resolve_phase *)

Recall(j) ==
  /\ job[j].pc = "recall"
  /\ \/ /\ Recalled(j) = {}
        /\ Goto(j, "read")
     \/ \E r \in Recalled(j) :
          IF note[r].phase = None
            THEN Fail(j)
            ELSE Become(j, [job[j] EXCEPT !.pc = AfterResolve(j),
                                          !.phase = note[r].phase])
  /\ UNCHANGED <<disk, written, place, entry, noted, note>>

\* open_file, set_export_phase and export_phase.  A file that cannot be read
\* is not remembered; a phase it lacks is.
Read(j) ==
  /\ job[j].pc = "read"
  /\ \/ Fail(j)
     \/ /\ disk[job[j].path] # 0
        /\ Become(j, [job[j] EXCEPT !.pc = "remember",
                                    !.bytes = disk[job[j].path],
                                    !.phase = Resolved(j)])
  /\ UNCHANGED <<disk, written, place, entry, noted, note>>

Remember(j) ==
  /\ job[j].pc = "remember"
  /\ note' = [note EXCEPT ![j] = NewNote(j)]
  /\ noted' = ToFront(Notes \ Recalled(j), noted, j, PhaseMemory)
  /\ IF job[j].phase = None THEN Fail(j) ELSE Goto(j, AfterResolve(j))
  /\ UNCHANGED <<disk, written, place, entry>>

-----------------------------------------------------------------------------
(* by_path *)

Stat(j) ==
  /\ job[j].pc = "stat"
  /\ IF disk[job[j].path] = 0
       THEN Fail(j)
       ELSE Become(j, [job[j] EXCEPT
              !.pc = IF job[j].spec = None THEN "touch" ELSE "recall",
              !.ver = disk[job[j].path]])
  /\ UNCHANGED <<disk, written, place, entry, noted, note>>

Touch(j) ==
  /\ job[j].pc = "touch"
  /\ \/ /\ Same(j) = {}
        /\ Goto(j, IF job[j].bytes = 0 THEN "openFile" ELSE "insert")
        /\ UNCHANGED place
     \/ \E r \in Same(j) :
          /\ place' = ToFront(Held, place, r, MaxOpen)
          /\ Answer(j, r)
  /\ UNCHANGED <<disk, written, entry, noted, note>>

OpenFile(j) ==
  /\ job[j].pc = "openFile"
  /\ \/ Fail(j)
     \/ /\ disk[job[j].path] # 0
        /\ job[j].spec # None => Resolved(j) # None
        /\ Become(j, [job[j] EXCEPT !.pc = "insert",
                                    !.bytes = disk[job[j].path]])
  /\ UNCHANGED <<disk, written, place, entry, noted, note>>

\* One critical section: another call may have opened it while this one read
\* the file, and that entry is answered, where it stands; else the new entry
\* goes first, in place of the entries of the path in another state.
Insert(j) ==
  /\ job[j].pc = "insert"
  /\ \/ \E r \in Same(j) :
          /\ Answer(j, r)
          /\ UNCHANGED <<place, entry>>
     \/ /\ Same(j) = {}
        /\ entry' = [entry EXCEPT ![j] = NewEntry(j)]
        /\ place' = ToFront(Held \ OtherSelves(j), place, j, MaxOpen)
        /\ Answer(j, j)
  /\ UNCHANGED <<disk, written, noted, note>>

-----------------------------------------------------------------------------
(* The file, in other hands *)

Replace(p) ==
  /\ written[p] < MaxWritten
  /\ written' = [written EXCEPT ![p] = @ + 1]
  /\ disk' = [disk EXCEPT ![p] = written[p] + 1]
  /\ UNCHANGED <<place, entry, noted, note, job>>

Remove(p) ==
  /\ disk[p] # 0
  /\ disk' = [disk EXCEPT ![p] = 0]
  /\ UNCHANGED <<written, place, entry, noted, note, job>>

Ended(j) == job[j].pc \in {"answered", "failed"}

\* Every request has been served and no other comes.
Rest == (\A j \in Jobs : Ended(j)) /\ UNCHANGED vars

JobStep(j) ==
  \/ Find(j) \/ Verify(j) \/ DropEntries(j) \/ DropNotes(j) \/ Compare(j)
  \/ Recall(j) \/ Read(j) \/ Remember(j)
  \/ Stat(j) \/ Touch(j) \/ OpenFile(j) \/ Insert(j)

Next ==
  \/ \E j \in Jobs, p \in Paths, s \in Specs \cup {None} : AskPath(j, p, s)
  \/ \E j \in Jobs, r \in Jobs, s \in Specs \cup {None} : AskId(j, r, s)
  \/ \E j \in Jobs : JobStep(j)
  \/ \E p \in Paths : Replace(p) \/ Remove(p)
  \/ Rest

Spec == Init /\ [][Next]_vars

-----------------------------------------------------------------------------
(* Properties *)

TypeOK ==
  /\ disk \in [Paths -> Nat]
  /\ written \in [Paths -> Nat]
  /\ place \in [Jobs -> Nat]
  /\ entry \in [Jobs -> EntryType \cup {None}]
  /\ noted \in [Jobs -> Nat]
  /\ note \in [Jobs -> NoteType \cup {None}]
  /\ job \in [Jobs -> JobType]
  /\ \A r \in Held : entry[r] # None
  /\ \A r \in Notes : note[r] # None

\* An entry, held or only in the hands of a job, whose identity is still that
\* of the file was read from that file and stands at the phase it is keyed by:
\* by_path stats before it reads, so a handle may be newer than its identity
\* but then the identity is dead.  (Identity::of, Entry::new, store.rs:476-506.)
EntryMatchesFile ==
  \A r \in Jobs : entry[r] # None =>
    LET e == entry[r]
    IN  disk[e.path] = e.ver =>
          /\ e.bytes = e.ver
          /\ e.spec # None => PhaseOf(e.path, e.bytes, e.spec) = e.phase

\* What `phases` remembers of a file that has not changed is what the file
\* says, though the file may have been read after it changed.
\* (resolve_phase, store.rs:434-456.)
NoteMatchesFile ==
  \A r \in Notes :
    disk[note[r].path] = note[r].ver =>
      note[r].phase = PhaseOf(note[r].path, note[r].ver, note[r].spec)

\* No two entries held answer to one model_id: a decode is never kept twice,
\* though two jobs may have read the same file at once.  (store.rs:508-514.)
OneEntryPerModel ==
  \A q, r \in Held : IdOf(entry[q]) = IdOf(entry[r]) => q = r

\* The entries held of one path are all of one state of its file, at whatever
\* phases: the store never serves two generations.  (store.rs:515-519.)
OneGenerationPerPath ==
  \A q, r \in Held :
    entry[q].path = entry[r].path => entry[q].ver = entry[r].ver

\* A spelling of a phase is remembered once for a state of a file, though jobs
\* resolve it side by side.  (resolve_phase, store.rs:442-456.)
OneNotePerSpelling ==
  \A q, r \in Notes :
    /\ note[q].path = note[r].path /\ note[q].ver = note[r].ver
    /\ note[q].spec = note[r].spec
    => q = r

\* What the store holds or remembers of a file that has not changed is what that
\* file says, though files were replaced while they were read.
StoreIsTrue == EntryMatchesFile /\ NoteMatchesFile

\* A model is held once, the models of a path are of one state of its file, and a
\* resolution is remembered once, in whatever order the jobs that read them come
\* to insert: the first that a search finds is the only one.
StoreIsOne == OneEntryPerModel /\ OneGenerationPerPath /\ OneNotePerSpelling

\* A request is never answered with a state of the file older than the one
\* the file was in when the request came in, and its bytes are not older
\* either.  (by_id's check and by_path's stat, store.rs:418, 476.)
NeverOlderThanAsked ==
  \A j \in Jobs : job[j].pc = "answered" =>
    LET e == entry[job[j].got]
    IN  e.path = job[j].path /\ job[j].asked <= e.ver /\ e.ver <= e.bytes

\* A request that names a phase is answered with a model at that phase, as the
\* file the model was read from spells it, however many requests, spellings
\* and replacements came between, so long as the file is still that one; and
\* one that names a model_id, with that model.  (open, store.rs:377-400.)
AnsweredAtPhaseAsked ==
  \A j \in Jobs : job[j].pc = "answered" =>
    LET e == entry[job[j].got]
    IN  /\ job[j].id # None => IdOf(e) = job[j].id
        /\ job[j].spec # None /\ disk[e.path] = e.ver =>
             e.phase = PhaseOf(e.path, e.bytes, job[j].spec)
        /\ job[j].spec = None /\ job[j].id = None => e.phase = None

=============================================================================
