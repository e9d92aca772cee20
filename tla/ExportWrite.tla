------------------------------ MODULE ExportWrite ------------------------------
(***************************************************************************)
(* The exports of the MCP server: what src/rvt-mcp/src/exports.rs and      *)
(* src/rvt-mcp/src/output.rs do to the file system.                        *)
(*                                                                         *)
(* An export checks the path it is given, decodes the model, writes a      *)
(* temporary file of its own beside the target and puts it in place.  Any  *)
(* number of exports run at once, to one target or to several; each may be *)
(* cancelled; others create and remove files under the same names          *)
(* meanwhile; and the server may be killed.                                *)
(*                                                                         *)
(* The content of a file is who wrote it and how many of the chunks its    *)
(* exporter hands to the writer are in it.  A path is an entry of a folder,*)
(* which may be a link to the model; callers name entries as they like.    *)
(***************************************************************************)
EXTENDS Naturals, FiniteSets

CONSTANTS
  Exports,     \* requests to export
  Outputs,     \* paths exports are written to
  Input,       \* the canonical path of the model
  Spellings,   \* how callers name a path
  Entry(_),    \* the path a spelling is of: letter case may not matter
  Chunks,      \* how many chunks an export is written in
  Someone,     \* whoever else writes files
  Link,        \* a link to the model
  None         \* no file, nothing yet

Paths == Outputs \cup {Input}

ASSUME ChunksAssumption == Chunks \in Nat \ {0}
ASSUME NamesAssumption ==
  /\ Input \notin Outputs
  /\ \A n \in Spellings : Entry(n) \in Paths
  /\ Someone \notin Exports /\ None \notin Exports \cup Paths \cup {Someone}
  /\ None \notin [by : Exports \cup {Someone}, chunks : Nat]
  /\ Link \notin [by : Exports \cup {Someone}, chunks : Nat] \cup {None}
  /\ None \notin Spellings \cup {"written", "cancelled", "failed", "nothing"}
  /\ None \notin [path : Paths, over : BOOLEAN]

Files == [by : Exports \cup {Someone}, chunks : 0 .. Chunks]
Foreign == [by |-> Someone, chunks |-> Chunks]

VARIABLES
  dir,      \* dir[p]: the file or link at path p
  temp,     \* temp[e]: the temporary file of e
  pc,       \* pc[e]: where export e is
  target,   \* target[e]: the path it writes to, as spelled
  over,     \* over[e]: whether it may replace a file
  flag,     \* flag[e]: its CancelToken is cancelled
  result,   \* result[e]: "written", "cancelled" or "failed", once it is decided
  put,      \* the exports that were put in place
  closed,   \* whether the folders take no new and lose no old name
  up        \* whether the server is alive

request == <<target, over>>
world == <<closed, up>>
vars == <<dir, temp, pc, request, flag, result, put, world>>

Steps == {"idle", "plan", "decode", "create", "write", "check", "place",
          "unlink", "drop", "ended"}

Init ==
  /\ dir \in [Paths -> {None, Foreign, Link}] /\ dir[Input] = Foreign
  /\ temp = [e \in Exports |-> None]
  /\ pc = [e \in Exports |-> "idle"]
  /\ target = [e \in Exports |-> None]
  /\ over = [e \in Exports |-> FALSE]
  /\ flag = [e \in Exports |-> FALSE]
  /\ result = [e \in Exports |-> None]
  /\ put = {}
  /\ closed = FALSE /\ up = TRUE

Goto(e, step) == pc' = [pc EXCEPT ![e] = step]

At(e) == Entry(target[e])
End(e, r) == Goto(e, "ended") /\ result' = [result EXCEPT ![e] = r]

-----------------------------------------------------------------------------

Ask(e, n, o) ==
  /\ pc[e] = "idle"
  /\ target' = [target EXCEPT ![e] = n]
  /\ over' = [over EXCEPT ![e] = o]
  /\ Goto(e, "plan")
  /\ UNCHANGED <<dir, temp, flag, result, put, world>>

Cancel(e) ==
  /\ pc[e] \notin {"idle", "ended"} /\ ~flag[e]
  /\ flag' = [flag EXCEPT ![e] = TRUE]
  /\ UNCHANGED <<dir, temp, pc, request, result, put, world>>

\* Mutant of Refused: the target is compared as it is spelled.
RefusedAsSpelled(e) ==
  \/ target[e] = Input
  \/ dir[At(e)] # None /\ ~over[e]

\* plan: what is the model once it is made canonical, and what is there unless it
\* may be replaced.
Refused(e) ==
  \/ At(e) = Input \/ dir[At(e)] = Link
  \/ dir[At(e)] # None /\ ~over[e]

Plan(e) ==
  /\ pc[e] = "plan"
  /\ IF Refused(e)
       THEN End(e, "failed")
       ELSE Goto(e, "decode") /\ UNCHANGED result
  /\ UNCHANGED <<dir, temp, request, flag, put, world>>

\* The decode, or the one that is kept, then what refuses a model, then a check.
Decode(e) ==
  /\ pc[e] = "decode"
  /\ \/ End(e, "failed")
     \/ flag[e] /\ End(e, "cancelled")
     \/ ~flag[e] /\ Goto(e, "create") /\ UNCHANGED result
  /\ UNCHANGED <<dir, temp, request, flag, put, world>>

Create(e) ==
  /\ pc[e] = "create"
  /\ \/ End(e, "failed") /\ UNCHANGED temp
     \/ /\ ~closed
        /\ temp' = [temp EXCEPT ![e] = [by |-> e, chunks |-> 0]]
        /\ Goto(e, "write")
        /\ UNCHANGED result
  /\ UNCHANGED <<dir, request, flag, put, world>>

\* A chunk more, and the step that is next.
Chunk(e) ==
  /\ temp' = [temp EXCEPT ![e].chunks = @ + 1]
  /\ Goto(e, IF temp[e].chunks + 1 = Chunks THEN "check" ELSE "write")

\* Mutant of Write: a cancelled write is reported as interrupted, and retried.
WriteInterrupted(e) ==
  /\ pc[e] = "write"
  /\ \/ flag[e] /\ UNCHANGED <<temp, pc>>
     \/ ~flag[e] /\ Goto(e, "drop") /\ UNCHANGED temp
     \/ ~flag[e] /\ Chunk(e)
  /\ UNCHANGED <<dir, request, flag, result, put, world>>

\* Mutant of Write: what a failed write left goes on to be placed.
WriteAnyway(e) ==
  /\ pc[e] = "write"
  /\ \/ Goto(e, "check") /\ UNCHANGED temp
     \/ ~flag[e] /\ Chunk(e)
  /\ UNCHANGED <<dir, request, flag, result, put, world>>

\* HashingWriter::write and its flush: a chunk, unless cancelled.
Write(e) ==
  /\ pc[e] = "write"
  /\ \/ Goto(e, "drop") /\ UNCHANGED temp
     \/ ~flag[e] /\ Chunk(e)
  /\ UNCHANGED <<dir, request, flag, result, put, world>>

FinalCheck(e) ==
  /\ pc[e] = "check"
  /\ Goto(e, IF flag[e] THEN "drop" ELSE "place")
  /\ UNCHANGED <<dir, temp, request, flag, result, put, world>>

\* The temporary file under the target's name; a link there goes, and not what it
\* leads to.
Put(e) == dir' = [dir EXCEPT ![At(e)] = temp[e]] /\ put' = put \cup {e}
Renamed(e) == temp' = [temp EXCEPT ![e] = None]

\* Mutant of Place: every file is renamed into place.
PlaceOver(e) ==
  /\ pc[e] = "place" /\ ~closed
  /\ Put(e) /\ Renamed(e) /\ End(e, "written")
  /\ UNCHANGED <<request, flag, world>>

\* Mutant of Place: a cancellation is looked at once more, after the placing.
PlaceThenCheck(e) ==
  /\ pc[e] = "place" /\ ~closed
  /\ over[e] \/ dir[At(e)] = None
  /\ Put(e) /\ Renamed(e)
  /\ End(e, IF flag[e] THEN "cancelled" ELSE "written")
  /\ UNCHANGED <<request, flag, world>>

\* Mutant of Place: the error takes the temporary file out of the guard's hands.
PlaceOrKeep(e) ==
  /\ pc[e] = "place"
  /\ End(e, "failed")
  /\ UNCHANGED <<dir, temp, request, flag, put, world>>

\* persist renames; persist_noclobber renames where the system can do so without
\* replacing, or else links, and unlinks in a step of its own.
Place(e) ==
  /\ pc[e] = "place"
  /\ \/ /\ Goto(e, "drop") /\ result' = [result EXCEPT ![e] = "failed"]
        /\ UNCHANGED <<dir, temp, put>>
     \/ /\ ~closed /\ over[e]
        /\ Put(e) /\ Renamed(e) /\ End(e, "written")
     \/ /\ ~closed /\ ~over[e] /\ dir[At(e)] = None
        /\ Put(e)
        /\ \/ Renamed(e) /\ End(e, "written")
           \/ Goto(e, "unlink") /\ UNCHANGED <<temp, result>>
  /\ UNCHANGED <<request, flag, world>>

\* remove_file, of which nobody asks whether it removed.
Remove(e) == temp' = IF closed THEN temp ELSE [temp EXCEPT ![e] = None]
Unlink(e) ==
  /\ pc[e] = "unlink"
  /\ Remove(e) /\ End(e, "written")
  /\ UNCHANGED <<dir, request, flag, put, world>>

\* The temporary file goes with the value that names it.  A write that failed is
\* then reported as a cancellation when there is one.
Drop(e) ==
  /\ pc[e] = "drop"
  /\ Remove(e)
  /\ End(e, IF result[e] # None THEN result[e]
            ELSE IF flag[e] THEN "cancelled" ELSE "failed")
  /\ UNCHANGED <<dir, request, flag, put, world>>

-----------------------------------------------------------------------------
(* Other hands, and the end *)

Appear(p) ==
  /\ dir[p] = None
  /\ \E f \in {Foreign, Link} : dir' = [dir EXCEPT ![p] = f]
  /\ UNCHANGED <<temp, pc, request, flag, result, put, world>>

Vanish(p) ==
  /\ p # Input /\ dir[p] # None
  /\ dir' = [dir EXCEPT ![p] = None]
  /\ UNCHANGED <<temp, pc, request, flag, result, put, world>>

\* The folders become read-only, or writable again.
Close ==
  /\ closed' = ~closed
  /\ UNCHANGED <<dir, temp, pc, request, flag, result, put, up>>

Killed ==
  /\ up' = FALSE
  /\ UNCHANGED <<dir, temp, pc, request, flag, result, put, closed>>

ExportStep(e) ==
  \/ Plan(e) \/ Decode(e) \/ Create(e) \/ Write(e) \/ FinalCheck(e)
  \/ Place(e) \/ Unlink(e) \/ Drop(e)

Next ==
  \/ /\ up
     /\ \/ \E e \in Exports :
             \/ \E n \in Spellings, o \in BOOLEAN : Ask(e, n, o)
             \/ Cancel(e)
             \/ ExportStep(e)
        \/ Killed
  \/ \E p \in Paths : Appear(p) \/ Vanish(p)
  \/ Close

\* The thread of an export runs while the server does.
Spec == Init /\ [][Next]_vars /\ \A e \in Exports : WF_vars(up /\ ExportStep(e))

-----------------------------------------------------------------------------
(* Properties *)

TypeOK ==
  /\ dir \in [Paths -> Files \cup {None, Link}]
  /\ temp \in [Exports -> Files \cup {None}]
  /\ pc \in [Exports -> Steps]
  /\ target \in [Exports -> Spellings \cup {None}]
  /\ over \in [Exports -> BOOLEAN] /\ flag \in [Exports -> BOOLEAN]
  /\ result \in [Exports -> {"written", "cancelled", "failed", None}]
  /\ put \subseteq Exports /\ closed \in BOOLEAN /\ up \in BOOLEAN

\* No file is ever seen under a target's name that is not whole, though writes
\* fail half way, are cancelled, or the server is killed.  (output.rs:5-7.)
TargetIsWhole ==
  \A p \in Paths : dir[p] \notin {None, Link} => dir[p].chunks = Chunks

\* No export replaces the model it reads, whatever its leave to overwrite, though
\* the target is the model by another spelling or through a link, or a link to it
\* comes there after the plan; others are taken to leave the model alone.
\* (plan and write, output.rs:125-130, 196-200.)
InputIsKept == dir[Input] = Foreign

\* An export that may not overwrite replaces no file, and neither does a file
\* that appeared between its plan and its placing get replaced.  (write,
\* output.rs:194-198.)
ReplacesOnlyIfAsked ==
  [][\A e \in Exports :
       e \in put' \ put /\ dir[At(e)] # None => over[e]]_vars

\* An export as one step: seen through the whole files under their paths, the
\* orders and the answers, a file appears complete and together with the answer
\* that it is written, or not at all: "The request was cancelled; nothing was
\* written."  (server.rs:90; output.rs:186-211.)
Found(p) ==
  IF dir[p] = None THEN None ELSE IF dir[p] = Link THEN Someone
  ELSE IF dir[p].chunks = Chunks THEN dir[p].by ELSE "partial"
Order(e) ==
  IF target[e] = None THEN None ELSE [path |-> At(e), over |-> over[e]]
Told(e) ==
  IF pc[e] = "unlink" \/ result[e] = "written" THEN "written"
  ELSE IF result[e] # None THEN "nothing" ELSE None
Atomic == INSTANCE AtomicExport WITH
            found <- [p \in Paths |-> Found(p)],
            order <- [e \in Exports |-> Order(e)],
            answer <- [e \in Exports |-> Told(e)]
RefinesAtomic == Atomic!Spec

\* An export that ends leaves no temporary file, however far it came and however
\* it ends, if its folder lets names be removed as it does.  (write,
\* output.rs:147-151: "removes on every error path".)
LeavesNoTemp ==
  [][\A e \in Exports :
       pc[e] # "ended" /\ pc'[e] = "ended" /\ ~closed => temp'[e] = None]_vars

\* Every export ends, a cancelled one too, unless the server is killed.
\* (HashingWriter::write, output.rs:49: not `Interrupted`.)
EveryExportEnds ==
  \A e \in Exports : pc[e] = "plan" ~> pc[e] = "ended" \/ ~up
=============================================================================
