------------------------------ MODULE PatchWriter ------------------------------
(***************************************************************************)
(* The write path of the library and of rvt-write: src/src/writer.rs and   *)
(* src/src/bin/rvt_write.rs.                                               *)
(*                                                                         *)
(* A call replaces streams of a Revit file and writes the result under     *)
(* another name or the same.  It takes one of three ways: with no patches  *)
(* the file is copied, with patches and another name it is copied and      *)
(* patched in place, and with the same name it is written anew.  Each way  *)
(* writes a temporary file, named after the target, the way and the        *)
(* process, and renames it.  Calls run at once, in one process or in       *)
(* several; a step may fail, and a process may be killed.                  *)
(*                                                                         *)
(* Names lead to inodes: what is renamed while another has it open changes *)
(* under its new name too.  A file is its streams and whether a reader     *)
(* would find it whole.                                                    *)
(***************************************************************************)
EXTENDS Naturals, Sequences, FiniteSets

CONSTANTS
  Calls,      \* calls of write_with_patches
  Paths,      \* names of Revit files
  Streams,    \* streams of a file
  Values,     \* what a patch puts in a stream
  Manifests,  \* lists of patches: [stream, value, long]
  Process(_), \* the process a call runs in
  None        \* no file, no manifest

Inodes == Paths \cup Calls         \* the files there are, and those made
Ways == {"copy", "rw", "tmp"}
Temps == [dst : Paths, way : Ways, pid : {Process(c) : c \in Calls}]
Names == Paths \cup Temps
Results == {"written", "failed", "refused", "dry"}

Contents == [Streams -> Paths \cup Values \cup {None}]
Asked == [src : Paths, dst : Paths, manifest : Manifests \cup {None}, dry : BOOLEAN]
Patches == [stream : Streams \cup {"missing"}, value : Values, long : BOOLEAN]
ASSUME NamesAssumption ==
  /\ Paths \cap Calls = {} /\ None \notin Inodes
  /\ Paths \cap Temps = {} /\ Paths \cap Values = {}
  /\ None \notin Results \cup {"nothing"}
  /\ None \notin Manifests \cup Asked \cup Contents
ASSUME ManifestsAssumption == Manifests \subseteq Seq(Patches)

VARIABLES
  name,     \* name[n]: the inode a name leads to
  bytes,    \* bytes[i]: the streams of an inode
  whole,    \* the inodes a reader would find whole
  pc,       \* pc[c]: where call c is
  call,     \* call[c]: its arguments
  view,     \* view[c]: the streams read when the source was opened, later copied
  from,     \* from[c]: the inode copied from
  to,       \* to[c]: the inode written to
  done,     \* done[c]: the patches written
  result    \* result[c]: how it ended

vars == <<name, bytes, whole, pc, call, view, from, to, done, result>>

Empty == [s \in Streams |-> None]

Init ==
  /\ name = [n \in Names |-> IF n \in Paths THEN n ELSE None]
  /\ bytes = [i \in Inodes |->
                IF i \in Paths THEN [s \in Streams |-> i] ELSE Empty]
  /\ whole = Paths
  /\ pc = [c \in Calls |-> "idle"]
  /\ call = [c \in Calls |-> None]
  /\ view = [c \in Calls |-> Empty]
  /\ from = [c \in Calls |-> None] /\ to = [c \in Calls |-> None]
  /\ done = [c \in Calls |-> 0]
  /\ result = [c \in Calls |-> None]

Goto(c, step) == pc' = [pc EXCEPT ![c] = step]
End(c, r) == Goto(c, "ended") /\ result' = [result EXCEPT ![c] = r]

List(c) == call[c].manifest
PatchesOf(c, s) == {n \in DOMAIN List(c) : List(c)[n].stream = s}

Way(c) ==
  IF call[c].src = call[c].dst THEN "tmp"
  ELSE IF List(c) = <<>> THEN "copy" ELSE "rw"

\* Mutant of Temp: the name does not say which process writes.
TempOfTarget(c) ==
  [dst |-> call[c].dst, way |-> Way(c),
   pid |-> CHOOSE p \in {Process(d) : d \in Calls} : TRUE]

Temp(c) == [dst |-> call[c].dst, way |-> Way(c), pid |-> Process(c)]

Readable(n) == name[n] # None /\ name[n] \in whole

-----------------------------------------------------------------------------
(* rvt-write *)

\* A call of the library, or a command with a manifest or none.
Ask(c, src, dst, m) ==
  /\ pc[c] = "idle"
  /\ \/ /\ m # None
        /\ call' = [call EXCEPT ![c] = [src |-> src, dst |-> dst,
                                        manifest |-> m, dry |-> FALSE]]
        /\ Goto(c, "open")
     \/ \E dry \in BOOLEAN :
          /\ call' = [call EXCEPT ![c] = [src |-> src, dst |-> dst,
                                          manifest |-> m, dry |-> dry]]
          /\ Goto(c, "command")
  /\ UNCHANGED <<name, bytes, whole, view, from, to, done, result>>

\* run: the manifest, a look at the source, and the dry run.
Command(c) ==
  /\ pc[c] = "command"
  /\ IF List(c) = None \/ ~Readable(call[c].src)
       THEN End(c, "failed")
       ELSE IF call[c].dry THEN End(c, "dry")
       ELSE Goto(c, "open") /\ UNCHANGED result
  /\ UNCHANGED <<name, bytes, whole, call, view, from, to, done>>

-----------------------------------------------------------------------------
(* write_with_patches *)

\* A patch of a stream that is not there, or that would span a stored page.
Refused(c) ==
  \E n \in DOMAIN List(c) : List(c)[n].stream \notin Streams \/ List(c)[n].long

Open(c) ==
  /\ pc[c] = "open"
  /\ IF ~Readable(call[c].src) THEN End(c, "failed") /\ UNCHANGED view
     ELSE IF Refused(c) THEN End(c, "refused") /\ UNCHANGED view
     ELSE /\ view' = [view EXCEPT ![c] = bytes[name[call[c].src]]]
          /\ Goto(c, "create")
          /\ UNCHANGED result
  /\ UNCHANGED <<name, bytes, whole, call, from, to, done>>

\* Mutant of Fail: no guard unlinks the temporary file.
FailAndLeave(c) == End(c, "failed") /\ UNCHANGED name

\* A step failed.  The guards of the ways that patch unlink the temporary file,
\* whosever it is by then; the copy has no guard.
Fail(c) ==
  /\ End(c, "failed")
  /\ name' = IF Way(c) = "copy" THEN name
             ELSE [name EXCEPT ![Temp(c)] = None]

\* The temporary file is created, or truncated if there is one of that name.
Create(c) ==
  /\ pc[c] = "create"
  /\ \/ Fail(c) /\ UNCHANGED <<bytes, whole, from, to>>
     \/ /\ name[call[c].src] # None
        /\ LET i == IF name[Temp(c)] = None THEN c ELSE name[Temp(c)]
           IN  /\ name' = [name EXCEPT ![Temp(c)] = i]
               /\ bytes' = [bytes EXCEPT ![i] = Empty]
               /\ whole' = whole \ {i}
               /\ to' = [to EXCEPT ![c] = i]
        /\ from' = [from EXCEPT ![c] = name[call[c].src]]
        /\ Goto(c, "fill")
        /\ UNCHANGED result
  /\ UNCHANGED <<call, view, done>>

\* The streams written anew: the first patch of a stream, or what was read.
Rewritten(c) ==
  [s \in Streams |->
     IF PatchesOf(c, s) = {} THEN view[c][s]
     ELSE List(c)[CHOOSE n \in PatchesOf(c, s) :
                    \A m \in PatchesOf(c, s) : n <= m].value]

\* std::fs::copy of the source as it now is, or every stream written.
Fill(c) ==
  /\ pc[c] = "fill"
  /\ \/ Fail(c) /\ UNCHANGED <<bytes, whole, view>>
     \/ /\ IF Way(c) = "tmp"
             THEN bytes' = [bytes EXCEPT ![to[c]] = Rewritten(c)]
                  /\ UNCHANGED view
             ELSE bytes' = [bytes EXCEPT ![to[c]] = bytes[from[c]]]
                  /\ view' = [view EXCEPT ![c] = bytes[from[c]]]
        /\ whole' = IF Way(c) = "tmp" \/ from[c] \in whole
                      THEN whole \cup {to[c]} ELSE whole \ {to[c]}
        /\ Goto(c, IF Way(c) = "rw" THEN "reopen" ELSE "rename")
        /\ UNCHANGED <<name, result>>
  /\ UNCHANGED <<call, from, to, done>>

\* cfb::open_rw, by the temporary name.
Reopen(c) ==
  /\ pc[c] = "reopen"
  /\ \/ Fail(c) /\ UNCHANGED to
     \/ /\ Readable(Temp(c))
        /\ to' = [to EXCEPT ![c] = name[Temp(c)]]
        /\ Goto(c, "patch")
        /\ UNCHANGED <<name, result>>
  /\ UNCHANGED <<bytes, whole, call, view, from, done>>

\* Mutant of Patch: the last patch is left out.
PatchButLast(c) ==
  /\ pc[c] = "patch"
  /\ done' = [done EXCEPT ![c] = @ + 1]
  /\ Goto(c, IF done[c] + 1 >= Len(List(c)) THEN "flush" ELSE "patch")
  /\ IF done[c] + 1 = Len(List(c)) THEN UNCHANGED <<bytes, whole>>
     ELSE LET p == List(c)[done[c] + 1]
          IN  /\ bytes' = [bytes EXCEPT ![to[c]][p.stream] = p.value]
              /\ whole' = whole \ {to[c]}
  /\ UNCHANGED <<name, call, view, from, to, result>>

\* create_stream and write_all of the next patch.
Patch(c) ==
  /\ pc[c] = "patch"
  /\ \/ Fail(c) /\ UNCHANGED <<bytes, whole, done>>
     \/ LET p == List(c)[done[c] + 1]
        IN  /\ bytes' = [bytes EXCEPT ![to[c]][p.stream] = p.value]
            /\ whole' = whole \ {to[c]}
            /\ done' = [done EXCEPT ![c] = @ + 1]
            /\ Goto(c, IF done[c] + 1 = Len(List(c)) THEN "flush" ELSE "patch")
            /\ UNCHANGED <<name, result>>
  /\ UNCHANGED <<call, view, from, to>>

Flush(c) ==
  /\ pc[c] = "flush"
  /\ \/ Fail(c) /\ UNCHANGED whole
     \/ /\ whole' = whole \cup {to[c]}
        /\ Goto(c, "rename")
        /\ UNCHANGED <<name, result>>
  /\ UNCHANGED <<bytes, call, view, from, to, done>>

\* The temporary name goes, and what it leads to is the target.
Rename(c) ==
  /\ pc[c] = "rename"
  /\ \/ Fail(c)
     \/ /\ name[Temp(c)] # None
        /\ name' = [name EXCEPT ![call[c].dst] = name[Temp(c)],
                                ![Temp(c)] = None]
        /\ End(c, "written")
  /\ UNCHANGED <<bytes, whole, call, view, from, to, done>>

Killed(c) ==
  /\ pc[c] \notin {"idle", "ended"}
  /\ \A d \in Calls : Process(d) = Process(c) => pc[d] # "killed"
  /\ pc' = [d \in Calls |->
              IF Process(d) = Process(c) /\ pc[d] # "ended"
                THEN "killed" ELSE pc[d]]
  /\ UNCHANGED <<name, bytes, whole, call, view, from, to, done, result>>

-----------------------------------------------------------------------------

CallStep(c) ==
  \/ Command(c) \/ Open(c) \/ Create(c) \/ Fill(c) \/ Reopen(c) \/ Patch(c)
  \/ Flush(c) \/ Rename(c)

Rest ==
  /\ \A c \in Calls : pc[c] \in {"ended", "killed"}
  /\ UNCHANGED vars

Next ==
  \/ \E c \in Calls :
       \/ \E src, dst \in Paths, m \in Manifests \cup {None} : Ask(c, src, dst, m)
       \/ CallStep(c)
       \/ Killed(c)
  \/ Rest

Spec == Init /\ [][Next]_vars

-----------------------------------------------------------------------------
(* Properties *)

Steps == {"idle", "command", "open", "create", "fill", "reopen", "patch", "flush",
          "rename", "ended", "killed"}
TypeOK ==
  /\ name \in [Names -> Inodes \cup {None}]
  /\ bytes \in [Inodes -> Contents] /\ whole \subseteq Inodes
  /\ pc \in [Calls -> Steps] /\ call \in [Calls -> Asked \cup {None}]
  /\ view \in [Calls -> Contents] /\ done \in [Calls -> Nat]
  /\ {from, to} \subseteq [Calls -> Inodes \cup {None}]
  /\ result \in [Calls -> Results \cup {None}]

\* A Revit file found under its name is whole, whoever writes it, fails or is
\* killed meanwhile: what was there before, or all of what a call wrote.
\* (Atomicity, writer.rs:33-39; "The write is atomic", writer.rs:224.)
TargetIsWhole == \A p \in Paths : Readable(p)

\* A call that was refused or failed, and a dry run, put nothing in place, and
\* one that was refused wrote no temporary file either.  (writer.rs:170-176,
\* 188-189, 228-231.)
NoneWrittenUnlessDone ==
  \A c \in Calls :
    /\ result[c] \in {"refused", "failed", "dry"} =>
         \A p \in Paths : name[p] # c
    /\ result[c] \in {"refused", "dry"} => to[c] = None

\* A call with patches that has ended, well or badly, leaves no temporary file.
\* (InplaceGuard and TempGuard, writer.rs:328-341, 404-419.)
PatchedLeavesNoTemp ==
  \A c \in Calls :
    pc[c] = "ended" /\ to[c] # None /\ Way(c) # "copy" => name[Temp(c)] = None

\* What a call leaves behind: if it did not write, nothing in place, whichever way
\* it went; and of the ways that patch no temporary file.  (The way that copies has
\* no guard, and breaks TempIsUnlinked.)
CleanUnlessCopy == NoneWrittenUnlessDone /\ PatchedLeavesNoTemp

\* No call that has ended leaves a temporary file, the way that copies included:
\* "The `TempGuard` RAII handle unlinks the temp file on any early return or panic"
\* (writer.rs:37-38), and the copy has the "same durability contract as the CFB path"
\* (writer.rs:281-282).
TempIsUnlinked ==
  \A c \in Calls : pc[c] = "ended" /\ to[c] # None => name[Temp(c)] = None

-----------------------------------------------------------------------------
(* PatchWriter implements AtomicWrite. *)

\* What a reader finds under a name.
File(p) == IF Readable(p) THEN bytes[name[p]] ELSE None

\* What call c writes its target from: what it read, once the source was opened
\* or, by the ways that copy, opened again.
Taken(c) ==
  IF pc[c] = "fill" /\ Way(c) # "tmp" THEN bytes[from[c]]
  ELSE IF pc[c] \in {"create", "fill", "reopen", "patch", "flush", "rename"} THEN view[c]
  ELSE None
Told(c) ==
  IF result[c] = "written" THEN "written"
  ELSE IF pc[c] \in {"ended", "killed"} THEN "nothing" ELSE None

Atomic == INSTANCE AtomicWrite WITH
            Requests <- Asked,
            file <- [p \in Paths |-> File(p)],
            order <- call,
            taken <- [c \in Calls |-> Taken(c)],
            answer <- [c \in Calls |-> Told(c)]

\* What a call puts in place is what its source held at one moment, each stream
\* that is patched as a patch of it says and every other as it was; it is there
\* all at once, and any other call changes nothing.  ("The write is atomic",
\* writer.rs:224; writer.rs:164-176.)
RefinesAtomicWrite == Atomic!Spec
=============================================================================
