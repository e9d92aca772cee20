--------------------------- MODULE ModelStoreProofs ---------------------------
(***************************************************************************)
(* Theorems about ModelStore, for every set of jobs, files, spellings and  *)
(* phases, every capacity and every number of replacements.                *)
(*                                                                         *)
(* The argument: `written` only grows, and the state on disk is either the *)
(* latest or none.  A job takes an identity first and reads afterwards, so *)
(* what it holds obeys ver <= bytes <= written, and so does the entry it   *)
(* makes of it; an identity that is the file's now is the latest state, and *)
(* then the three are equal.  A resolution is of the bytes read, hence     *)
(* right whenever its identity is alive.  Entries never change once made,  *)
(* so what was true of an answer stays true of it.                         *)
(***************************************************************************)
EXTENDS ModelStoreLru, Sequences, FiniteSetTheorems, TLAPS

\* The file is in the latest of its states, or there is none.
DiskIsLatest ==
  \A p \in Paths : disk[p] \in {0, written[p]} /\ written[p] <= MaxWritten

\* A resolution is right unless the identity it was made for is dead.
Right(p, v, s, ph) == written[p] = v => ph = PhaseOf(p, v, s)

EntryInv(r) ==
  entry[r] # None =>
    /\ job[r].pc = "answered"
    /\ entry[r].ver <= entry[r].bytes
    /\ entry[r].bytes <= written[entry[r].path]
    /\ entry[r].spec = None => entry[r].phase = None
    /\ entry[r].spec # None =>
         Right(entry[r].path, entry[r].ver, entry[r].spec, entry[r].phase)

NoteInv(r) ==
  note[r] # None =>
    /\ note[r].ver <= written[note[r].path]
    /\ Right(note[r].path, note[r].ver, note[r].spec, note[r].phase)

Identified == {"verify", "dropEntries", "dropNotes", "recall", "read",
               "remember", "touch", "openFile", "insert", "compare"}
PhaseKnown == {"remember", "touch", "openFile", "insert", "compare"}

JobSound(rec) ==
  /\ rec.pc = "idle" => rec = IdleJob
  /\ rec.pc # "idle" =>
       /\ rec.path \in Paths
       /\ rec.asked <= written[rec.path]
  /\ rec.pc \in Identified =>
       /\ rec.ver # 0
       /\ rec.ver <= written[rec.path]
       /\ rec.id = None => rec.asked <= rec.ver
       /\ rec.bytes # 0 => /\ rec.ver <= rec.bytes
                              /\ rec.bytes <= written[rec.path]
  /\ rec.pc \in {"recall", "read", "remember", "compare"} =>
       rec.asked <= rec.ver
  /\ rec.pc = "find" => rec.id.path = rec.path
  /\ rec.pc \in {"stat", "find"} => rec.bytes = 0
  /\ rec.pc \in {"recall", "read", "remember"} => rec.spec # None
  /\ rec.pc \in PhaseKnown /\ rec.spec # None =>
       Right(rec.path, rec.ver, rec.spec, rec.phase)
  /\ rec.spec = None => rec.phase = None
  /\ rec.pc = "compare" => rec.spec # None
  /\ rec.pc \in {"remember", "insert"} => rec.bytes # 0
  /\ rec.pc \in {"stat", "touch", "openFile", "insert"} => rec.id = None
  /\ rec.pc \in {"find", "verify", "dropEntries", "dropNotes", "compare"} =>
       rec.id # None
  /\ rec.id # None /\ rec.pc \in Identified =>
       /\ rec.got # None
       /\ entry[rec.got] # None
       /\ IdOf(entry[rec.got]) = rec.id
       /\ entry[rec.got].path = rec.path
       /\ entry[rec.got].ver = rec.ver
  /\ rec.pc = "answered" =>
       /\ rec.got # None
       /\ entry[rec.got] # None
       /\ entry[rec.got].path = rec.path
       /\ rec.asked <= entry[rec.got].ver
       /\ rec.id # None => IdOf(entry[rec.got]) = rec.id
       /\ rec.spec # None =>
            Right(rec.path, entry[rec.got].ver, rec.spec,
                  entry[rec.got].phase)
       /\ rec.spec = None /\ rec.id = None =>
            entry[rec.got].phase = None

JobInv(j) == JobSound(job[j])

IInv ==
  /\ TypeOK
  /\ DiskIsLatest
  /\ \A r \in Jobs : EntryInv(r)
  /\ \A r \in Jobs : NoteInv(r)
  /\ \A j \in Jobs : JobInv(j)
  /\ OneEntryPerModel
  /\ OneGenerationPerPath

-----------------------------------------------------------------------------

\* A vector holds members of the set it is made of, each at a position.
LEMMA VectorMembers ==
  ASSUME NEW H \in SUBSET Jobs, NEW key, NEW n
  PROVE  /\ Vector(H, key, n) \in [Jobs -> Nat]
         /\ \A r \in Jobs : Vector(H, key, n)[r] > 0 => r \in H
<1>1. \A r \in Jobs : Cardinality({q \in H : key[q] <= key[r]}) \in Nat
  <2>1. TAKE r \in Jobs
  <2>2. IsFiniteSet({q \in H : key[q] <= key[r]})
    BY JobsAssumption, FS_Subset
  <2> QED
    BY <2>2, FS_CardinalityType
<1> QED
  BY <1>1 DEF Vector

\* The initial states satisfy the invariant.
LEMMA InitIInv == Init => IInv
<1> SUFFICES ASSUME Init PROVE IInv
  OBVIOUS
<1> USE DEF Init
<1>1. disk \in [Paths -> Nat] /\ written = disk
      /\ \A p \in Paths : disk[p] <= MaxWritten
  BY BoundAssumption
<1>2. IdleJob \in JobType /\ IdleJob.pc = "idle" /\ IdleJob.spec = None
      /\ IdleJob.phase = None
  BY DEF IdleJob, JobType, Steps
<1>3. TypeOK
  BY <1>1, <1>2 DEF TypeOK, Held, Notes
<1>4. DiskIsLatest
  BY <1>1 DEF DiskIsLatest
<1>5. \A r \in Jobs : EntryInv(r) /\ NoteInv(r)
  BY DEF EntryInv, NoteInv
<1>6. \A j \in Jobs : JobInv(j)
  BY <1>2 DEF JobInv, JobSound, Identified, PhaseKnown
<1>7. OneEntryPerModel /\ OneGenerationPerPath
  BY DEF OneEntryPerModel, OneGenerationPerPath, Held
<1> QED
  BY <1>3, <1>4, <1>5, <1>6, <1>7 DEF IInv

\* A step of job j that makes no entry and no resolution, and at most moves or
\* drops some, keeps the invariant when the job's new locals are sound.
LEMMA JobAlone ==
  ASSUME IInv, NEW j \in Jobs,
         UNCHANGED <<disk, written, entry, note>>,
         place' \in [Jobs -> Nat], \A r \in Jobs : place'[r] > 0 => place[r] > 0,
         noted' \in [Jobs -> Nat], \A r \in Jobs : noted'[r] > 0 => noted[r] > 0,
         job[j].pc # "answered",
         NEW rec \in JobType, JobSound(rec), Become(j, rec)
  PROVE  IInv'
<1>0. /\ job' \in [Jobs -> JobType] /\ job'[j] = rec
      /\ \A k \in Jobs \ {j} : job'[k] = job[k]
  BY DEF IInv, TypeOK, Become
<1>1. TypeOK'
  BY <1>0 DEF IInv, TypeOK, Held, Notes
<1>2. DiskIsLatest'
  BY DEF IInv, DiskIsLatest
<1>3. \A r \in Jobs : EntryInv(r)'
  BY <1>0 DEF IInv, EntryInv, Right
<1>4. \A r \in Jobs : NoteInv(r)'
  BY DEF IInv, NoteInv, Right
<1>5. \A k \in Jobs : JobInv(k)'
  <2>1. SUFFICES ASSUME NEW k \in Jobs PROVE JobInv(k)'
    OBVIOUS
  <2>2. CASE k = j
    BY <2>2, <1>0 DEF JobInv, JobSound, Right
  <2>3. CASE k # j
    <3>1. JobSound(job[k]) /\ job'[k] = job[k]
      BY <2>3, <1>0 DEF IInv, JobInv
    <3> QED
      BY <3>1 DEF JobInv, JobSound, Right
  <2> QED
    BY <2>2, <2>3
<1>6. OneEntryPerModel' /\ OneGenerationPerPath'
  BY DEF IInv, OneEntryPerModel, OneGenerationPerPath, Held, IdOf
<1> QED
  BY <1>1, <1>2, <1>3, <1>4, <1>5, <1>6 DEF IInv


\* What the invariant says of the job that takes a step.
LEMMA Locals ==
  ASSUME IInv, NEW j \in Jobs
  PROVE  /\ job[j] \in JobType /\ JobSound(job[j])
         /\ place \in [Jobs -> Nat] /\ noted \in [Jobs -> Nat]
         /\ written \in [Paths -> Nat] /\ disk \in [Paths -> Nat]
BY DEF IInv, TypeOK, JobInv

\* The type alone, for the leaves that need no more of what Locals says.
LEMMA Typed ==
  ASSUME IInv, NEW j \in Jobs
  PROVE  job[j] \in JobType
BY Locals

\* Updates of two or three locals keep the type.
LEMMA Updates ==
  ASSUME NEW rec \in JobType, NEW s \in Steps, NEW n \in Nat,
         NEW ph \in PhaseIds \cup {None}, NEW r \in Jobs
  PROVE  /\ [rec EXCEPT !.pc = s, !.phase = ph] \in JobType
         /\ [rec EXCEPT !.pc = s, !.bytes = n] \in JobType
         /\ [rec EXCEPT !.pc = s, !.got = r] \in JobType
         /\ [rec EXCEPT !.pc = s, !.ver = n, !.got = r] \in JobType
<1>1. [rec EXCEPT !.pc = s, !.phase = ph] \in JobType
  BY DEF JobType
<1>2. [rec EXCEPT !.pc = s, !.bytes = n] \in JobType
  BY DEF JobType
<1>3. [rec EXCEPT !.pc = s, !.got = r] \in JobType
  BY DEF JobType
<1>4. [rec EXCEPT !.pc = s, !.ver = n, !.got = r] \in JobType
  BY DEF JobType
<1> QED
  BY <1>1, <1>2, <1>3, <1>4

LEMMA AskPathStep ==
  ASSUME IInv, NEW j \in Jobs, NEW p \in Paths, NEW s \in Specs \cup {None},
         AskPath(j, p, s)
  PROVE  IInv'
<1> DEFINE rec == [job[j] EXCEPT !.pc = "stat", !.path = p, !.spec = s,
                                 !.asked = written[p]]
<1>1. job[j] = IdleJob
  BY Locals DEF AskPath, JobSound
<1>2. rec \in JobType
  BY <1>1, Locals DEF JobType, IdleJob, Steps
<1>3. /\ rec.pc = "stat" /\ rec.path = p /\ rec.asked = written[p]
      /\ rec.id = None /\ rec.bytes = 0 /\ rec.phase = None
  BY <1>1 DEF IdleJob
<1> HIDE DEF rec
<1>4. JobSound(rec)
  BY <1>3, Locals DEF JobSound, Identified, PhaseKnown
<1> QED
  BY <1>1, <1>2, <1>4, Locals, JobAlone DEF AskPath, IdleJob, rec

LEMMA AskIdStep ==
  ASSUME IInv, NEW j \in Jobs, NEW r \in Jobs, NEW s \in Specs \cup {None},
         AskId(j, r, s)
  PROVE  IInv'
<1> DEFINE rec == [job[j] EXCEPT !.pc = "find", !.id = IdOf(entry[r]),
                                 !.path = entry[r].path, !.spec = s,
                                 !.asked = written[entry[r].path]]
<1>1. job[j] = IdleJob
  BY Locals DEF AskId, JobSound
<1>2. entry[r] \in EntryType
  BY DEF AskId, IInv, TypeOK
<1>3. IdOf(entry[r]) \in Ids /\ IdOf(entry[r]) # None
  BY <1>2, NoneAssumption DEF IdOf, Ids, EntryType
<1>4. rec \in JobType
  BY <1>1, <1>2, <1>3, Locals DEF JobType, EntryType, IdleJob, Steps
<1>5. /\ rec.pc = "find" /\ rec.path = entry[r].path /\ rec.id # None
      /\ rec.id.path = rec.path
      /\ rec.asked = written[entry[r].path]
      /\ rec.bytes = 0 /\ rec.phase = None
  BY <1>1, <1>3 DEF IdleJob, IdOf
<1> HIDE DEF rec
<1>6. JobSound(rec)
  BY <1>2, <1>5, Locals DEF JobSound, EntryType, Identified, PhaseKnown
<1> QED
  BY <1>1, <1>4, <1>6, Locals, JobAlone DEF AskId, IdleJob, rec

\* A job may fail at any step: a failed job promises nothing.
LEMMA FailSound ==
  ASSUME IInv, NEW j \in Jobs, job[j].pc # "idle"
  PROVE  LET rec == [job[j] EXCEPT !.pc = "failed", !.got = None]
         IN  rec \in JobType /\ JobSound(rec)
<1> DEFINE rec == [job[j] EXCEPT !.pc = "failed", !.got = None]
<1>1. job[j] \in JobType /\ JobSound(job[j])
  BY Locals
<1>2. rec \in JobType
  BY <1>1 DEF JobType, Steps
<1>3. /\ rec.pc = "failed" /\ rec.path = job[j].path
      /\ rec.spec = job[j].spec /\ rec.phase = job[j].phase
      /\ rec.asked = job[j].asked
  BY <1>1 DEF JobType
<1> HIDE DEF rec
<1>4. JobSound(rec)
  BY <1>1, <1>3 DEF JobSound, Identified, PhaseKnown
<1> QED
  BY <1>2, <1>4 DEF rec

LEMMA StatStep ==
  ASSUME IInv, NEW j \in Jobs, Stat(j)
  PROVE  IInv'
<1> DEFINE pc == IF job[j].spec = None THEN "touch" ELSE "recall"
           rec == [job[j] EXCEPT !.pc = pc, !.ver = disk[job[j].path]]
<1>1. ASSUME disk[job[j].path] # 0
      PROVE  rec \in JobType /\ JobSound(rec)
  <2>1. /\ job[j].path \in Paths /\ job[j].pc = "stat" /\ job[j].id = None
        /\ job[j].bytes = 0
        /\ job[j].asked <= disk[job[j].path]
        /\ disk[job[j].path] <= written[job[j].path]
    BY <1>1, Locals DEF Stat, JobSound, IInv, DiskIsLatest, JobType
  <2>a. pc \in {"touch", "recall"} /\ disk[job[j].path] \in Nat
    BY Locals, <2>1
  <2> HIDE DEF pc
  <2>2. rec \in JobType
    BY Locals, <2>a DEF JobType, Steps
  <2>3. /\ rec.pc = pc
        /\ rec.path = job[j].path /\ rec.ver = disk[job[j].path]
        /\ rec.spec = job[j].spec /\ rec.phase = job[j].phase
        /\ rec.id = job[j].id /\ rec.bytes = job[j].bytes
        /\ rec.asked = job[j].asked
    BY Locals DEF JobType
  <2> HIDE DEF rec
  <2>4. JobSound(rec)
    BY <2>1, <2>3, <1>1, Locals DEF JobSound, Identified, PhaseKnown, pc
  <2> QED
    BY <2>2, <2>4
<1> QED
  BY <1>1, FailSound, Locals, JobAlone DEF Stat, Fail

LEMMA VerifyStep ==
  ASSUME IInv, NEW j \in Jobs, Verify(j)
  PROVE  IInv'
<1> DEFINE pc == IF ~Unchanged(j) THEN "dropEntries"
                 ELSE IF job[j].spec = None THEN "answered" ELSE "recall"
           rec == [job[j] EXCEPT !.pc = pc]
<1>1. /\ job[j].path \in Paths /\ job[j].pc = "verify" /\ job[j].id # None
      /\ pc # "dropEntries" => job[j].asked <= job[j].ver
  BY Locals DEF Verify, Unchanged, JobSound, Identified, IInv, DiskIsLatest,
                JobType
<1>2. rec \in JobType
  BY Typed DEF JobType, Steps
<1>3. /\ rec.pc = pc
      /\ rec.path = job[j].path /\ rec.ver = job[j].ver /\ rec.id = job[j].id
      /\ rec.spec = job[j].spec /\ rec.phase = job[j].phase
      /\ rec.got = job[j].got
      /\ rec.bytes = job[j].bytes /\ rec.asked = job[j].asked
  BY Locals DEF JobType
<1> HIDE DEF rec
<1>4. JobSound(rec)
  BY <1>1, <1>3, Locals DEF JobSound, Identified, PhaseKnown
<1> QED
  BY <1>1, <1>2, <1>4, Locals, JobAlone DEF Verify, Goto, rec

LEMMA CompareStep ==
  ASSUME IInv, NEW j \in Jobs, Compare(j)
  PROVE  IInv'
<1> DEFINE rec == [job[j] EXCEPT !.pc = "answered", !.got = job[j].got]
<1>1. ASSUME entry[job[j].got].phase = job[j].phase
      PROVE  rec \in JobType /\ JobSound(rec)
  <2>1. rec \in JobType
    BY Typed DEF JobType, Steps
  <2>2. /\ rec.pc = "answered"
        /\ rec.path = job[j].path /\ rec.ver = job[j].ver /\ rec.id = job[j].id
        /\ rec.spec = job[j].spec /\ rec.phase = job[j].phase
        /\ rec.got = job[j].got
        /\ rec.bytes = job[j].bytes /\ rec.asked = job[j].asked
    BY Locals DEF JobType
  <2> HIDE DEF rec
  <2>3. JobSound(rec)
    BY <1>1, <2>2, Locals DEF Compare, JobSound, Identified, PhaseKnown, Right
  <2> QED
    BY <2>1, <2>3
<1> QED
  BY <1>1, FailSound, Locals, JobAlone DEF Compare, Fail, Answer

LEMMA RecallStep ==
  ASSUME IInv, NEW j \in Jobs, Recall(j)
  PROVE  IInv'
<1>1. /\ job[j].path \in Paths /\ job[j].pc = "recall"
      /\ job[j].spec # None /\ job[j].bytes \in Nat
  BY Locals DEF Recall, JobSound, JobType
<1>2. CASE Goto(j, "read")
  <2> DEFINE rec == [job[j] EXCEPT !.pc = "read"]
  <2>1. rec \in JobType
    BY Typed DEF JobType, Steps
  <2>2. /\ rec.pc = "read"
        /\ rec.path = job[j].path /\ rec.ver = job[j].ver /\ rec.id = job[j].id
        /\ rec.spec = job[j].spec /\ rec.phase = job[j].phase
        /\ rec.got = job[j].got
        /\ rec.bytes = job[j].bytes /\ rec.asked = job[j].asked
    BY Locals DEF JobType
  <2> HIDE DEF rec
  <2>3. JobSound(rec)
    BY <1>1, <2>2, Locals DEF JobSound, Identified, PhaseKnown
  <2> QED
    BY <1>1, <1>2, <2>1, <2>3, Locals, JobAlone DEF Recall, Goto, rec
<1>3. ASSUME NEW r \in Recalled(j), note[r].phase # None,
             Become(j, [job[j] EXCEPT !.pc = AfterResolve(j),
                                      !.phase = note[r].phase])
      PROVE  IInv'
  <2> DEFINE pc == AfterResolve(j)
             rec == [job[j] EXCEPT !.pc = pc, !.phase = note[r].phase]
  <2>1. /\ r \in Jobs /\ note[r] \in NoteType /\ note[r] # None
        /\ note[r].path = job[j].path /\ note[r].ver = job[j].ver
        /\ note[r].spec = job[j].spec
    BY <1>3 DEF Recalled, Notes, IInv, TypeOK
  <2>2. /\ note[r].phase \in PhaseIds \cup {None}
        /\ Right(job[j].path, job[j].ver, job[j].spec, note[r].phase)
    BY <2>1 DEF IInv, NoteInv, NoteType
  <2>3. pc \in {"touch", "compare"} /\ (pc = "touch" <=> job[j].id = None)
    BY DEF AfterResolve
  <2> HIDE DEF pc
  <2>4. rec \in JobType
    BY <2>2, <2>3, Typed, Updates DEF Steps
  <2>5. /\ rec.pc = pc
        /\ rec.path = job[j].path /\ rec.ver = job[j].ver /\ rec.id = job[j].id
        /\ rec.spec = job[j].spec /\ rec.phase = note[r].phase
        /\ rec.got = job[j].got
        /\ rec.bytes = job[j].bytes /\ rec.asked = job[j].asked
    BY Locals DEF JobType
  <2> HIDE DEF rec
  <2>6. JobSound(rec)
    BY <1>1, <2>2, <2>3, <2>5, Locals DEF JobSound, Identified, PhaseKnown
  <2> QED
    BY <1>1, <1>3, <2>4, <2>6, Locals, JobAlone DEF Recall, rec, pc
<1> QED
  BY <1>1, <1>2, <1>3, FailSound, Locals, JobAlone DEF Recall, Fail

\* What a job reads is the latest state of the file, and not older than the
\* identity it took before.
LEMMA ReadLatest ==
  ASSUME IInv, NEW j \in Jobs, disk[job[j].path] # 0, job[j].pc \in Identified
  PROVE  /\ disk[job[j].path] \in Nat
         /\ disk[job[j].path] = written[job[j].path]
         /\ job[j].ver <= disk[job[j].path]
         /\ disk[job[j].path] \in 1 .. MaxWritten
<1>1. job[j].path \in Paths /\ job[j].ver <= written[job[j].path]
  BY Locals DEF JobSound, Identified
<1> QED
  BY <1>1, Locals, BoundAssumption DEF IInv, DiskIsLatest

LEMMA ReadStep ==
  ASSUME IInv, NEW j \in Jobs, Read(j)
  PROVE  IInv'
<1> DEFINE bytes == disk[job[j].path]
           phase == Resolved(j)
           rec == [job[j] EXCEPT !.pc = "remember", !.bytes = bytes,
                                 !.phase = phase]
<1>1. /\ job[j].path \in Paths /\ job[j].pc = "read" /\ job[j].spec \in Specs
  BY Locals DEF Read, JobSound, JobType
<1>2. ASSUME disk[job[j].path] # 0
      PROVE  rec \in JobType /\ JobSound(rec)
  <2>1. /\ disk[job[j].path] \in Nat
        /\ disk[job[j].path] = written[job[j].path]
        /\ job[j].ver <= disk[job[j].path]
        /\ disk[job[j].path] \in 1 .. MaxWritten
    BY <1>1, <1>2, ReadLatest DEF Identified
  <2>2. /\ Resolved(j) \in PhaseIds \cup {None}
        /\ Right(job[j].path, job[j].ver, job[j].spec, Resolved(j))
    BY <1>1, <2>1, PhaseAssumption DEF Resolved, Right
  <2>a. bytes \in Nat /\ phase \in PhaseIds \cup {None}
    BY <2>1, <2>2
  <2> HIDE DEF bytes, phase
  <2>3. rec \in JobType
    BY <2>a, Typed DEF JobType, Steps
  <2>4. /\ rec.pc = "remember"
        /\ rec.path = job[j].path /\ rec.ver = job[j].ver /\ rec.id = job[j].id
        /\ rec.spec = job[j].spec /\ rec.phase = phase
        /\ rec.got = job[j].got
        /\ rec.bytes = bytes /\ rec.asked = job[j].asked
    BY Locals DEF JobType
  <2> HIDE DEF rec
  <2>5. JobSound(rec)
    BY <1>1, <1>2, <2>1, <2>2, <2>4, NoneAssumption, Locals
    DEF JobSound, Identified, PhaseKnown, bytes, phase
  <2> QED
    BY <2>3, <2>5
<1> QED
  BY <1>1, <1>2, FailSound, Locals, JobAlone DEF Read, Fail

LEMMA OpenFileStep ==
  ASSUME IInv, NEW j \in Jobs, OpenFile(j)
  PROVE  IInv'
<1> DEFINE rec == [job[j] EXCEPT !.pc = "insert",
                                 !.bytes = disk[job[j].path]]
<1>1. job[j].path \in Paths /\ job[j].pc = "openFile"
  BY Locals DEF OpenFile, JobSound, JobType
<1>2. ASSUME disk[job[j].path] # 0
      PROVE  rec \in JobType /\ JobSound(rec)
  <2>1. /\ disk[job[j].path] \in Nat
        /\ disk[job[j].path] = written[job[j].path]
        /\ job[j].ver <= disk[job[j].path]
    BY <1>1, <1>2, ReadLatest DEF Identified
  <2>2. rec \in JobType
    BY <2>1, Typed, Updates DEF Steps
  <2>3. /\ rec.pc = "insert"
        /\ rec.path = job[j].path /\ rec.ver = job[j].ver /\ rec.id = job[j].id
        /\ rec.spec = job[j].spec /\ rec.phase = job[j].phase
        /\ rec.got = job[j].got
        /\ rec.bytes = disk[job[j].path] /\ rec.asked = job[j].asked
    BY Locals DEF JobType
  <2> HIDE DEF rec
  <2>4. JobSound(rec)
    BY <1>1, <1>2, <2>1, <2>3, Locals DEF JobSound, Identified, PhaseKnown
  <2> QED
    BY <2>2, <2>4
<1> QED
  BY <1>1, <1>2, FailSound, Locals, JobAlone DEF OpenFile, Fail

LEMMA FrontMembers ==
  ASSUME NEW H \in SUBSET Jobs, NEW key, NEW r \in Jobs, NEW n
  PROVE  /\ ToFront(H, key, r, n) \in [Jobs -> Nat]
         /\ \A q \in Jobs : ToFront(H, key, r, n)[q] > 0 => q \in H \cup {r}
<1>1. H \cup {r} \in SUBSET Jobs
  OBVIOUS
<1> QED
  BY <1>1, VectorMembers DEF ToFront

LEMMA FindStep ==
  ASSUME IInv, NEW j \in Jobs, Find(j)
  PROVE  IInv'
<1>1. job[j].pc = "find" /\ job[j].id # None /\ job[j].bytes = 0
  BY Locals DEF Find, JobSound
<1>2. ASSUME Fail(j), UNCHANGED place
      PROVE  IInv'
  BY <1>1, <1>2, FailSound, Locals, JobAlone DEF Find, Fail
<1>3. ASSUME NEW r \in Held, IdOf(entry[r]) = job[j].id,
             place' = ToFront(Held, place, r, MaxOpen),
             Become(j, [job[j] EXCEPT !.pc = "verify", !.ver = entry[r].ver,
                                      !.got = r])
      PROVE  IInv'
  <2> DEFINE ver == entry[r].ver
             rec == [job[j] EXCEPT !.pc = "verify", !.ver = ver, !.got = r]
  <2>1. r \in Jobs /\ entry[r] \in EntryType /\ entry[r] # None /\ EntryInv(r)
    BY <1>3 DEF Held, IInv, TypeOK
  <2>2. /\ ver \in Nat /\ ver # 0 /\ ver <= written[entry[r].path]
        /\ entry[r].path = job[j].path
    <3>0. job[j].id.path = job[j].path
      BY <1>1, Locals DEF JobSound
    <3>1. entry[r].path = job[j].path
      BY <1>3, <3>0 DEF IdOf
    <3>2. /\ ver \in Nat /\ ver # 0 /\ entry[r].bytes \in Nat
          /\ written[entry[r].path] \in Nat
      BY <2>1, Locals DEF EntryType, States
    <3> QED
      BY <2>1, <3>1, <3>2 DEF EntryInv
  <2> HIDE DEF ver
  <2>3. rec \in JobType
    BY <2>1, <2>2, Typed, Updates DEF Steps
  <2>4. /\ rec.pc = "verify"
        /\ rec.path = job[j].path /\ rec.ver = ver /\ rec.id = job[j].id
        /\ rec.spec = job[j].spec /\ rec.phase = job[j].phase
        /\ rec.got = r
        /\ rec.bytes = job[j].bytes /\ rec.asked = job[j].asked
    BY Locals DEF JobType
  <2> HIDE DEF rec
  <2>5. JobSound(rec)
    BY <1>1, <1>3, <2>1, <2>2, <2>4, NoneAssumption, Locals
    DEF JobSound, Identified, PhaseKnown, ver
  <2>6. /\ place' \in [Jobs -> Nat]
        /\ \A q \in Jobs : place'[q] > 0 => place[q] > 0
    BY <1>3, <2>1, FrontMembers DEF Held
  <2> QED
    BY <1>1, <1>3, <2>3, <2>5, <2>6, Locals, JobAlone DEF Find, rec, ver
<1> QED
  BY <1>2, <1>3 DEF Find

LEMMA DropEntriesStep ==
  ASSUME IInv, NEW j \in Jobs, DropEntries(j)
  PROVE  IInv'
<1> DEFINE rec == [job[j] EXCEPT !.pc = "dropNotes"]
<1>1. job[j].pc = "dropEntries"
  BY DEF DropEntries
<1>2. rec \in JobType
  BY Typed DEF JobType, Steps
<1>3. /\ rec.pc = "dropNotes"
      /\ rec.path = job[j].path /\ rec.ver = job[j].ver /\ rec.id = job[j].id
      /\ rec.spec = job[j].spec /\ rec.phase = job[j].phase
      /\ rec.got = job[j].got
      /\ rec.bytes = job[j].bytes /\ rec.asked = job[j].asked
  BY Locals DEF JobType
<1> HIDE DEF rec
<1>4. JobSound(rec)
  BY <1>1, <1>3, Locals DEF JobSound, Identified, PhaseKnown
<1>5. /\ place' \in [Jobs -> Nat]
      /\ \A q \in Jobs : place'[q] > 0 => place[q] > 0
  BY VectorMembers DEF DropEntries, Held
<1> QED
  BY <1>1, <1>2, <1>4, <1>5, Locals, JobAlone DEF DropEntries, Goto, rec

LEMMA DropNotesStep ==
  ASSUME IInv, NEW j \in Jobs, DropNotes(j)
  PROVE  IInv'
<1>1. /\ noted' \in [Jobs -> Nat]
      /\ \A q \in Jobs : noted'[q] > 0 => noted[q] > 0
  BY VectorMembers DEF DropNotes, Notes
<1> QED
  BY <1>1, FailSound, Locals, JobAlone DEF DropNotes, Fail

\* An entry that is the one asked for answers the request by path.
LEMMA AnswerSound ==
  ASSUME IInv, NEW j \in Jobs, NEW r \in Jobs,
         job[j].pc \in {"touch", "insert"},
         entry[r] # None, Is(entry[r], job[j].path, job[j].ver, job[j].phase)
  PROVE  LET rec == [job[j] EXCEPT !.pc = "answered", !.got = r]
         IN  rec \in JobType /\ JobSound(rec)
<1> DEFINE rec == [job[j] EXCEPT !.pc = "answered", !.got = r]
<1>1. rec \in JobType
  BY Typed, Updates DEF Steps
<1>2. /\ rec.pc = "answered"
      /\ rec.path = job[j].path /\ rec.ver = job[j].ver /\ rec.id = job[j].id
      /\ rec.spec = job[j].spec /\ rec.phase = job[j].phase
      /\ rec.got = r
      /\ rec.bytes = job[j].bytes /\ rec.asked = job[j].asked
  BY Locals DEF JobType
<1> HIDE DEF rec
<1>3. JobSound(rec)
  BY <1>2, NoneAssumption, Locals DEF JobSound, Identified, PhaseKnown, Is
<1> QED
  BY <1>1, <1>3 DEF rec

LEMMA TouchStep ==
  ASSUME IInv, NEW j \in Jobs, Touch(j)
  PROVE  IInv'
<1>1. job[j].pc = "touch"
  BY DEF Touch
<1> DEFINE pc == IF job[j].bytes = 0 THEN "openFile" ELSE "insert"
           rec == [job[j] EXCEPT !.pc = pc]
<1>2. ASSUME Goto(j, pc), UNCHANGED place
      PROVE  IInv'
  <2>1. pc \in {"openFile", "insert"} /\ (pc = "insert" <=> job[j].bytes # 0)
    OBVIOUS
  <2> HIDE DEF pc
  <2>2. rec \in JobType
    BY <2>1, Typed DEF JobType, Steps
  <2>3. /\ rec.pc = pc
        /\ rec.path = job[j].path /\ rec.ver = job[j].ver /\ rec.id = job[j].id
        /\ rec.spec = job[j].spec /\ rec.phase = job[j].phase
        /\ rec.got = job[j].got
        /\ rec.bytes = job[j].bytes /\ rec.asked = job[j].asked
    BY Locals DEF JobType
  <2> HIDE DEF rec
  <2>4. JobSound(rec)
    BY <1>1, <2>1, <2>3, Locals DEF JobSound, Identified, PhaseKnown
  <2> QED
    BY <1>1, <1>2, <2>2, <2>4, Locals, JobAlone DEF Touch, Goto, rec
<1>3. ASSUME NEW r \in Same(j), place' = ToFront(Held, place, r, MaxOpen),
             Answer(j, r)
      PROVE  IInv'
  <2>1. /\ r \in Jobs /\ r \in Held /\ entry[r] # None
        /\ Is(entry[r], job[j].path, job[j].ver, job[j].phase)
    BY <1>3 DEF Same, Held, IInv, TypeOK
  <2>2. /\ place' \in [Jobs -> Nat]
        /\ \A q \in Jobs : place'[q] > 0 => place[q] > 0
    BY <1>3, <2>1, FrontMembers DEF Held
  <2> QED
    BY <1>1, <1>3, <2>1, <2>2, AnswerSound, Locals, JobAlone DEF Touch, Answer
<1> QED
  BY <1>2, <1>3 DEF Touch

LEMMA RememberStep ==
  ASSUME IInv, NEW j \in Jobs, Remember(j)
  PROVE  IInv'
<1> DEFINE new == [path |-> job[j].path, ver |-> job[j].ver,
                   spec |-> job[j].spec, phase |-> job[j].phase]
           next == [job[j] EXCEPT !.pc = AfterResolve(j)]
           failed == [job[j] EXCEPT !.pc = "failed", !.got = None]
<1>1. /\ job[j].pc = "remember" /\ job[j].path \in Paths
      /\ job[j].ver \in States /\ job[j].ver <= written[job[j].path]
      /\ job[j].spec \in Specs /\ job[j].phase \in PhaseIds \cup {None}
      /\ Right(job[j].path, job[j].ver, job[j].spec, job[j].phase)
  BY Locals DEF Remember, NewNote, JobSound, JobType, Identified, PhaseKnown, States
<1>2. new \in NoteType /\ new # None
  BY <1>1, NoneAssumption DEF NoteType
<1>3. /\ noted' \in [Jobs -> Nat]
      /\ \A q \in Jobs : noted'[q] > 0 => q = j \/ noted[q] > 0
  <2>1. Notes \ Recalled(j) \in SUBSET Jobs
    BY DEF Notes
  <2> QED
    BY <2>1, FrontMembers DEF Remember, NewNote, Notes
<1>4. /\ note' \in [Jobs -> NoteType \cup {None}] /\ note'[j] = new
      /\ \A q \in Jobs \ {j} : note'[q] = note[q]
  BY <1>2 DEF Remember, NewNote, IInv, TypeOK
<1>5. next \in JobType /\ JobSound(next)
  <2> DEFINE pc == AfterResolve(j)
             rec == [job[j] EXCEPT !.pc = pc]
  <2>1. pc \in {"touch", "compare"} /\ (pc = "touch" <=> job[j].id = None)
    BY DEF AfterResolve
  <2> HIDE DEF pc
  <2>2. rec \in JobType
    BY <2>1, Typed DEF JobType, Steps
  <2>3. /\ rec.pc = pc
        /\ rec.path = job[j].path /\ rec.ver = job[j].ver /\ rec.id = job[j].id
        /\ rec.spec = job[j].spec /\ rec.phase = job[j].phase
        /\ rec.got = job[j].got
        /\ rec.bytes = job[j].bytes /\ rec.asked = job[j].asked
    BY Locals DEF JobType
  <2> HIDE DEF rec
  <2>4. JobSound(rec)
    BY <1>1, <2>1, <2>3, Locals DEF JobSound, Identified, PhaseKnown
  <2> QED
    BY <2>2, <2>4 DEF rec, pc
<1>6. failed \in JobType /\ JobSound(failed)
  BY <1>1, FailSound
<1> HIDE DEF new, next, failed
<1>7. PICK rec \in JobType : JobSound(rec) /\ Become(j, rec)
  BY <1>5, <1>6 DEF Remember, NewNote, Goto, Fail, next, failed
<1>8. UNCHANGED <<disk, written, place, entry>>
  BY DEF Remember, NewNote
<1>9. /\ job' \in [Jobs -> JobType] /\ job'[j] = rec
      /\ \A k \in Jobs \ {j} : job'[k] = job[k]
  BY <1>7 DEF Become, IInv, TypeOK
<1>10. TypeOK'
  BY <1>2, <1>3, <1>4, <1>8, <1>9 DEF IInv, TypeOK, Held, Notes
<1>11. DiskIsLatest' /\ OneEntryPerModel' /\ OneGenerationPerPath'
  BY <1>8 DEF IInv, DiskIsLatest, OneEntryPerModel, OneGenerationPerPath,
              Held, IdOf
<1>12. \A r \in Jobs : EntryInv(r)'
  BY <1>1, <1>8, <1>9 DEF IInv, EntryInv, Right
<1>13. \A r \in Jobs : NoteInv(r)'
  <2>1. SUFFICES ASSUME NEW r \in Jobs PROVE NoteInv(r)'
    OBVIOUS
  <2>2. CASE r = j
    BY <2>2, <1>1, <1>4, <1>8 DEF NoteInv, Right, new
  <2>3. CASE r # j
    BY <2>3, <1>4, <1>8 DEF IInv, NoteInv, Right
  <2> QED
    BY <2>2, <2>3
<1>14. \A k \in Jobs : JobInv(k)'
  <2>1. SUFFICES ASSUME NEW k \in Jobs PROVE JobInv(k)'
    OBVIOUS
  <2>2. CASE k = j
    BY <2>2, <1>7, <1>8, <1>9 DEF JobInv, JobSound, Right
  <2>3. CASE k # j
    <3>1. JobSound(job[k]) /\ job'[k] = job[k]
      BY <2>3, <1>9 DEF IInv, JobInv
    <3> QED
      BY <3>1, <1>8 DEF JobInv, JobSound, Right
  <2> QED
    BY <2>2, <2>3
<1> QED
  BY <1>10, <1>11, <1>12, <1>13, <1>14 DEF IInv

LEMMA InsertStep ==
  ASSUME IInv, NEW j \in Jobs, Insert(j)
  PROVE  IInv'
<1>1. /\ job[j].pc = "insert" /\ job[j].path \in Paths /\ job[j].id = None
      /\ job[j].ver \in States /\ job[j].bytes \in States
      /\ job[j].ver <= job[j].bytes /\ job[j].bytes <= written[job[j].path]
      /\ job[j].asked <= job[j].ver
      /\ job[j].spec \in Specs \cup {None}
      /\ job[j].phase \in PhaseIds \cup {None}
      /\ job[j].spec = None => job[j].phase = None
      /\ job[j].spec # None =>
           Right(job[j].path, job[j].ver, job[j].spec, job[j].phase)
  BY Locals DEF Insert, JobSound, JobType, Identified, PhaseKnown, States
<1>2. ASSUME NEW r \in Same(j), Answer(j, r), UNCHANGED <<place, entry>>
      PROVE  IInv'
  <2>1. /\ r \in Jobs /\ entry[r] # None
        /\ Is(entry[r], job[j].path, job[j].ver, job[j].phase)
    BY <1>2 DEF Same, Held, IInv, TypeOK
  <2> QED
    BY <1>1, <1>2, <2>1, AnswerSound, Locals, JobAlone DEF Insert, Answer
<1>3. ASSUME Same(j) = {}, entry' = [entry EXCEPT ![j] = NewEntry(j)],
             place' = ToFront(Held \ OtherSelves(j), place, j, MaxOpen),
             Answer(j, j)
      PROVE  IInv'
  <2> DEFINE new == NewEntry(j)
             rec == [job[j] EXCEPT !.pc = "answered", !.got = j]
  <2>1. /\ new \in EntryType /\ new # None
        /\ new.path = job[j].path /\ new.ver = job[j].ver
        /\ new.phase = job[j].phase /\ new.spec = job[j].spec
        /\ new.bytes = job[j].bytes
    BY <1>1, NoneAssumption DEF NewEntry, EntryType
  <2>2. entry[j] = None
    BY <1>1 DEF IInv, EntryInv
  <2>3. rec \in JobType
    BY Typed DEF JobType, Steps
  <2>4. /\ rec.pc = "answered" /\ rec.got = j
        /\ rec.path = job[j].path /\ rec.ver = job[j].ver /\ rec.id = job[j].id
        /\ rec.spec = job[j].spec /\ rec.phase = job[j].phase
        /\ rec.asked = job[j].asked
    BY Locals DEF JobType
  <2> HIDE DEF new, rec
  <2>5. /\ entry' \in [Jobs -> EntryType \cup {None}] /\ entry'[j] = new
        /\ \A q \in Jobs \ {j} : entry'[q] = entry[q]
    BY <1>3, <2>1 DEF IInv, TypeOK, new
  <2>6. /\ job' \in [Jobs -> JobType] /\ job'[j] = rec
        /\ \A k \in Jobs \ {j} : job'[k] = job[k]
    BY <1>3, <2>3 DEF Answer, Become, IInv, TypeOK, rec
  <2>7. /\ place' \in [Jobs -> Nat]
        /\ \A q \in Jobs : place'[q] > 0 =>
             q = j \/ (q \in Held /\ q \notin OtherSelves(j))
    <3>1. Held \ OtherSelves(j) \in SUBSET Jobs
      BY DEF Held
    <3> QED
      BY <1>3, <3>1, FrontMembers
  <2>8. UNCHANGED <<disk, written, noted, note>>
    BY DEF Insert
  <2>9. TypeOK'
    BY <2>1, <2>5, <2>6, <2>7, <2>8 DEF IInv, TypeOK, Held, Notes
  <2>10. DiskIsLatest'
    BY <2>8 DEF IInv, DiskIsLatest
  <2>11. \A r \in Jobs : EntryInv(r)'
    <3>1. SUFFICES ASSUME NEW r \in Jobs PROVE EntryInv(r)'
      OBVIOUS
    <3>2. CASE r = j
      BY <3>2, <1>1, <2>1, <2>4, <2>5, <2>6, <2>8 DEF EntryInv, Right
    <3>3. CASE r # j
      BY <3>3, <2>5, <2>6, <2>8 DEF IInv, EntryInv, Right
    <3> QED
      BY <3>2, <3>3
  <2>12. \A r \in Jobs : NoteInv(r)'
    BY <2>8 DEF IInv, NoteInv, Right
  <2>13. \A k \in Jobs : JobInv(k)'
    <3>1. SUFFICES ASSUME NEW k \in Jobs PROVE JobInv(k)'
      OBVIOUS
    <3>2. CASE k = j
      <4>1. /\ job'[j].pc = "answered" /\ job'[j].got = j
            /\ job'[j].id = None /\ job'[j].path = job[j].path
            /\ job'[j].spec = job[j].spec /\ job'[j].phase = job[j].phase
            /\ job'[j].asked = job[j].asked /\ job'[j].path \in Paths
        BY <1>1, <2>4, <2>6
      <4>2. /\ entry'[j] # None /\ entry'[j].path = job[j].path
            /\ entry'[j].ver = job[j].ver /\ entry'[j].phase = job[j].phase
            /\ j # None
        BY <2>1, <2>5, NoneAssumption
      <4>3. job[j].ver \in Nat /\ job[j].asked \in Nat
            /\ job[j].asked <= written'[job[j].path]
        BY <1>1, <2>8, Locals DEF JobType, JobSound, States
      <4> QED
        BY <3>2, <1>1, <4>1, <4>2, <4>3, <2>8
        DEF JobInv, JobSound, Identified, PhaseKnown, Right
    <3>3. CASE k # j
      <4>1. JobSound(job[k]) /\ job'[k] = job[k] /\ job[k] \in JobType
        BY <3>3, <2>6, Locals
      <4>2. \A q \in Jobs : entry[q] # None => entry'[q] = entry[q]
        BY <2>2, <2>5
      <4>3. job[k].got # None => job[k].got \in Jobs
        BY <4>1 DEF JobType
      <4> QED
        BY <4>1, <4>2, <4>3, <2>8 DEF JobInv, JobSound, Right
    <3> QED
      BY <3>2, <3>3
  <2>14. OneEntryPerModel'
    <3>1. SUFFICES ASSUME NEW q \in Held', NEW r \in Held',
                          IdOf(entry'[q]) = IdOf(entry'[r]), q # r
                   PROVE  FALSE
      BY DEF OneEntryPerModel, IdOf
    <3>2. ASSUME NEW x \in Held, x # j,
                 IdOf(entry[x]) = IdOf(new)
          PROVE  FALSE
      BY <3>2, <1>3, <2>1 DEF Same, Is, IdOf
    <3> QED
      BY <3>1, <3>2, <2>5, <2>7 DEF Held, IInv, OneEntryPerModel
  <2>15. OneGenerationPerPath'
    <3>1. SUFFICES ASSUME NEW q \in Held', NEW r \in Held',
                          entry'[q].path = entry'[r].path
                   PROVE  entry'[q].ver = entry'[r].ver
      BY DEF OneGenerationPerPath
    <3>2. ASSUME NEW x \in Held, x \notin OtherSelves(j),
                 entry[x].path = new.path
          PROVE  entry[x].ver = new.ver
      BY <3>2, <2>1 DEF OtherSelves
    <3> QED
      BY <3>1, <3>2, <2>5, <2>7 DEF Held, IInv, OneGenerationPerPath
  <2> QED
    BY <2>9, <2>10, <2>11, <2>12, <2>13, <2>14, <2>15 DEF IInv
<1> QED
  BY <1>2, <1>3 DEF Insert

\* A replacement makes every identity taken before it dead for good.
LEMMA ReplaceStep ==
  ASSUME IInv, NEW p \in Paths, Replace(p)
  PROVE  IInv'
<1>1. /\ written' \in [Paths -> Nat] /\ disk' \in [Paths -> Nat]
      /\ written'[p] = written[p] + 1 /\ disk'[p] = written'[p]
      /\ written'[p] <= MaxWritten
      /\ \A q \in Paths \ {p} : written'[q] = written[q] /\ disk'[q] = disk[q]
      /\ \A q \in Paths : written[q] \in Nat /\ written[q] <= written'[q]
  BY BoundAssumption DEF Replace, IInv, TypeOK
<1>2. UNCHANGED <<place, entry, noted, note, job>>
  BY DEF Replace
<1>3. ASSUME NEW q \in Paths, NEW v \in Nat, NEW s, NEW ph,
             v <= written[q], Right(q, v, s, ph)
      PROVE  Right(q, v, s, ph)'
  BY <1>1, <1>3 DEF Right
<1>4. TypeOK' /\ DiskIsLatest'
  BY <1>1, <1>2 DEF IInv, TypeOK, DiskIsLatest, Held, Notes
<1>5. \A r \in Jobs : EntryInv(r)'
  <2>1. SUFFICES ASSUME NEW r \in Jobs, entry[r] # None PROVE EntryInv(r)'
    BY <1>2 DEF EntryInv
  <2>2. /\ entry[r].path \in Paths /\ entry[r].ver \in Nat
        /\ entry[r].bytes \in Nat /\ EntryInv(r)
    BY <2>1 DEF IInv, TypeOK, EntryType, States
  <2> QED
    BY <2>1, <2>2, <1>1, <1>2 DEF EntryInv, Right
<1>6. \A r \in Jobs : NoteInv(r)'
  <2>1. SUFFICES ASSUME NEW r \in Jobs, note[r] # None PROVE NoteInv(r)'
    BY <1>2 DEF NoteInv
  <2>2. note[r].path \in Paths /\ note[r].ver \in Nat /\ NoteInv(r)
    BY <2>1 DEF IInv, TypeOK, NoteType, States
  <2> QED
    BY <2>1, <2>2, <1>1, <1>2 DEF NoteInv, Right
<1>7. \A j \in Jobs : JobInv(j)'
  <2>1. SUFFICES ASSUME NEW j \in Jobs PROVE JobInv(j)'
    OBVIOUS
  <2>2. job[j] \in JobType /\ JobSound(job[j])
    BY Locals
  <2>3. /\ job[j].ver \in Nat /\ job[j].bytes \in Nat /\ job[j].asked \in Nat
        /\ job[j].got # None => job[j].got \in Jobs
    BY <2>2 DEF JobType
  <2>4. ASSUME job[j].pc = "answered"
        PROVE  /\ entry[job[j].got].ver \in Nat
               /\ entry[job[j].got].ver <= written[job[j].path]
               /\ job[j].path \in Paths
    <3>1. /\ job[j].got \in Jobs /\ entry[job[j].got] # None
          /\ entry[job[j].got].path = job[j].path /\ job[j].path \in Paths
      BY <2>2, <2>3, <2>4 DEF JobSound
    <3>2. entry[job[j].got] \in EntryType /\ EntryInv(job[j].got)
      BY <3>1 DEF IInv, TypeOK
    <3> QED
      BY <3>1, <3>2, <1>1 DEF EntryInv, EntryType, States
  <2>5. job'[j] = job[j] /\ entry' = entry
    BY <1>2
  <2> QED
    BY <2>2, <2>3, <2>4, <2>5, <1>1
    DEF JobInv, JobSound, Right, Identified, PhaseKnown
<1>8. OneEntryPerModel' /\ OneGenerationPerPath'
  BY <1>2 DEF IInv, OneEntryPerModel, OneGenerationPerPath, Held, IdOf
<1> QED
  BY <1>4, <1>5, <1>6, <1>7, <1>8 DEF IInv

\* A step that leaves all but the disk alone, and the disk in its latest state
\* or empty, keeps the invariant.
LEMMA DiskAlone ==
  ASSUME IInv, UNCHANGED <<written, place, entry, noted, note, job>>,
         disk' \in [Paths -> Nat], \A p \in Paths : disk'[p] \in {0, disk[p]}
  PROVE  IInv'
<1>1. TypeOK' /\ DiskIsLatest'
  BY DEF IInv, TypeOK, DiskIsLatest, Held, Notes
<1>2. \A r \in Jobs : EntryInv(r)' /\ NoteInv(r)'
  BY DEF IInv, EntryInv, NoteInv, Right
<1>3. \A j \in Jobs : JobInv(j)'
  <2>1. SUFFICES ASSUME NEW j \in Jobs PROVE JobInv(j)'
    OBVIOUS
  <2>2. JobSound(job[j]) /\ job'[j] = job[j]
    BY DEF IInv, JobInv
  <2> QED
    BY <2>2 DEF JobInv, JobSound, Right
<1>4. OneEntryPerModel' /\ OneGenerationPerPath'
  BY DEF IInv, OneEntryPerModel, OneGenerationPerPath, Held, IdOf
<1> QED
  BY <1>1, <1>2, <1>3, <1>4 DEF IInv

LEMMA NextIInv == IInv /\ [Next]_vars => IInv'
<1> SUFFICES ASSUME IInv, [Next]_vars PROVE IInv'
  OBVIOUS
<1>1. ASSUME NEW j \in Jobs, NEW p \in Paths, NEW s \in Specs \cup {None},
             AskPath(j, p, s)
      PROVE  IInv'
  BY <1>1, AskPathStep
<1>2. ASSUME NEW j \in Jobs, NEW r \in Jobs, NEW s \in Specs \cup {None},
             AskId(j, r, s)
      PROVE  IInv'
  BY <1>2, AskIdStep
<1>3. ASSUME NEW j \in Jobs, JobStep(j)
      PROVE  IInv'
  BY <1>3, FindStep, VerifyStep, DropEntriesStep, DropNotesStep, CompareStep,
     RecallStep, ReadStep, RememberStep, StatStep, TouchStep, OpenFileStep,
     InsertStep DEF JobStep
<1>4. ASSUME NEW p \in Paths, Replace(p)
      PROVE  IInv'
  BY <1>4, ReplaceStep
<1>5. ASSUME NEW p \in Paths, Remove(p)
      PROVE  IInv'
  <2>1. disk' \in [Paths -> Nat] /\ \A q \in Paths : disk'[q] \in {0, disk[q]}
    BY <1>5 DEF Remove, IInv, TypeOK
  <2> QED
    BY <1>5, <2>1, DiskAlone DEF Remove
<1>6. ASSUME UNCHANGED vars
      PROVE  IInv'
  <2>1. disk' \in [Paths -> Nat] /\ \A q \in Paths : disk'[q] \in {0, disk[q]}
    BY <1>6 DEF vars, IInv, TypeOK
  <2> QED
    BY <1>6, <2>1, DiskAlone DEF vars
<1> QED
  BY <1>1, <1>2, <1>3, <1>4, <1>5, <1>6 DEF Next, Rest

-----------------------------------------------------------------------------

\* The invariant implies what the runs check of a state.
LEMMA IInvImplies ==
  IInv => /\ TypeOK /\ EntryMatchesFile /\ NoteMatchesFile
          /\ OneEntryPerModel /\ OneGenerationPerPath
          /\ NeverOlderThanAsked /\ AnsweredAtPhaseAsked
<1> SUFFICES ASSUME IInv
             PROVE  /\ TypeOK /\ EntryMatchesFile /\ NoteMatchesFile
                    /\ OneEntryPerModel /\ OneGenerationPerPath
                    /\ NeverOlderThanAsked /\ AnsweredAtPhaseAsked
  OBVIOUS
<1>1. TypeOK /\ OneEntryPerModel /\ OneGenerationPerPath
  BY DEF IInv
<1>2. EntryMatchesFile
  <2>1. SUFFICES ASSUME NEW r \in Jobs, entry[r] # None,
                        disk[entry[r].path] = entry[r].ver
                 PROVE  /\ entry[r].bytes = entry[r].ver
                        /\ entry[r].spec # None =>
                             PhaseOf(entry[r].path, entry[r].bytes,
                                     entry[r].spec) = entry[r].phase
    BY DEF EntryMatchesFile
  <2>2. entry[r] \in EntryType /\ EntryInv(r)
    BY <2>1 DEF IInv, TypeOK
  <2>3. /\ entry[r].path \in Paths /\ entry[r].ver \in Nat \ {0}
        /\ entry[r].bytes \in Nat
    BY <2>2 DEF EntryType, States
  <2>4. written[entry[r].path] = entry[r].ver
    BY <2>1, <2>3 DEF IInv, DiskIsLatest
  <2> QED
    BY <2>1, <2>2, <2>3, <2>4 DEF EntryInv, Right
<1>3. NoteMatchesFile
  <2>1. SUFFICES ASSUME NEW r \in Notes, disk[note[r].path] = note[r].ver
                 PROVE  note[r].phase =
                          PhaseOf(note[r].path, note[r].ver, note[r].spec)
    BY DEF NoteMatchesFile
  <2>2. r \in Jobs /\ note[r] # None /\ note[r] \in NoteType /\ NoteInv(r)
    BY <2>1 DEF Notes, IInv, TypeOK
  <2>3. note[r].path \in Paths /\ note[r].ver \in Nat \ {0}
    BY <2>2 DEF NoteType, States
  <2>4. written[note[r].path] = note[r].ver
    BY <2>1, <2>3 DEF IInv, DiskIsLatest
  <2> QED
    BY <2>2, <2>4 DEF NoteInv, Right
<1>4. ASSUME NEW j \in Jobs, job[j].pc = "answered"
      PROVE  /\ job[j].got \in Jobs /\ JobSound(job[j])
             /\ entry[job[j].got] \in EntryType
             /\ EntryInv(job[j].got) /\ entry[job[j].got] # None
  BY <1>4, Locals DEF JobSound, JobType, IInv, TypeOK
<1>5. NeverOlderThanAsked
  BY <1>4 DEF NeverOlderThanAsked, JobSound, EntryInv
<1>6. AnsweredAtPhaseAsked
  <2>1. SUFFICES ASSUME NEW j \in Jobs, job[j].pc = "answered"
                 PROVE  LET e == entry[job[j].got]
                        IN  /\ job[j].id # None => IdOf(e) = job[j].id
                            /\ job[j].spec # None /\ disk[e.path] = e.ver =>
                                 e.phase = PhaseOf(e.path, e.bytes, job[j].spec)
                            /\ job[j].spec = None /\ job[j].id = None =>
                                 e.phase = None
    BY DEF AnsweredAtPhaseAsked
  <2> DEFINE e == entry[job[j].got]
  <2>2. /\ e \in EntryType /\ JobSound(job[j]) /\ e # None
        /\ e.path = job[j].path /\ job[j].got \in Jobs
    BY <1>4, <2>1 DEF JobSound
  <2>3. ASSUME disk[e.path] = e.ver
        PROVE  written[e.path] = e.ver /\ e.bytes = e.ver
    <3>1. e.path \in Paths /\ e.ver \in Nat \ {0}
      BY <2>2 DEF EntryType, States
    <3> QED
      BY <2>2, <2>3, <3>1, <1>2 DEF IInv, DiskIsLatest, EntryMatchesFile
  <2> QED
    BY <2>1, <2>2, <2>3 DEF JobSound, Right
<1> QED
  BY <1>1, <1>2, <1>3, <1>5, <1>6

\* The inductive invariant holds of every reachable state.
THEOREM Invariance == Spec => []IInv
<1>1. Init => IInv
  BY InitIInv
<1>2. IInv /\ [Next]_vars => IInv'
  BY NextIInv
<1> QED
  BY <1>1, <1>2, PTL DEF Spec

\* The variables keep their types: what a vector names exists.
THEOREM TypeCorrect == Spec => []TypeOK
BY Invariance, IInvImplies, PTL

\* A handle whose identity is still the file's was read from that file and stands
\* at the phase it is keyed by, and a remembered resolution of a file that has
\* not changed is right.
THEOREM HeldIsTrue == Spec => []StoreIsTrue
BY Invariance, IInvImplies, PTL DEF StoreIsTrue

\* An answer is never older than the request.
THEOREM AnswersAreFresh == Spec => []NeverOlderThanAsked
BY Invariance, IInvImplies, PTL

\* An answer is the model and at the phase the request named.
THEOREM AnswersAreAtPhase == Spec => []AnsweredAtPhaseAsked
BY Invariance, IInvImplies, PTL

-----------------------------------------------------------------------------
(* The line of models *)

\* Each member of H has a key of its own.
Keyed(H, key) ==
  /\ \A r \in H : key[r] \in Nat
  /\ \A q, r \in H : key[q] = key[r] => q = r

\* The position of r among the members of H in the order of their keys, and the
\* member at a position.
Rank(H, key, r) == Cardinality({q \in H : key[q] <= key[r]})
At(H, key, n) == CHOOSE r \in H : Rank(H, key, r) = n

\* The positions of the entries held are 1, 2, ... without a gap.
InLine ==
  /\ Cardinality(Held) <= MaxOpen
  /\ \A r \in Held : place[r] <= Cardinality(Held)
  /\ \A q, r \in Held : place[q] = place[r] => q = r
  /\ \A n \in 1 .. Cardinality(Held) : \E r \in Held : place[r] = n

\* The models of the entries of H in the order of their keys.
Models(H, key) == [n \in 1 .. Cardinality(H) |-> IdOf(entry[At(H, key, n)])]

\* The members of a set in the order of their keys have the positions from 1 to
\* its size, each one of its own.
LEMMA Ranks ==
  ASSUME NEW H, IsFiniteSet(H), NEW key, Keyed(H, key)
  PROVE  /\ Cardinality(H) \in Nat
         /\ \A r \in H : Rank(H, key, r) \in 1 .. Cardinality(H)
         /\ \A q, r \in H : Rank(H, key, q) = Rank(H, key, r) => q = r
         /\ \A n \in 1 .. Cardinality(H) :
              At(H, key, n) \in H /\ Rank(H, key, At(H, key, n)) = n
<1> DEFINE UpTo(r) == {q \in H : key[q] <= key[r]}
<1>1. \A r \in H : /\ IsFiniteSet(UpTo(r)) /\ Cardinality(UpTo(r)) \in Nat
                   /\ Cardinality(UpTo(r)) <= Cardinality(H)
                   /\ Rank(H, key, r) = Cardinality(UpTo(r))
  BY FS_Subset, FS_CardinalityType DEF Rank
<1>2. Cardinality(H) \in Nat
  BY FS_CardinalityType
<1>3. ASSUME NEW r \in H PROVE Rank(H, key, r) \in 1 .. Cardinality(H)
  <2>1. r \in UpTo(r)
    BY DEF Keyed
  <2>2. Cardinality(UpTo(r)) # 0
    BY <1>1, <2>1, FS_EmptySet
  <2> QED
    BY <1>1, <1>2, <2>2
<1>4. ASSUME NEW q \in H, NEW r \in H, key[q] < key[r]
      PROVE  Rank(H, key, q) # Rank(H, key, r)
  <2>1. UpTo(q) \in SUBSET UpTo(r)
    BY <1>4 DEF Keyed
  <2>2. r \in UpTo(r) /\ r \notin UpTo(q)
    BY <1>4 DEF Keyed
  <2> QED
    BY <1>1, <2>1, <2>2, FS_Subset
<1>5. \A q, r \in H : Rank(H, key, q) = Rank(H, key, r) => q = r
  BY <1>4 DEF Keyed
<1>6. \A n \in 1 .. Cardinality(H) : \E r \in H : Rank(H, key, r) = n
  <2> DEFINE T == 1 .. Cardinality(H)
             f == [r \in H |-> Rank(H, key, r)]
  <2>1. f \in Injection(H, T)
    BY <1>3, <1>5 DEF Injection, IsInjective
  <2>2. IsFiniteSet(T) /\ Cardinality(T) = Cardinality(H)
    BY <1>2, FS_Interval
  <2> HIDE DEF T, f
  <2>3. f \in Surjection(H, T)
    BY <2>1, <2>2, FS_Injection
  <2> QED
    BY <2>3 DEF Surjection, f, T
<1> QED
  BY <1>2, <1>3, <1>5, <1>6 DEF At

\* The keys of the members are as many as the members.
LEMMA KeyCount ==
  ASSUME NEW H, IsFiniteSet(H), NEW key, Keyed(H, key)
  PROVE  Cardinality({key[r] : r \in H}) = Cardinality(H)
<1> DEFINE T == {key[r] : r \in H}
           f == [r \in H |-> key[r]]
<1>1. f \in Bijection(H, T)
  BY DEF Bijection, Injection, IsInjective, Surjection, Keyed
<1> QED
  BY <1>1, FS_Bijection DEF ExistsBijection

\* The keys with r's made the least.
Leading(key, r) == [key EXCEPT ![r] = 0]

\* With r put before the others, they are one further on.
LEMMA FrontRanks ==
  ASSUME NEW H \in SUBSET Jobs, IsFiniteSet(H), NEW key \in [Jobs -> Nat],
         Keyed(H, key), NEW r \in Jobs, r \notin H, \A q \in H : key[q] > 0
  PROVE  /\ Keyed(H \cup {r}, Leading(key, r))
         /\ Cardinality(H \cup {r}) = Cardinality(H) + 1
         /\ At(H \cup {r}, Leading(key, r), 1) = r
         /\ \A n \in 1 .. Cardinality(H) :
              At(H \cup {r}, Leading(key, r), n + 1) = At(H, key, n)
<1> DEFINE all == H \cup {r}
           front == Leading(key, r)
<1>1. IsFiniteSet(all) /\ Cardinality(all) = Cardinality(H) + 1
  BY FS_AddElement
<1>2. front[r] = 0 /\ \A q \in H : front[q] = key[q] /\ front[q] \in Nat \ {0}
  BY DEF Leading
<1> HIDE DEF front
<1>3. Keyed(all, front)
  BY <1>2 DEF Keyed
<1>4. Rank(all, front, r) = 1
  <2>1. {q \in all : front[q] <= front[r]} = {r}
    BY <1>2
  <2> QED
    BY <2>1, FS_Singleton DEF Rank
<1>5. ASSUME NEW x \in H PROVE Rank(all, front, x) = Rank(H, key, x) + 1
  <2> DEFINE S == {q \in H : key[q] <= key[x]}
  <2>1. {q \in all : front[q] <= front[x]} = S \cup {r}
    BY <1>2
  <2>2. IsFiniteSet(S) /\ r \notin S
    BY FS_Subset
  <2>3. Cardinality(S \cup {r}) = Cardinality(S) + 1
    BY <2>2, FS_AddElement
  <2> QED
    BY <2>1, <2>3 DEF Rank
<1>6. Cardinality(H) \in Nat
  BY FS_CardinalityType
<1>7. At(all, front, 1) = r
  <2>1. At(all, front, 1) \in all /\ Rank(all, front, At(all, front, 1)) = 1
    BY <1>1, <1>3, <1>6, Ranks
  <2> QED
    BY <2>1, <1>1, <1>3, <1>4, Ranks
<1>8. ASSUME NEW n \in 1 .. Cardinality(H)
      PROVE  At(all, front, n + 1) = At(H, key, n)
  <2>1. At(H, key, n) \in H /\ Rank(H, key, At(H, key, n)) = n
    BY Ranks
  <2>2. Rank(all, front, At(H, key, n)) = n + 1
    BY <1>5, <2>1
  <2>3. n + 1 \in 1 .. Cardinality(all)
    BY <1>1, <1>6
  <2>4. /\ At(all, front, n + 1) \in all
        /\ Rank(all, front, At(all, front, n + 1)) = n + 1
    BY <1>1, <1>3, <2>3, Ranks
  <2> QED
    BY <1>1, <1>3, <2>1, <2>2, <2>4, Ranks
<1> QED
  BY <1>1, <1>3, <1>7, <1>8 DEF front

\* LruModels counts as this module does.
LEMMA SameCount == \A S : Lru!Cardinality(S) = Cardinality(S)
BY DEF Cardinality, Lru!Cardinality, IsFiniteSet, Lru!IsFiniteSet

\* The positions in the line are keys of the entries held.
LEMMA HeldKeyed ==
  ASSUME TypeOK, InLine
  PROVE  /\ IsFiniteSet(Held) /\ Cardinality(Held) \in Nat
         /\ Keyed(Held, place)
         /\ \A r \in Held : place[r] \in 1 .. Cardinality(Held)
<1>1. Held \in SUBSET Jobs
  BY DEF Held
<1>2. IsFiniteSet(Held) /\ Cardinality(Held) \in Nat
  BY <1>1, JobsAssumption, FS_Subset, FS_CardinalityType
<1>3. \A r \in Held : place[r] \in Nat \ {0}
  BY DEF TypeOK, Held
<1> QED
  BY <1>2, <1>3 DEF Keyed, InLine

\* The line is of the models of the entries held, each at its position.
LEMMA LineIs ==
  ASSUME TypeOK, InLine
  PROVE  /\ Len(Line) = Cardinality(Held)
         /\ \A r \in Held : Line[place[r]] = IdOf(entry[r])
         /\ \A n \in 1 .. Cardinality(Held) :
              \E r \in Held : place[r] = n
<1>1. \A r \in Held : place[r] \in 1 .. Cardinality(Held)
  BY HeldKeyed
<1>2. Len(Line) = Cardinality(Held)
  BY HeldKeyed DEF Line
<1>3. ASSUME NEW r \in Held PROVE Line[place[r]] = IdOf(entry[r])
  <2>1. (CHOOSE q \in Held : place[q] = place[r]) = r
    BY DEF InLine
  <2> QED
    BY <1>1, <2>1 DEF Line
<1> QED
  BY <1>2, <1>3 DEF InLine

\* What is kept of the line is the line of the entries whose models are kept.
LEMMA KeptIs ==
  ASSUME TypeOK, InLine, NEW G \in SUBSET Held, NEW K,
         \A r \in Held : r \in G <=> IdOf(entry[r]) \in K
  PROVE  Lru!Kept(Line, K) = Models(G, place)
<1> DEFINE at == {i \in 1 .. Len(Line) : Line[i] \in K}
<1>1. IsFiniteSet(G) /\ Keyed(G, place) /\ Cardinality(G) \in Nat
  BY HeldKeyed, FS_Subset, FS_CardinalityType DEF Keyed
<1>2. at = {place[r] : r \in G}
  BY LineIs, HeldKeyed
<1>3. Cardinality(at) = Cardinality(G)
  BY <1>1, <1>2, KeyCount
<1>4. ASSUME NEW r \in G
      PROVE  Cardinality({h \in at : h <= place[r]}) = Rank(G, place, r)
  <2> DEFINE S == {q \in G : place[q] <= place[r]}
  <2>1. {h \in at : h <= place[r]} = {place[q] : q \in S}
    BY <1>2
  <2>2. IsFiniteSet(S) /\ Keyed(S, place)
    BY <1>1, FS_Subset DEF Keyed
  <2> QED
    BY <2>1, <2>2, KeyCount DEF Rank
<1>5. ASSUME NEW n \in 1 .. Cardinality(G)
      PROVE  Line[CHOOSE i \in at : Cardinality({h \in at : h <= i}) = n]
               = IdOf(entry[At(G, place, n)])
  <2> DEFINE r == At(G, place, n)
             i == CHOOSE i \in at : Cardinality({h \in at : h <= i}) = n
  <2>1. r \in G /\ Rank(G, place, r) = n
    BY <1>1, Ranks
  <2>2. place[r] \in at /\ Cardinality({h \in at : h <= place[r]}) = n
    BY <2>1, <1>2, <1>4
  <2>3. i \in at /\ Cardinality({h \in at : h <= i}) = n
    BY <2>2
  <2> HIDE DEF r, i
  <2>4. PICK q \in G : i = place[q]
    BY <2>3, <1>2
  <2>5. q = r
    BY <2>1, <2>3, <2>4, <1>1, <1>4, Ranks
  <2>6. Line[place[r]] = IdOf(entry[r])
    BY <2>1, LineIs
  <2> QED
    BY <2>4, <2>5, <2>6 DEF r, i
<1> HIDE DEF at
<1> QED
  BY <1>3, <1>5, SameCount DEF Lru!Kept, Models, at

\* A vector made of H in the order of keys is in line: it holds those with the
\* first positions, as many as there is room for.
LEMMA VectorLine ==
  ASSUME NEW H \in SUBSET Jobs, NEW key, Keyed(H, key),
         place' = Vector(H, key, MaxOpen)
  PROVE  /\ InLine'
         /\ Line' = [m \in 1 .. IF Cardinality(H) <= MaxOpen
                                  THEN Cardinality(H) ELSE MaxOpen |->
                       IdOf(entry'[At(H, key, m)])]
<1> DEFINE n == IF Cardinality(H) <= MaxOpen THEN Cardinality(H) ELSE MaxOpen
           f == [r \in Held' |-> place'[r]]
<1>1. IsFiniteSet(H) /\ Cardinality(H) \in Nat /\ n \in Nat
  BY JobsAssumption, SizeAssumption, FS_Subset, FS_CardinalityType
<1>2. \A r \in Jobs : place'[r] = IF r \in H /\ Rank(H, key, r) <= MaxOpen
                                    THEN Rank(H, key, r) ELSE 0
  BY DEF Vector, Rank
<1>3. \A r \in H : Rank(H, key, r) \in 1 .. Cardinality(H)
  BY <1>1, Ranks
<1>4. \A r : r \in Held' <=> r \in H /\ Rank(H, key, r) <= n
  BY <1>1, <1>2, <1>3, SizeAssumption DEF Held
<1>5. \A r \in Held' : r \in H /\ place'[r] = Rank(H, key, r) /\ place'[r] \in 1 .. n
  BY <1>1, <1>2, <1>3, <1>4, SizeAssumption
<1>6. \A m \in 1 .. n : /\ At(H, key, m) \in Held'
                        /\ place'[At(H, key, m)] = m
  BY <1>1, <1>4, <1>5, Ranks
<1>7. \A q, r \in Held' : place'[q] = place'[r] => q = r
  BY <1>1, <1>5, Ranks
<1>8. Cardinality(Held') = n
  <2>1. f \in Bijection(Held', 1 .. n)
    BY <1>5, <1>6, <1>7 DEF Bijection, Injection, IsInjective, Surjection
  <2>2. IsFiniteSet(Held')
    BY <1>1, <1>4, FS_Subset
  <2>3. Cardinality(1 .. n) = n
    BY <1>1, FS_Interval
  <2> QED
    BY <2>1, <2>2, <2>3, FS_Bijection DEF ExistsBijection
<1>9. InLine'
  BY <1>1, <1>5, <1>6, <1>7, <1>8, SizeAssumption DEF InLine
<1>10. \A m \in 1 .. n : (CHOOSE r \in Held' : place'[r] = m) = At(H, key, m)
  BY <1>6, <1>7
<1>11. Line' = [m \in 1 .. n |-> IdOf(entry'[At(H, key, m)])]
  BY <1>8, <1>10 DEF Line, IdOf
<1> QED
  BY <1>1, <1>9, <1>11

ModelKeys == [path : Paths, ver : 1 .. MaxWritten, phase : PhaseIds \cup {None}]

\* An entry's model is one there can be: its state is one the file has had.
LEMMA EntryKeys ==
  ASSUME IInv
  PROVE  /\ TypeOK /\ OneEntryPerModel
         /\ \A r \in Jobs : entry[r] # None => IdOf(entry[r]) \in ModelKeys
         /\ \A r \in Held : r \in Jobs /\ IdOf(entry[r]) \in ModelKeys
<1>1. ASSUME NEW r \in Jobs, entry[r] # None PROVE IdOf(entry[r]) \in ModelKeys
  <2>1. entry[r] \in EntryType /\ EntryInv(r)
    BY <1>1 DEF IInv, TypeOK
  <2>2. /\ entry[r].path \in Paths /\ written[entry[r].path] \in Nat
        /\ written[entry[r].path] <= MaxWritten
    BY <2>1 DEF EntryType, IInv, TypeOK, DiskIsLatest
  <2>3. entry[r].ver \in 1 .. MaxWritten
    BY <1>1, <2>1, <2>2, BoundAssumption DEF EntryType, EntryInv, States
  <2> QED
    BY <2>1, <2>3 DEF IdOf, ModelKeys, EntryType
<1> QED
  BY <1>1 DEF IInv, TypeOK, Held

\* An entry put before those of G that stay: its model goes first.
LEMMA FrontLine ==
  ASSUME TypeOK, InLine, NEW G \in SUBSET Held, NEW r \in Jobs, r \notin G,
         place' = Vector(G \cup {r}, [place EXCEPT ![r] = 0], MaxOpen),
         \A q \in G : entry'[q] = entry[q]
  PROVE  InLine' /\ Line' = Lru!First(IdOf(entry'[r]), Models(G, place))
<1> DEFINE all == G \cup {r}
           front == Leading(place, r)
           n == IF Cardinality(all) <= MaxOpen THEN Cardinality(all) ELSE MaxOpen
<1>1. G \in SUBSET Jobs /\ all \in SUBSET Jobs
  BY DEF Held
<1>2. IsFiniteSet(G) /\ Keyed(G, place) /\ Cardinality(G) \in Nat
  BY HeldKeyed, FS_Subset, FS_CardinalityType DEF Keyed
<1>3. /\ Keyed(all, front) /\ Cardinality(all) = Cardinality(G) + 1
      /\ At(all, front, 1) = r
      /\ \A m \in 1 .. Cardinality(G) : At(all, front, m + 1) = At(G, place, m)
  <2>1. place \in [Jobs -> Nat] /\ \A q \in G : place[q] > 0
    BY DEF TypeOK, Held
  <2> QED
    BY <1>1, <1>2, <2>1, FrontRanks
<1> HIDE DEF front
<1>4. InLine' /\ Line' = [m \in 1 .. n |-> IdOf(entry'[At(all, front, m)])]
  BY <1>1, <1>3, VectorLine DEF front, Leading
<1>5. \A m \in 1 .. Cardinality(G) : At(G, place, m) \in G
  BY <1>2, Ranks
<1>6. /\ Len(Models(G, place)) = Cardinality(G)
      /\ \A m \in 1 .. Cardinality(G) :
           Models(G, place)[m] = IdOf(entry'[At(G, place, m)])
  BY <1>2, <1>5 DEF Models
<1>7. n = IF Cardinality(G) < MaxOpen THEN Cardinality(G) + 1 ELSE MaxOpen
  BY <1>2, <1>3, SizeAssumption
<1>8. ASSUME NEW m \in 1 .. n
      PROVE  IdOf(entry'[At(all, front, m)]) =
               IF m = 1 THEN IdOf(entry'[r]) ELSE Models(G, place)[m - 1]
  <2>1. CASE m = 1
    BY <2>1, <1>3
  <2>2. CASE m # 1
    <3>1. m - 1 \in 1 .. Cardinality(G) /\ (m - 1) + 1 = m
      BY <2>2, <1>2, <1>7, SizeAssumption
    <3> QED
      BY <2>2, <3>1, <1>3, <1>6
  <2> QED
    BY <2>1, <2>2
<1> HIDE DEF n, all
<1> QED
  BY <1>4, <1>6, <1>7, <1>8 DEF Lru!First

\* An entry that is held moves to the front: its model is used.
LEMMA UseLine ==
  ASSUME IInv, InLine, NEW r \in Held, entry' = entry,
         place' = ToFront(Held, place, r, MaxOpen)
  PROVE  InLine' /\ [Lru!Next]_Line
<1> DEFINE k == IdOf(entry[r])
           G == Held \ {r}
<1>1. /\ TypeOK /\ OneEntryPerModel /\ k \in ModelKeys /\ r \in Jobs
      /\ \A q \in Held : IdOf(entry[q]) \in ModelKeys
  BY EntryKeys
<1>2. \A q \in Held : q \in G <=> IdOf(entry[q]) \in ModelKeys \ {k}
  BY <1>1 DEF OneEntryPerModel
<1>3. place' = Vector(G \cup {r}, [place EXCEPT ![r] = 0], MaxOpen)
  <2>1. G \cup {r} = Held \cup {r}
    OBVIOUS
  <2> QED
    BY <2>1 DEF ToFront
<1>4. InLine' /\ Line' = Lru!First(k, Models(G, place))
  BY <1>1, <1>3, FrontLine
<1>5. Lru!Kept(Line, ModelKeys \ {k}) = Models(G, place)
  BY <1>1, <1>2, KeptIs
<1>6. Lru!Contains(k)
  <2>1. place[r] \in 1 .. Len(Line) /\ Line[place[r]] = k
    BY <1>1, HeldKeyed, LineIs
  <2> QED
    BY <2>1 DEF Lru!Contains
<1>7. Lru!Use(k)
  BY <1>4, <1>5, <1>6 DEF Lru!Use, ModelKeys
<1> QED
  BY <1>1, <1>4, <1>7 DEF Lru!Next, ModelKeys

\* A new entry goes first, in place of the entries of its path in another state.
LEMMA AddLine ==
  ASSUME IInv, InLine, NEW j \in Jobs, j \notin Held, Same(j) = {},
         entry' = [entry EXCEPT ![j] = NewEntry(j)], IdOf(NewEntry(j)) \in ModelKeys,
         place' = ToFront(Held \ OtherSelves(j), place, j, MaxOpen)
  PROVE  InLine' /\ [Lru!Next]_Line
<1> DEFINE k == IdOf(NewEntry(j))
           G == Held \ OtherSelves(j)
           K == {m \in ModelKeys : m.path # k.path \/ m.ver = k.ver}
<1>1. /\ TypeOK
      /\ \A q \in Held : q \in Jobs /\ IdOf(entry[q]) \in ModelKeys
  BY EntryKeys
<1>2. k = [path |-> job[j].path, ver |-> job[j].ver, phase |-> job[j].phase]
  BY DEF IdOf, NewEntry
<1>3. \A q \in Held : q \in G <=> IdOf(entry[q]) \in K
  BY <1>1, <1>2 DEF OtherSelves, IdOf
<1>4. \A q \in G : entry'[q] = entry[q]
  BY <1>1 DEF TypeOK
<1>5. entry'[j] = NewEntry(j)
  BY <1>1 DEF TypeOK
<1>6. InLine' /\ Line' = Lru!First(k, Models(G, place))
  BY <1>1, <1>4, <1>5, FrontLine DEF ToFront
<1>7. Lru!Kept(Line, K) = Models(G, place)
  BY <1>1, <1>3, KeptIs
<1>8. ~Lru!Contains(k)
  <2>1. ASSUME NEW n \in 1 .. Len(Line) PROVE Line[n] # k
    <3>1. PICK q \in Held : n = place[q]
      BY <1>1, LineIs
    <3>2. Line[n] = IdOf(entry[q])
      BY <3>1, <1>1, LineIs
    <3> QED
      BY <3>2, <1>2 DEF Same, Is, IdOf
  <2> QED
    BY <2>1 DEF Lru!Contains
<1>9. Lru!Add(k)
  BY <1>6, <1>7, <1>8 DEF Lru!Add, ModelKeys
<1> QED
  BY <1>6, <1>9 DEF Lru!Next, ModelKeys

\* The entries of a state of a file go: its models are forgotten.
LEMMA ForgetLine ==
  ASSUME IInv, InLine, NEW k \in ModelKeys, entry' = entry,
         place' = Vector({r \in Held : entry[r].path # k.path \/ entry[r].ver # k.ver},
                         place, MaxOpen)
  PROVE  InLine' /\ [Lru!Next]_Line
<1> DEFINE G == {r \in Held : entry[r].path # k.path \/ entry[r].ver # k.ver}
           K == {m \in ModelKeys : m.path # k.path \/ m.ver # k.ver}
<1>1. /\ TypeOK
      /\ \A q \in Held : q \in Jobs /\ IdOf(entry[q]) \in ModelKeys
  BY EntryKeys
<1>2. /\ IsFiniteSet(G) /\ Keyed(G, place) /\ Cardinality(G) \in Nat
      /\ Cardinality(G) <= MaxOpen
  BY <1>1, HeldKeyed, FS_Subset, FS_CardinalityType, SizeAssumption
  DEF Keyed, InLine
<1>3. InLine' /\ Line' = Models(G, place)
  <2>1. place' = Vector(G, place, MaxOpen) /\ G \in SUBSET Jobs
    BY <1>1
  <2> HIDE DEF G
  <2> QED
    BY <1>2, <2>1, VectorLine DEF Models
<1>4. \A q \in Held : q \in G <=> IdOf(entry[q]) \in K
  BY <1>1 DEF IdOf
<1>5. Lru!Kept(Line, K) = Models(G, place)
  BY <1>1, <1>4, KeptIs
<1>6. Lru!Forget(k)
  BY <1>3, <1>5 DEF Lru!Forget, ModelKeys
<1> QED
  BY <1>3, <1>6 DEF Lru!Next, ModelKeys

\* The store begins with an empty line.
LEMMA InitLine == Init => InLine /\ Lru!Init
<1> SUFFICES ASSUME Init PROVE InLine /\ Lru!Init
  OBVIOUS
<1>1. Held = {} /\ Cardinality(Held) = 0
  BY FS_EmptySet DEF Init, Held
<1>2. Line = <<>>
  BY <1>1 DEF Line
<1> QED
  BY <1>1, <1>2, SizeAssumption DEF InLine, Lru!Init

\* Each step of the store is one of the cache, or leaves the line alone.
LEMMA StepLine == IInv /\ InLine /\ [Next]_vars => InLine' /\ [Lru!Next]_Line
<1> SUFFICES ASSUME IInv, InLine, [Next]_vars PROVE InLine' /\ [Lru!Next]_Line
  OBVIOUS
<1>1. ASSUME UNCHANGED <<place, entry>> PROVE InLine' /\ [Lru!Next]_Line
  <2>1. Held' = Held /\ Line' = Line
    BY <1>1 DEF Held, Line, IdOf
  <2> QED
    BY <1>1, <2>1 DEF InLine
<1>2. ASSUME NEW j \in Jobs, Find(j) PROVE InLine' /\ [Lru!Next]_Line
  BY <1>1, <1>2, UseLine DEF Find
<1>3. ASSUME NEW j \in Jobs, Touch(j) PROVE InLine' /\ [Lru!Next]_Line
  BY <1>1, <1>3, UseLine DEF Touch, Same
<1>4. ASSUME NEW j \in Jobs, DropEntries(j) PROVE InLine' /\ [Lru!Next]_Line
  <2>1. /\ job[j].got \in Jobs /\ entry[job[j].got] # None
        /\ entry[job[j].got].path = job[j].path
        /\ entry[job[j].got].ver = job[j].ver
    BY <1>4, Locals DEF DropEntries, JobSound, JobType, Identified
  <2> DEFINE k == IdOf(entry[job[j].got])
  <2>2. k \in ModelKeys /\ k.path = job[j].path /\ k.ver = job[j].ver
    BY <2>1, EntryKeys DEF IdOf
  <2> HIDE DEF k
  <2> QED
    BY <1>4, <2>2, ForgetLine DEF DropEntries
<1>5. ASSUME NEW j \in Jobs, Insert(j) PROVE InLine' /\ [Lru!Next]_Line
  <2>1. CASE UNCHANGED <<place, entry>>
    BY <1>1, <2>1
  <2>2. CASE /\ Same(j) = {} /\ entry' = [entry EXCEPT ![j] = NewEntry(j)]
             /\ place' = ToFront(Held \ OtherSelves(j), place, j, MaxOpen)
    <3>1. j \notin Held
      BY <1>5 DEF Insert, IInv, TypeOK, EntryInv
    <3>2. /\ job[j].path \in Paths /\ job[j].phase \in PhaseIds \cup {None}
          /\ job[j].ver \in Nat \ {0} /\ job[j].ver <= written[job[j].path]
      BY <1>5, Locals DEF Insert, JobSound, JobType, Identified
    <3>3. written[job[j].path] \in Nat /\ written[job[j].path] <= MaxWritten
      BY <3>2 DEF IInv, TypeOK, DiskIsLatest
    <3>4. IdOf(NewEntry(j)) \in ModelKeys
      BY <3>2, <3>3, BoundAssumption DEF IdOf, NewEntry, ModelKeys
    <3> QED
      BY <2>2, <3>1, <3>4, AddLine
  <2> QED
    BY <1>5, <2>1, <2>2 DEF Insert
<1>6. ASSUME NEW j \in Jobs, JobStep(j) PROVE InLine' /\ [Lru!Next]_Line
  BY <1>1, <1>2, <1>3, <1>4, <1>5, <1>6
  DEF JobStep, Verify, DropNotes, Compare, Recall, Read, Remember, Stat, OpenFile
<1> QED
  BY <1>1, <1>6 DEF Next, AskPath, AskId, Replace, Remove, Rest, vars

\* The store is an atomic cache of distinct models in the order of their use, of
\* bounded size and of one state of each file (entries, store.rs).
THEOREM StoreIsLru == Spec => RefinesLru
<1>1. Init => InLine /\ Lru!Init
  BY InitLine
<1>2. IInv /\ InLine /\ [Next]_vars => InLine' /\ [Lru!Next]_Line
  BY StepLine
<1> QED
  BY <1>1, <1>2, Invariance, PTL DEF Spec, RefinesLru, Lru!Spec

-----------------------------------------------------------------------------

\* A vector gives each member of its own a position within its length.
LEMMA VectorPositions ==
  ASSUME NEW H \in SUBSET Jobs, NEW key, Keyed(H, key), NEW n \in Nat,
         NEW v, v = Vector(H, key, n), NEW F, F = {r \in Jobs : v[r] > 0}
  PROVE  /\ Keyed(F, v) /\ F \subseteq H
         /\ IsFiniteSet(F) /\ Cardinality(F) <= n
<1> DEFINE f == [r \in F |-> v[r]]
<1>1. IsFiniteSet(H) /\ IsFiniteSet(F)
  BY JobsAssumption, FS_Subset
<1>2. \A r \in H : Rank(H, key, r) \in 1 .. Cardinality(H)
  BY <1>1, Ranks
<1>3. \A r \in Jobs : v[r] = IF r \in H /\ Rank(H, key, r) <= n
                                THEN Rank(H, key, r) ELSE 0
  BY DEF Vector, Rank
<1>4. Cardinality(H) \in Nat
  BY <1>1, Ranks
<1>5. \A r \in F : r \in H /\ v[r] = Rank(H, key, r) /\ v[r] \in 1 .. n
  BY <1>2, <1>3, <1>4
<1>6. Keyed(F, v)
  BY <1>1, <1>5, Ranks DEF Keyed
<1>7. Cardinality(F) <= n
  <2>1. f \in Injection(F, 1 .. n)
    BY <1>5, <1>6 DEF Injection, IsInjective, Keyed
  <2>2. IsFiniteSet(1 .. n) /\ Cardinality(1 .. n) = n
    BY FS_Interval
  <2> QED
    BY <2>1, <2>2, FS_Injection
<1> QED
  BY <1>1, <1>5, <1>6, <1>7

\* What `phases` holds: resolutions at positions of their own, as many as there
\* is room for.
NotesInv ==
  /\ Keyed(Notes, noted)
  /\ Cardinality(Notes) <= PhaseMemory
  /\ OneNotePerSpelling

LEMMA NotesStep ==
  ASSUME IInv, NEW H \in SUBSET Jobs, NEW key, Keyed(H, key),
         noted' = Vector(H, key, PhaseMemory),
         \A q, r \in H :
           /\ note'[q].path = note'[r].path /\ note'[q].ver = note'[r].ver
           /\ note'[q].spec = note'[r].spec
           => q = r
  PROVE  NotesInv'
<1>1. Notes' = {r \in Jobs : noted'[r] > 0}
  BY DEF Notes
<1>2. /\ Keyed(Notes', noted') /\ Notes' \subseteq H
      /\ Cardinality(Notes') <= PhaseMemory
  BY <1>1, VectorPositions, SizeAssumption
<1>3. OneNotePerSpelling'
  BY <1>2 DEF OneNotePerSpelling
<1> QED
  BY <1>2, <1>3 DEF NotesInv, Keyed

LEMMA InitNotes == Init => NotesInv
<1> SUFFICES ASSUME Init PROVE NotesInv
  OBVIOUS
<1>1. Notes = {} /\ Cardinality(Notes) = 0
  BY FS_EmptySet DEF Init, Notes
<1> QED
  BY <1>1, SizeAssumption DEF NotesInv, Keyed, OneNotePerSpelling

LEMMA NextNotes == IInv /\ NotesInv /\ [Next]_vars => NotesInv'
<1> SUFFICES ASSUME IInv, NotesInv, [Next]_vars PROVE NotesInv'
  OBVIOUS
<1>1. ASSUME UNCHANGED <<noted, note>> PROVE NotesInv'
  BY <1>1 DEF NotesInv, Notes, Keyed, OneNotePerSpelling
<1>2. ASSUME NEW j \in Jobs, DropNotes(j) PROVE NotesInv'
  <2> DEFINE H == {r \in Notes : \/ note[r].path # job[j].path
                                 \/ note[r].ver # job[j].ver}
  <2>1. H \in SUBSET Jobs /\ Keyed(H, noted)
    BY DEF NotesInv, Notes, Keyed
  <2>2. noted' = Vector(H, noted, PhaseMemory) /\ note' = note
    BY <1>2 DEF DropNotes
  <2>3. \A q, r \in H : /\ note[q].path = note[r].path /\ note[q].ver = note[r].ver
                         /\ note[q].spec = note[r].spec
                         => q = r
    BY DEF NotesInv, OneNotePerSpelling
  <2> HIDE DEF H
  <2> QED
    BY <2>1, <2>2, <2>3, NotesStep
<1>3. ASSUME NEW j \in Jobs, Remember(j) PROVE NotesInv'
  <2> DEFINE H == (Notes \ Recalled(j)) \cup {j}
             key == Leading(noted, j)
  <2>1. H \in SUBSET Jobs /\ \A r \in H : r = j \/ r \in Notes \ Recalled(j)
    BY DEF Notes
  <2>2. key[j] = 0 /\ \A r \in Notes : r # j => key[r] = noted[r] /\ key[r] \in Nat \ {0}
    BY DEF Leading, Notes, IInv, TypeOK
  <2>3. noted' = Vector(H, key, PhaseMemory)
    BY <1>3 DEF Remember, ToFront, Leading
  <2> HIDE DEF H, key
  <2>4. Keyed(H, key)
    BY <2>1, <2>2 DEF NotesInv, Keyed
  <2>5. /\ note'[j].path = job[j].path /\ note'[j].ver = job[j].ver
        /\ note'[j].spec = job[j].spec
        /\ \A r \in Jobs \ {j} : note'[r] = note[r]
    BY <1>3 DEF Remember, NewNote, IInv, TypeOK
  <2>6. \A q, r \in H : /\ note'[q].path = note'[r].path
                         /\ note'[q].ver = note'[r].ver
                         /\ note'[q].spec = note'[r].spec
                         => q = r
    BY <2>1, <2>5 DEF NotesInv, OneNotePerSpelling, Recalled, Notes
  <2> QED
    BY <2>1, <2>3, <2>4, <2>6, NotesStep
<1>4. ASSUME NEW j \in Jobs, JobStep(j) PROVE NotesInv'
  BY <1>1, <1>2, <1>3, <1>4
  DEF JobStep, Find, Verify, DropEntries, Compare, Recall, Read, Stat, Touch, OpenFile,
      Insert
<1> QED
  BY <1>1, <1>4 DEF Next, AskPath, AskId, Replace, Remove, Rest, vars

\* A model is held once, the models of a path are of one state of its file, and a
\* spelling is remembered once: what a search finds first is all there is to find.
THEOREM HeldOnce == Spec => []StoreIsOne
<1>1. Init => NotesInv
  BY InitNotes
<1>2. IInv /\ NotesInv /\ [Next]_vars => NotesInv'
  BY NextNotes
<1>3. IInv /\ NotesInv => StoreIsOne
  BY IInvImplies DEF StoreIsOne, NotesInv
<1> QED
  BY <1>1, <1>2, <1>3, Invariance, PTL DEF Spec

\* Neither memory outgrows its limit (max_open_models, PHASE_MEMORY).
THEOREM MemoriesFit ==
  Spec => [](Cardinality(Held) <= MaxOpen /\ Cardinality(Notes) <= PhaseMemory)
<1>1. Init => InLine /\ NotesInv
  BY InitLine, InitNotes
<1>2. IInv /\ InLine /\ NotesInv /\ [Next]_vars => InLine' /\ NotesInv'
  BY StepLine, NextNotes
<1>3. InLine /\ NotesInv => Cardinality(Held) <= MaxOpen /\ Cardinality(Notes) <= PhaseMemory
  BY DEF InLine, NotesInv
<1> QED
  BY <1>1, <1>2, <1>3, Invariance, PTL DEF Spec
=============================================================================
