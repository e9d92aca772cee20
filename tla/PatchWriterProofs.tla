--------------------------- MODULE PatchWriterProofs ---------------------------
(***************************************************************************)
(* Theorems about PatchWriter, for any calls, files, streams and lists of  *)
(* patches, where no two calls are of one process: the file under a name is*)
(* whole, a call that wrote nothing leaves nothing, and together the calls *)
(* implement AtomicWrite.  With two calls of one process the first is      *)
(* false.                                                                  *)
(*                                                                         *)
(* The argument: a temporary name tells its process, so it leads to what   *)
(* its own call made or to nothing, and nobody else writes what a call     *)
(* makes; it is only put in place whole, and is not written to after.      *)
(* Hence what is under a name changes at a rename alone, and what a call   *)
(* has open to copy from does not change.                                  *)
(***************************************************************************)
EXTENDS PatchWriter, SequenceTheorems, WellFoundedInduction, TLAPS

\* No two calls are of one process, as commands are.
Separate == \A c, d \in Calls : Process(c) = Process(d) => c = d

\* What a file's name may lead to.
Settled == Paths \cup {c \in Calls : result[c] = "written"}

\* A temporary name leads to what its call made.
TempInv ==
  \A t \in Temps : name[t] # None =>
    \E c \in Calls :
      /\ name[t] = c
      /\ pc[c] \in {"fill", "reopen", "patch", "flush", "rename", "ended", "killed"}
      /\ t = Temp(c)

\* A call's arguments and steps, and what it writes to.
StepInv(c) ==
  /\ pc[c] = "idle" => call[c] = None
  /\ pc[c] \notin {"idle", "killed"} => call[c] \in Asked
  /\ pc[c] \notin {"idle", "command", "ended", "killed"} => List(c) \in Manifests
  /\ pc[c] \notin {"idle", "command", "ended", "killed"} => ~call[c].dry
  /\ pc[c] \notin {"idle", "command", "open", "ended", "killed"} => ~Refused(c)
  /\ result[c] # None => pc[c] = "ended"
  /\ to[c] \in {c, None}
  /\ pc[c] \in {"idle", "command", "open", "create"} => to[c] = None
  /\ pc[c] \in {"fill", "patch", "flush", "rename"} => to[c] = c
  /\ result[c] \in {"refused", "dry"} => to[c] = None
  /\ pc[c] = "fill" => from[c] \in Settled
  /\ pc[c] \in {"idle", "command", "open", "create", "fill", "reopen"} => done[c] = 0
  /\ pc[c] \in {"reopen", "patch", "flush"} => Way(c) = "rw"

\* b is v with the first n patches of list m.
Patched(m, n, v, b) ==
  \A s \in Streams :
    LET at == {k \in 1..n : m[k].stream = s}
    IN  IF at = {} THEN b[s] = v[s] ELSE \E k \in at : b[s] = m[k].value

\* What it has written.
DataInv(c) ==
  /\ pc[c] \in {"reopen", "patch"} =>
       Patched(List(c), done[c], view[c], bytes[c])
  /\ pc[c] = "patch" => done[c] < Len(List(c))
  /\ pc[c] \in {"flush", "rename"} =>
       Patched(List(c), Len(List(c)), view[c], bytes[c])
  /\ pc[c] = "rename" => c \in whole

\* What it leaves.
EndInv(c) ==
  pc[c] = "ended" /\ to[c] # None /\ Way(c) # "copy" => name[Temp(c)] = None

CallInv(c) == StepInv(c) /\ DataInv(c) /\ EndInv(c)
NameInv == Settled \subseteq whole /\ \A p \in Paths : name[p] \in Settled
IInv == TypeOK /\ NameInv /\ TempInv /\ \A c \in Calls : CallInv(c)

Placed == {"fill", "reopen", "patch", "flush", "rename", "ended", "killed"}

\* A step of call c leaves the other calls alone, and what they make.
Alone(c) ==
  \A d \in Calls \ {c} :
    /\ pc'[d] = pc[d] /\ call'[d] = call[d] /\ view'[d] = view[d]
    /\ from'[d] = from[d] /\ to'[d] = to[d] /\ done'[d] = done[d]
    /\ result'[d] = result[d]
    /\ bytes'[d] = bytes[d] /\ (d \in whole => d \in whole')

--------------------------------------------------------------------------------
\* A temporary name is the call's own.
LEMMA OwnName ==
  ASSUME Separate, TypeOK, NEW c \in Calls
  PROVE  /\ \A d \in Calls \ {c} : Temp(d) # Temp(c)
         /\ call[c] \in Asked =>
              /\ Temp(c) \in Temps /\ Temp(c) \in Names /\ Temp(c) \notin Paths
              /\ call[c].src \in Paths /\ call[c].dst \in Paths
<1>1. ASSUME NEW d \in Calls, Temp(d) = Temp(c) PROVE d = c
  <2>1. Temp(d).pid = Process(d) /\ Temp(c).pid = Process(c)
    BY DEF Temp
  <2> QED
    BY <1>1, <2>1 DEF Separate
<1>2. ASSUME call[c] \in Asked
      PROVE  Temp(c) \in Temps
  <2>1. call[c].dst \in Paths /\ Way(c) \in Ways /\ Process(c) \in {Process(d) : d \in Calls}
    BY <1>2 DEF Asked, Way, Ways
  <2> QED
    BY <2>1 DEF Temp, Temps
<1> QED
  BY <1>1, <1>2, NamesAssumption DEF Names, Asked

\* What the names that are kept with the arguments say of the others.
LEMMA SameCall ==
  ASSUME NEW d, call'[d] = call[d]
  PROVE  /\ List(d)' = List(d) /\ Way(d)' = Way(d) /\ Temp(d)' = Temp(d)
         /\ Refused(d)' = Refused(d)
BY DEF List, Way, Temp, Refused

LEMMA SamePatched ==
  ASSUME NEW m, NEW n, NEW v, NEW b
  PROVE  Patched(m, n, v, b)' = Patched(m', n', v', b')
BY DEF Patched

LEMMA OtherCall ==
  ASSUME NEW d, CallInv(d), call'[d] = call[d], pc'[d] = pc[d],
         view'[d] = view[d], from'[d] = from[d], to'[d] = to[d], done'[d] = done[d],
         result'[d] = result[d], bytes'[d] = bytes[d],
         d \in whole => d \in whole', Settled \subseteq Settled',
         pc[d] = "ended" => name'[Temp(d)] = name[Temp(d)]
  PROVE  CallInv(d)'
<1>1. /\ List(d)' = List(d) /\ Way(d)' = Way(d) /\ Temp(d)' = Temp(d)
      /\ Refused(d)' = Refused(d)
  BY SameCall
<1>2. StepInv(d)'
  BY <1>1 DEF CallInv, StepInv
<1>3. DataInv(d)'
  BY <1>1 DEF CallInv, DataInv
<1>4. EndInv(d)'
  BY <1>1 DEF CallInv, EndInv
<1> QED
  BY <1>2, <1>3, <1>4 DEF CallInv

\* Its own temporary name leads to what it made, or nowhere.
LEMMA TempOf ==
  ASSUME IInv, Separate, NEW c \in Calls, call[c] \in Asked, name[Temp(c)] # None
  PROVE  name[Temp(c)] = c /\ pc[c] \in Placed
<1>1. Temp(c) \in Temps /\ \A d \in Calls \ {c} : Temp(d) # Temp(c)
  BY OwnName DEF IInv
<1> QED
  BY <1>1 DEF IInv, TempInv, Placed

\* What a call that has not ended makes is not under a file's name.
LEMMA Apart ==
  ASSUME IInv, NEW c \in Calls, pc[c] # "ended"
  PROVE  c \notin Settled /\ result[c] = None
BY NamesAssumption DEF IInv, CallInv, StepInv, Settled, Inodes, Results

LEMMA StepOf ==
  ASSUME IInv, Separate, NEW c \in Calls, pc[c] # "ended", call'[c] = call[c],
         TypeOK', CallInv(c)', NameInv', Alone(c),
         \A t \in Temps \ {Temp(c)} : name'[t] = name[t],
         name'[Temp(c)] # None => name'[Temp(c)] = c /\ pc'[c] \in Placed
  PROVE  IInv'
<1>1. Settled \subseteq Settled'
  BY Apart DEF Alone, Settled
<1>2. ASSUME NEW d \in Calls \ {c} PROVE CallInv(d)'
  <2>1. ASSUME pc[d] = "ended" PROVE name'[Temp(d)] = name[Temp(d)]
    <3>1. call[d] \in Asked
      BY <2>1 DEF IInv, CallInv, StepInv
    <3>2. Temp(d) \in Temps /\ Temp(d) # Temp(c)
      BY <3>1, OwnName DEF IInv
    <3> QED
      BY <3>2
  <2> QED
    BY <1>1, <2>1, OtherCall DEF Alone, IInv
<1>3. TempInv'
  <2> SUFFICES ASSUME NEW t \in Temps, name'[t] # None
               PROVE  \E e \in Calls : name'[t] = e /\ pc'[e] \in Placed /\ t = Temp(e)'
    BY DEF TempInv, Temps, Placed
  <2>1. CASE t = Temp(c)
    <3>1. Temp(c)' = Temp(c)
      BY SameCall
    <3> QED
      BY <2>1, <3>1
  <2>2. CASE t # Temp(c)
    <3>1. PICK e \in Calls : name[t] = e /\ pc[e] \in Placed /\ t = Temp(e)
      BY <2>2 DEF IInv, TempInv, Placed
    <3>2. e # c
      BY <2>2, <3>1
    <3>3. Temp(e)' = Temp(e) /\ pc'[e] = pc[e]
      BY <3>2, SameCall DEF Alone
    <3> QED
      BY <2>2, <3>1, <3>3
  <2> QED
    BY <2>1, <2>2
<1> QED
  BY <1>2, <1>3 DEF IInv

\* A step that puts nothing in place.
LEMMA StepBefore ==
  ASSUME IInv, Separate, NEW c \in Calls, pc[c] # "ended", call'[c] = call[c],
         TypeOK', CallInv(c)', Alone(c), result'[c] # "written",
         \A p \in Paths : name'[p] = name[p], whole \ {c} \subseteq whole',
         \A t \in Temps \ {Temp(c)} : name'[t] = name[t],
         name'[Temp(c)] # None => name'[Temp(c)] = c /\ pc'[c] \in Placed
  PROVE  IInv'
<1>1. Settled' = Settled /\ c \notin Settled
  BY Apart DEF Alone, Settled
<1>2. NameInv'
  BY <1>1 DEF IInv, NameInv
<1> QED
  BY <1>2, StepOf

Writing == {"create", "fill", "reopen", "patch", "flush", "rename"}
LEMMA FailStep ==
  ASSUME IInv, Separate, NEW c \in Calls, pc[c] \in Writing, Fail(c),
         UNCHANGED <<bytes, whole, call, view, from, to, done>>
  PROVE  IInv'
<1>1. call[c] \in Asked
  BY DEF IInv, CallInv, StepInv, Writing
<1>2. /\ Temp(c) \in Names /\ Temp(c) \notin Paths
  BY <1>1, OwnName DEF IInv
<1>3. /\ pc' = [pc EXCEPT ![c] = "ended"] /\ result' = [result EXCEPT ![c] = "failed"]
      /\ name' = IF Way(c) = "copy" THEN name ELSE [name EXCEPT ![Temp(c)] = None]
  BY DEF Fail, End, Goto
<1>4. TypeOK'
  <2>1. name' \in [Names -> Inodes \cup {None}]
    BY <1>3 DEF IInv, TypeOK
  <2> QED
    BY <1>3, <2>1 DEF IInv, TypeOK, Steps, Results
<1>5. Alone(c) /\ pc'[c] = "ended" /\ result'[c] = "failed"
  BY <1>3 DEF IInv, TypeOK, Alone
<1>6. CallInv(c)'
  <2>1. /\ Way(c)' = Way(c) /\ Temp(c)' = Temp(c)
    BY SameCall
  <2>2. StepInv(c)'
    BY <1>1, <1>5, <2>1 DEF IInv, CallInv, StepInv, Writing
  <2>3. DataInv(c)'
    BY <1>5 DEF DataInv
  <2>4. EndInv(c)'
    BY <1>2, <1>3, <2>1 DEF IInv, TypeOK, EndInv
  <2> QED
    BY <2>2, <2>3, <2>4 DEF CallInv
<1>7. /\ \A n \in Names \ {Temp(c)} : name'[n] = name[n]
      /\ name'[Temp(c)] \in {name[Temp(c)], None}
  BY <1>2, <1>3 DEF IInv, TypeOK
<1>8. name'[Temp(c)] # None => name'[Temp(c)] = c /\ pc'[c] \in Placed
  BY <1>1, <1>5, <1>7, TempOf DEF Placed
<1> QED
  BY <1>2, <1>4, <1>5, <1>6, <1>7, <1>8, StepBefore DEF Names, Writing

--------------------------------------------------------------------------------
\* Lists of patches.
LEMMA PatchedNone == \A m, b : Patched(m, 0, b, b)
BY DEF Patched

LEMMA PatchedNext ==
  ASSUME NEW m, NEW n \in Nat, NEW v, NEW b \in Contents, Patched(m, n, v, b),
         m[n + 1].stream \in Streams
  PROVE  Patched(m, n + 1, v, [b EXCEPT ![m[n + 1].stream] = m[n + 1].value])
<1> DEFINE b2 == [b EXCEPT ![m[n + 1].stream] = m[n + 1].value]
<1> SUFFICES ASSUME NEW s \in Streams
             PROVE  LET at == {k \in 1..(n + 1) : m[k].stream = s}
                    IN  IF at = {} THEN b2[s] = v[s] ELSE \E k \in at : b2[s] = m[k].value
  BY DEF Patched
<1> DEFINE at1 == {k \in 1..n : m[k].stream = s}
           at == {k \in 1..(n + 1) : m[k].stream = s}
<1>1. IF at1 = {} THEN b[s] = v[s] ELSE \E k \in at1 : b[s] = m[k].value
  BY DEF Patched
<1>2. at1 \subseteq at /\ 1..(n + 1) = (1..n) \cup {n + 1}
  OBVIOUS
<1>3. CASE m[n + 1].stream = s
  <2>1. b2[s] = m[n + 1].value /\ n + 1 \in at
    BY <1>3 DEF Contents
  <2> QED
    BY <2>1
<1>4. CASE m[n + 1].stream # s
  <2>1. b2[s] = b[s] /\ at = at1
    BY <1>2, <1>4 DEF Contents
  <2> QED
    BY <1>1, <2>1
<1> QED
  BY <1>3, <1>4

LEMMA FirstPlace ==
  ASSUME NEW S \in SUBSET Nat, S # {}
  PROVE  \E n \in S : \A m \in S : n <= m
<1>1. PICK t \in S : \A y \in S : <<y, t>> \notin OpToRel(<, Nat)
  BY NatLessThanWellFounded, WFMin
<1>2. \A y \in S : ~(y < t)
  BY <1>1 DEF OpToRel
<1> QED
  BY <1>2

LEMMA ListOf ==
  ASSUME NEW c, List(c) \in Manifests, ~Refused(c)
  PROVE  /\ List(c) \in Seq(Patches) /\ Len(List(c)) \in Nat
         /\ DOMAIN List(c) = 1..Len(List(c))
         /\ \A n \in 1..Len(List(c)) :
              List(c)[n].stream \in Streams /\ List(c)[n].value \in Values
<1>1. List(c) \in Seq(Patches)
  BY ManifestsAssumption
<1>2. /\ Len(List(c)) \in Nat /\ DOMAIN List(c) = 1..Len(List(c))
      /\ \A n \in 1..Len(List(c)) : List(c)[n] \in Patches
  BY <1>1
<1> QED
  BY <1>1, <1>2 DEF Refused, Patches

LEMMA RewrittenOf ==
  ASSUME NEW c, List(c) \in Manifests, ~Refused(c), view[c] \in Contents
  PROVE  /\ Rewritten(c) \in Contents
         /\ Patched(List(c), Len(List(c)), view[c], Rewritten(c))
<1> DEFINE First(s) == CHOOSE n \in PatchesOf(c, s) : \A m \in PatchesOf(c, s) : n <= m
<1>1. \A s : PatchesOf(c, s) = {n \in 1..Len(List(c)) : List(c)[n].stream = s}
  BY ListOf DEF PatchesOf
<1>2. ASSUME NEW s \in Streams, PatchesOf(c, s) # {}
      PROVE  First(s) \in PatchesOf(c, s) /\ Rewritten(c)[s] = List(c)[First(s)].value
  <2>1. PatchesOf(c, s) \in SUBSET Nat
    BY <1>1, ListOf
  <2>2. \E n \in PatchesOf(c, s) : \A m \in PatchesOf(c, s) : n <= m
    BY <1>2, <2>1, FirstPlace
  <2> QED
    BY <1>2, <2>2 DEF Rewritten
<1>3. ASSUME NEW s \in Streams, PatchesOf(c, s) = {}
      PROVE  Rewritten(c)[s] = view[c][s]
  BY <1>3 DEF Rewritten
<1> HIDE DEF First
<1>4. \A s \in Streams : Rewritten(c)[s] \in Paths \cup Values \cup {None}
  BY <1>1, <1>2, <1>3, ListOf DEF Contents
<1>5. Rewritten(c) \in Contents
  BY <1>4 DEF Rewritten, Contents
<1> QED
  BY <1>1, <1>2, <1>3, <1>5 DEF Patched

--------------------------------------------------------------------------------
\* One step each.
LEMMA AskStep ==
  ASSUME IInv, Separate, NEW c \in Calls, NEW src \in Paths, NEW dst \in Paths,
         NEW m \in Manifests \cup {None}, Ask(c, src, dst, m)
  PROVE  IInv'
<1>1. /\ pc[c] = "idle" /\ UNCHANGED <<name, bytes, whole, view, from, to, done, result>>
      /\ result[c] = None /\ done[c] = 0 /\ to[c] = None
  BY Apart DEF Ask, IInv, CallInv, StepInv
<1>2. PICK dry \in BOOLEAN, step \in {"open", "command"} :
        /\ step = "open" => m # None /\ ~dry
        /\ call' = [call EXCEPT ![c] = [src |-> src, dst |-> dst, manifest |-> m, dry |-> dry]]
        /\ pc' = [pc EXCEPT ![c] = step]
  BY DEF Ask, Goto
<1>3. TypeOK'
  BY <1>1, <1>2 DEF IInv, TypeOK, Asked, Steps
<1>4. Settled' = Settled /\ NameInv'
  BY <1>1 DEF IInv, NameInv, Settled
<1>5. Alone(c) /\ call'[c] \in Asked /\ pc'[c] = step
      /\ call'[c].manifest = m /\ call'[c].dry = dry
  BY <1>1, <1>2 DEF IInv, TypeOK, Alone, Asked
<1>6. CallInv(c)'
  <2>1. StepInv(c)'
    BY <1>1, <1>2, <1>5 DEF StepInv, List
  <2>2. DataInv(c)' /\ EndInv(c)'
    BY <1>1, <1>2, <1>5, NamesAssumption DEF DataInv, EndInv, Results
  <2> QED
    BY <2>1, <2>2 DEF CallInv
<1>7. \A d \in Calls \ {c} : CallInv(d)'
  BY <1>1, <1>4, <1>5, OtherCall DEF Alone, IInv
<1>8. TempInv'
  <2> SUFFICES ASSUME NEW t \in Temps, name[t] # None
               PROVE  \E e \in Calls : name[t] = e /\ pc'[e] \in Placed /\ t = Temp(e)'
    BY <1>1 DEF TempInv, Temps, Placed
  <2>1. PICK e \in Calls : name[t] = e /\ pc[e] \in Placed /\ t = Temp(e)
    BY DEF IInv, TempInv, Placed
  <2>2. e # c
    BY <1>1, <2>1 DEF Placed
  <2> QED
    BY <1>5, <2>1, <2>2, SameCall DEF Alone
<1> QED
  BY <1>3, <1>4, <1>6, <1>7, <1>8 DEF IInv

LEMMA CommandStep ==
  ASSUME IInv, Separate, NEW c \in Calls, Command(c)
  PROVE  IInv'
<1>1. /\ pc[c] = "command" /\ UNCHANGED <<name, bytes, whole, call, view, from, to, done>>
      /\ call[c] \in Asked /\ result[c] = None /\ done[c] = 0 /\ to[c] = None
  BY Apart DEF Command, IInv, CallInv, StepInv
<1>2. PICK step \in {"ended", "open"}, r \in {"failed", "dry", None} :
        /\ step = "open" => List(c) # None /\ ~call[c].dry /\ r = None
        /\ pc' = [pc EXCEPT ![c] = step] /\ result' = [result EXCEPT ![c] = r]
        /\ r # None => step = "ended"
  <2>1. result = [result EXCEPT ![c] = None]
    BY <1>1 DEF IInv, TypeOK
  <2> QED
    BY <2>1 DEF Command, End, Goto
<1>3. TypeOK'
  BY <1>1, <1>2 DEF IInv, TypeOK, Steps, Results
<1>4. Alone(c) /\ pc'[c] = step /\ result'[c] = r
  BY <1>1, <1>2 DEF IInv, TypeOK, Alone
<1>5. CallInv(c)'
  <2>1. StepInv(c)'
    BY <1>1, <1>2, <1>4, SameCall DEF StepInv, Asked, List
  <2>2. DataInv(c)' /\ EndInv(c)'
    BY <1>1, <1>2, <1>4, NamesAssumption DEF DataInv, EndInv, Results
  <2> QED
    BY <2>1, <2>2 DEF CallInv
<1>6. name[Temp(c)] = None
  BY <1>1, TempOf DEF Placed
<1>7. r # "written"
  BY <1>2, NamesAssumption DEF Results
<1> QED
  BY <1>1, <1>3, <1>4, <1>5, <1>6, <1>7, StepBefore

LEMMA OpenStep ==
  ASSUME IInv, Separate, NEW c \in Calls, Open(c)
  PROVE  IInv'
<1>1. /\ pc[c] = "open" /\ UNCHANGED <<name, bytes, whole, call, from, to, done>>
      /\ call[c] \in Asked /\ List(c) \in Manifests /\ ~call[c].dry
      /\ result[c] = None /\ done[c] = 0 /\ to[c] = None
  BY Apart DEF Open, IInv, CallInv, StepInv
<1>2. PICK step \in {"ended", "create"}, r \in {"failed", "refused", None}, v \in Contents :
        /\ step = "create" => ~Refused(c) /\ r = None
        /\ pc' = [pc EXCEPT ![c] = step] /\ result' = [result EXCEPT ![c] = r]
        /\ view' = [view EXCEPT ![c] = v]
        /\ r # None => step = "ended"
  <2>1. result = [result EXCEPT ![c] = None] /\ view = [view EXCEPT ![c] = view[c]]
        /\ view[c] \in Contents
    BY <1>1 DEF IInv, TypeOK
  <2>2. CASE End(c, "failed") /\ UNCHANGED view
    BY <2>1, <2>2 DEF End, Goto
  <2>3. CASE End(c, "refused") /\ UNCHANGED view
    BY <2>1, <2>3 DEF End, Goto
  <2>4. CASE /\ Readable(call[c].src) /\ ~Refused(c)
             /\ view' = [view EXCEPT ![c] = bytes[name[call[c].src]]]
             /\ Goto(c, "create") /\ UNCHANGED result
    <3>1. name[call[c].src] \in Inodes
      BY <1>1, <2>4 DEF IInv, TypeOK, Asked, Names, Readable
    <3>2. bytes[name[call[c].src]] \in Contents
      BY <3>1 DEF IInv, TypeOK
    <3> QED
      BY <2>1, <2>4, <3>2 DEF Goto
  <2> QED
    BY <2>2, <2>3, <2>4 DEF Open
<1>3. TypeOK'
  BY <1>1, <1>2 DEF IInv, TypeOK, Steps, Results
<1>4. Alone(c) /\ pc'[c] = step /\ result'[c] = r
  BY <1>1, <1>2 DEF IInv, TypeOK, Alone
<1>5. CallInv(c)'
  <2>1. StepInv(c)'
    BY <1>1, <1>2, <1>4, SameCall DEF StepInv
  <2>2. DataInv(c)' /\ EndInv(c)'
    BY <1>1, <1>2, <1>4, NamesAssumption DEF DataInv, EndInv, Results
  <2> QED
    BY <2>1, <2>2 DEF CallInv
<1>6. name[Temp(c)] = None
  BY <1>1, TempOf DEF Placed
<1>7. r # "written"
  BY <1>2, NamesAssumption DEF Results
<1> QED
  BY <1>1, <1>3, <1>4, <1>5, <1>6, <1>7, StepBefore

LEMMA CreateStep ==
  ASSUME IInv, Separate, NEW c \in Calls, Create(c)
  PROVE  IInv'
<1>1. /\ pc[c] = "create" /\ UNCHANGED <<call, view, done>>
      /\ call[c] \in Asked /\ List(c) \in Manifests /\ ~Refused(c) /\ ~call[c].dry
      /\ result[c] = None /\ done[c] = 0
  BY Apart DEF Create, IInv, CallInv, StepInv
<1>2. CASE Fail(c) /\ UNCHANGED <<bytes, whole, from, to>>
  BY <1>1, <1>2, FailStep DEF Writing
<1>3. CASE ~(Fail(c) /\ UNCHANGED <<bytes, whole, from, to>>)
  <2>1. name[Temp(c)] = None
    BY <1>1, TempOf DEF Placed
  <2>2. /\ name[call[c].src] # None
        /\ name' = [name EXCEPT ![Temp(c)] = c] /\ bytes' = [bytes EXCEPT ![c] = Empty]
        /\ whole' = whole \ {c} /\ to' = [to EXCEPT ![c] = c]
        /\ from' = [from EXCEPT ![c] = name[call[c].src]]
        /\ pc' = [pc EXCEPT ![c] = "fill"] /\ UNCHANGED result
    BY <1>3, <2>1 DEF Create, Goto
  <2>3. /\ Temp(c) \in Names /\ Temp(c) \notin Paths /\ call[c].src \in Paths
    BY <1>1, OwnName DEF IInv
  <2>4. c \in Inodes /\ Empty \in Contents /\ name[call[c].src] \in Settled
        /\ name[call[c].src] \in Inodes
    BY <2>2, <2>3 DEF IInv, NameInv, TypeOK, Inodes, Empty, Contents, Names
  <2>5. TypeOK'
    <3>1. name' \in [Names -> Inodes \cup {None}] /\ bytes' \in [Inodes -> Contents]
      BY <2>2, <2>4 DEF IInv, TypeOK
    <3>2. /\ {from', to'} \subseteq [Calls -> Inodes \cup {None}]
          /\ pc' \in [Calls -> Steps] /\ whole' \subseteq Inodes
      BY <2>2, <2>4 DEF IInv, TypeOK, Steps
    <3> QED
      BY <1>1, <2>2, <3>1, <3>2 DEF IInv, TypeOK
  <2>6. Alone(c)
    BY <1>1, <2>2, <2>4, NamesAssumption DEF IInv, TypeOK, Alone, Inodes
  <2>7. pc'[c] = "fill" /\ to'[c] = c /\ from'[c] = name[call[c].src]
        /\ \A n \in Names \ {Temp(c)} : name'[n] = name[n]
        /\ name'[Temp(c)] = c
    BY <2>2, <2>3 DEF IInv, TypeOK
  <2>8. Settled' = Settled
    BY <2>2 DEF Settled
  <2>9. CallInv(c)'
    <3>1. StepInv(c)'
      BY <1>1, <2>2, <2>4, <2>7, <2>8, SameCall, NamesAssumption DEF StepInv, Results
    <3>2. DataInv(c)' /\ EndInv(c)'
      BY <1>1, <2>2, <2>7, NamesAssumption DEF DataInv, EndInv, Results
    <3> QED
      BY <3>1, <3>2 DEF CallInv
  <2> QED
    BY <1>1, <2>2, <2>3, <2>5, <2>6, <2>7, <2>9, NamesAssumption, StepBefore
    DEF Names, Placed, Results
<1> QED
  BY <1>2, <1>3

\* A step of writing that does not fail: b is what has been written, v what it is
\* written from, and n the patches done.
Writes(c, step, b, v, n) ==
  /\ step \in {"reopen", "patch", "flush", "rename"}
  /\ b \in Contents /\ v \in Contents /\ n \in Nat
  /\ bytes' = [bytes EXCEPT ![c] = b] /\ view' = [view EXCEPT ![c] = v]
  /\ done' = [done EXCEPT ![c] = n] /\ to' = [to EXCEPT ![c] = c]
  /\ pc' = [pc EXCEPT ![c] = step]
  /\ whole \ {c} \subseteq whole' /\ whole' \subseteq whole \cup {c}
  /\ UNCHANGED <<name, call, from, result>>
  /\ step = "rename" => c \in whole'
  /\ step # "rename" => Way(c) = "rw"
  /\ step = "reopen" => n = 0
  /\ step = "patch" => n < Len(List(c))
  /\ Patched(List(c), IF step \in {"reopen", "patch"} THEN n ELSE Len(List(c)), v, b)

LEMMA WriteStep ==
  ASSUME IInv, Separate, NEW c \in Calls, pc[c] \in {"fill", "reopen", "patch", "flush"},
         NEW step, NEW b, NEW v, NEW n, Writes(c, step, b, v, n)
  PROVE  IInv'
<1> USE DEF Writes
<1>1. /\ call[c] \in Asked /\ List(c) \in Manifests /\ ~Refused(c) /\ ~call[c].dry
      /\ result[c] = None
  BY Apart DEF IInv, CallInv, StepInv
<1>2. c \in Inodes
  BY DEF Inodes
<1>3. TypeOK'
  <2>1. /\ bytes' \in [Inodes -> Contents] /\ view' \in [Calls -> Contents]
        /\ done' \in [Calls -> Nat]
    BY DEF IInv, TypeOK
  <2>2. pc' \in [Calls -> Steps] /\ to' \in [Calls -> Inodes \cup {None}]
        /\ whole' \subseteq Inodes
    BY <1>2 DEF IInv, TypeOK, Steps
  <2> QED
    BY <2>1, <2>2 DEF IInv, TypeOK
<1>4. Alone(c)
  BY <1>2, NamesAssumption DEF IInv, TypeOK, Alone, Inodes
<1>5. /\ pc'[c] = step /\ to'[c] = c /\ done'[c] = n /\ view'[c] = v /\ bytes'[c] = b
  BY <1>2 DEF IInv, TypeOK
<1>6. CallInv(c)'
  <2>1. /\ List(c)' = List(c) /\ Way(c)' = Way(c) /\ Refused(c)' = Refused(c)
    BY SameCall
  <2>2. StepInv(c)'
    BY <1>1, <1>5, <2>1, NamesAssumption DEF StepInv, Results
  <2>3. DataInv(c)'
    BY <1>1, <1>5, <2>1, NamesAssumption DEF DataInv, Results
  <2>4. EndInv(c)'
    BY <1>5 DEF EndInv
  <2> QED
    BY <2>2, <2>3, <2>4 DEF CallInv
<1>7. name'[Temp(c)] # None => name'[Temp(c)] = c /\ pc'[c] \in Placed
  BY <1>1, <1>5, TempOf DEF Placed
<1>8. result'[c] # "written"
  BY <1>1, NamesAssumption DEF Results
<1> QED
  BY <1>3, <1>4, <1>6, <1>7, <1>8, StepBefore

\* What a step of writing starts from.
LEMMA InHand ==
  ASSUME IInv, NEW c \in Calls, pc[c] \in {"fill", "reopen", "patch", "flush", "rename"}
  PROVE  /\ call[c] \in Asked /\ List(c) \in Manifests /\ ~Refused(c)
         /\ bytes[c] \in Contents /\ view[c] \in Contents /\ done[c] \in Nat
         /\ bytes = [bytes EXCEPT ![c] = bytes[c]] /\ view = [view EXCEPT ![c] = view[c]]
         /\ done = [done EXCEPT ![c] = done[c]]
         /\ to[c] = c => to = [to EXCEPT ![c] = c]
BY DEF IInv, CallInv, StepInv, TypeOK, Inodes

LEMMA FillStep ==
  ASSUME IInv, Separate, NEW c \in Calls, Fill(c)
  PROVE  IInv'
<1>1. /\ pc[c] = "fill" /\ UNCHANGED <<call, from, to, done>>
      /\ to[c] = c /\ done[c] = 0 /\ from[c] \in Settled
  BY DEF Fill, IInv, CallInv, StepInv
<1>2. CASE Fail(c) /\ UNCHANGED <<bytes, whole, view>>
  BY <1>1, <1>2, FailStep DEF Writing
<1>3. CASE ~(Fail(c) /\ UNCHANGED <<bytes, whole, view>>)
  <2>1. from[c] \in whole /\ from[c] \in Inodes /\ bytes[from[c]] \in Contents
    BY <1>1 DEF IInv, NameInv, TypeOK
  <2>2. /\ whole' = whole \cup {c} /\ UNCHANGED <<name, result>>
        /\ pc' = [pc EXCEPT ![c] = IF Way(c) = "rw" THEN "reopen" ELSE "rename"]
    BY <1>1, <1>3, <2>1 DEF Fill, Goto
  <2>3. CASE Way(c) = "tmp"
    <3>1. bytes' = [bytes EXCEPT ![c] = Rewritten(c)] /\ UNCHANGED view
      BY <1>1, <1>3, <2>3 DEF Fill
    <3>2. Rewritten(c) \in Contents /\ Patched(List(c), Len(List(c)), view[c], Rewritten(c))
      BY <1>1, InHand, RewrittenOf
    <3>3. pc' = [pc EXCEPT ![c] = "rename"]
      BY <2>2, <2>3
    <3>4. Writes(c, "rename", Rewritten(c), view[c], done[c])
      BY <1>1, <2>2, <3>1, <3>2, <3>3, InHand DEF Writes
    <3> QED
      BY <1>1, <3>4, WriteStep
  <2>4. CASE Way(c) # "tmp"
    <3>1. /\ bytes' = [bytes EXCEPT ![c] = bytes[from[c]]]
          /\ view' = [view EXCEPT ![c] = bytes[from[c]]]
      BY <1>1, <1>3, <2>4 DEF Fill
    <3>2. CASE Way(c) = "rw"
      <4>1. pc' = [pc EXCEPT ![c] = "reopen"]
        BY <2>2, <3>2
      <4>2. Patched(List(c), 0, bytes[from[c]], bytes[from[c]])
        BY PatchedNone
      <4>3. Writes(c, "reopen", bytes[from[c]], bytes[from[c]], 0)
        BY <1>1, <2>1, <2>2, <3>1, <3>2, <4>1, <4>2, InHand DEF Writes
      <4> QED
        BY <1>1, <4>3, WriteStep
    <3>3. CASE Way(c) # "rw"
      <4>1. pc' = [pc EXCEPT ![c] = "rename"]
        BY <2>2, <3>3
      <4>2. Len(List(c)) = 0
        BY <2>4, <3>3 DEF Way
      <4>3. Patched(List(c), Len(List(c)), bytes[from[c]], bytes[from[c]])
        BY <4>2, PatchedNone
      <4>4. Writes(c, "rename", bytes[from[c]], bytes[from[c]], 0)
        BY <1>1, <2>1, <2>2, <3>1, <4>1, <4>3, InHand DEF Writes
      <4> QED
        BY <1>1, <4>4, WriteStep
    <3> QED
      BY <3>2, <3>3
  <2> QED
    BY <2>3, <2>4
<1> QED
  BY <1>2, <1>3

LEMMA ReopenStep ==
  ASSUME IInv, Separate, NEW c \in Calls, Reopen(c)
  PROVE  IInv'
<1>1. /\ pc[c] = "reopen" /\ UNCHANGED <<bytes, whole, call, view, from, done>>
      /\ done[c] = 0 /\ Way(c) = "rw" /\ Patched(List(c), done[c], view[c], bytes[c])
  BY DEF Reopen, IInv, CallInv, StepInv, DataInv
<1>2. CASE Fail(c) /\ UNCHANGED to
  BY <1>1, <1>2, FailStep DEF Writing
<1>3. CASE ~(Fail(c) /\ UNCHANGED to)
  <2>1. /\ name[Temp(c)] # None /\ to' = [to EXCEPT ![c] = name[Temp(c)]]
        /\ pc' = [pc EXCEPT ![c] = "patch"] /\ UNCHANGED <<name, result>>
    BY <1>3 DEF Reopen, Goto, Readable
  <2>2. name[Temp(c)] = c
    BY <1>1, <2>1, InHand, TempOf
  <2>3. 0 < Len(List(c))
    <3>1. List(c) # <<>> /\ List(c) \in Seq(Patches)
      BY <1>1, InHand, ListOf DEF Way
    <3> QED
      BY <3>1
  <2>4. Writes(c, "patch", bytes[c], view[c], 0)
    BY <1>1, <2>1, <2>2, <2>3, InHand DEF Writes
  <2> QED
    BY <1>1, <2>4, WriteStep
<1> QED
  BY <1>2, <1>3

LEMMA PatchStep ==
  ASSUME IInv, Separate, NEW c \in Calls, Patch(c)
  PROVE  IInv'
<1>1. /\ pc[c] = "patch" /\ UNCHANGED <<call, view, from, to>>
      /\ to[c] = c /\ Way(c) = "rw" /\ done[c] < Len(List(c))
      /\ Patched(List(c), done[c], view[c], bytes[c])
  BY DEF Patch, IInv, CallInv, StepInv, DataInv
<1>2. CASE Fail(c) /\ UNCHANGED <<bytes, whole, done>>
  BY <1>1, <1>2, FailStep DEF Writing
<1>3. CASE ~(Fail(c) /\ UNCHANGED <<bytes, whole, done>>)
  <2> DEFINE n == done[c]
             p == List(c)[n + 1]
             b == [bytes[c] EXCEPT ![p.stream] = p.value]
             step == IF n + 1 = Len(List(c)) THEN "flush" ELSE "patch"
  <2>1. n \in Nat /\ n + 1 \in 1..Len(List(c)) /\ p.stream \in Streams /\ p.value \in Values
    BY <1>1, InHand, ListOf
  <2>2. /\ bytes' = [bytes EXCEPT ![c][p.stream] = p.value]
        /\ whole' = whole \ {c} /\ done' = [done EXCEPT ![c] = @ + 1]
        /\ pc' = [pc EXCEPT ![c] = step] /\ UNCHANGED <<name, result>>
    BY <1>1, <1>3 DEF Patch, Goto
  <2>3. bytes' = [bytes EXCEPT ![c] = b] /\ done' = [done EXCEPT ![c] = n + 1]
    BY <2>2
  <2>4. b \in Contents
    BY <1>1, <2>1, InHand DEF Contents
  <2>5. Patched(List(c), n + 1, view[c], b)
    BY <1>1, <2>1, InHand, PatchedNext
  <2>6. n + 1 <= Len(List(c)) /\ n + 1 \in Nat /\ Len(List(c)) \in Nat
    BY <1>1, <2>1, InHand, ListOf
  <2>7. /\ step \in {"flush", "patch"}
        /\ step = "patch" => n + 1 < Len(List(c))
        /\ Patched(List(c), IF step = "patch" THEN n + 1 ELSE Len(List(c)), view[c], b)
    BY <2>5, <2>6
  <2>8. /\ whole' = whole \ {c} /\ pc' = [pc EXCEPT ![c] = step] /\ UNCHANGED <<name, result>>
    BY <2>2
  <2> HIDE DEF b, n, step
  <2>9. Writes(c, step, b, view[c], n + 1)
    BY <1>1, <2>3, <2>4, <2>6, <2>7, <2>8, InHand DEF Writes
  <2> QED
    BY <1>1, <2>9, WriteStep
<1> QED
  BY <1>2, <1>3

LEMMA FlushStep ==
  ASSUME IInv, Separate, NEW c \in Calls, Flush(c)
  PROVE  IInv'
<1>1. /\ pc[c] = "flush" /\ UNCHANGED <<bytes, call, view, from, to, done>>
      /\ to[c] = c /\ Patched(List(c), Len(List(c)), view[c], bytes[c])
  BY DEF Flush, IInv, CallInv, StepInv, DataInv
<1>2. CASE Fail(c) /\ UNCHANGED whole
  BY <1>1, <1>2, FailStep DEF Writing
<1>3. CASE ~(Fail(c) /\ UNCHANGED whole)
  <2>1. /\ whole' = whole \cup {c} /\ pc' = [pc EXCEPT ![c] = "rename"]
        /\ UNCHANGED <<name, result>>
    BY <1>1, <1>3 DEF Flush, Goto
  <2>2. Writes(c, "rename", bytes[c], view[c], done[c])
    BY <1>1, <2>1, InHand DEF Writes
  <2> QED
    BY <1>1, <2>2, WriteStep
<1> QED
  BY <1>2, <1>3

LEMMA RenameStep ==
  ASSUME IInv, Separate, NEW c \in Calls, Rename(c)
  PROVE  IInv'
<1>1. /\ pc[c] = "rename" /\ UNCHANGED <<bytes, whole, call, view, from, to, done>>
      /\ to[c] = c /\ c \in whole /\ Patched(List(c), Len(List(c)), view[c], bytes[c])
  BY DEF Rename, IInv, CallInv, StepInv, DataInv
<1>2. CASE Fail(c)
  BY <1>1, <1>2, FailStep DEF Writing
<1>3. CASE ~Fail(c)
  <2>1. name[Temp(c)] # None
    BY <1>3 DEF Rename
  <2>2. name[Temp(c)] = c
    BY <1>1, <2>1, InHand, TempOf
  <2>3. /\ name' = [name EXCEPT ![call[c].dst] = c, ![Temp(c)] = None]
        /\ pc' = [pc EXCEPT ![c] = "ended"] /\ result' = [result EXCEPT ![c] = "written"]
    BY <1>3, <2>2 DEF Rename, End, Goto
  <2>4. /\ Temp(c) \in Names /\ Temp(c) \notin Paths /\ call[c].dst \in Paths
        /\ call[c] \in Asked
    BY <1>1, InHand, OwnName DEF IInv
  <2>5. /\ \A n \in Names \ {Temp(c), call[c].dst} : name'[n] = name[n]
        /\ name'[Temp(c)] = None /\ name'[call[c].dst] = c
        /\ name' \in [Names -> Inodes \cup {None}]
    BY <2>3, <2>4 DEF IInv, TypeOK, Names, Inodes
  <2>6. TypeOK'
    BY <1>1, <2>3, <2>5, InHand DEF IInv, TypeOK, Steps, Results
  <2>7. Alone(c)
    BY <1>1, <2>3 DEF IInv, TypeOK, Alone
  <2>8. Settled' = Settled \cup {c} /\ result'[c] = "written" /\ pc'[c] = "ended"
    BY <2>3 DEF IInv, TypeOK, Settled
  <2>9. NameInv'
    BY <1>1, <2>4, <2>5, <2>8 DEF IInv, NameInv, Names
  <2>10. CallInv(c)'
    <3>1. List(c)' = List(c) /\ Way(c)' = Way(c) /\ Temp(c)' = Temp(c)
      BY <1>1, SameCall
    <3>2. StepInv(c)'
      BY <1>1, <2>4, <2>8 DEF StepInv
    <3>3. DataInv(c)'
      BY <1>1, <2>8, <3>1 DEF DataInv
    <3>4. EndInv(c)'
      BY <2>5, <3>1 DEF EndInv
    <3> QED
      BY <3>2, <3>3, <3>4 DEF CallInv
  <2>11. \A t \in Temps \ {Temp(c)} : name'[t] = name[t]
    BY <2>4, <2>5, NamesAssumption DEF Names
  <2> QED
    BY <1>1, <2>5, <2>6, <2>7, <2>9, <2>10, <2>11, StepOf
<1> QED
  BY <1>2, <1>3

LEMMA KilledStep ==
  ASSUME IInv, NEW c \in Calls, Killed(c)
  PROVE  IInv'
<1>1. UNCHANGED <<name, bytes, whole, call, view, from, to, done, result>>
  BY DEF Killed
<1>2. \A d \in Calls : pc'[d] = pc[d] \/ (pc'[d] = "killed" /\ pc[d] # "ended")
  BY DEF Killed
<1>3. TypeOK'
  BY <1>1, <1>2 DEF Killed, IInv, TypeOK, Steps
<1>4. NameInv' /\ Settled' = Settled
  BY <1>1 DEF IInv, NameInv, Settled
<1>5. ASSUME NEW d \in Calls PROVE CallInv(d)'
  <2>1. CallInv(d) /\ List(d)' = List(d) /\ Way(d)' = Way(d) /\ Temp(d)' = Temp(d)
        /\ Refused(d)' = Refused(d)
    BY <1>1, SameCall DEF IInv
  <2>2. CASE pc'[d] = pc[d]
    BY <1>1, <1>4, <2>1, <2>2, OtherCall
  <2>3. CASE pc'[d] = "killed" /\ pc[d] # "ended"
    <3>1. result[d] = None
      BY <2>3, Apart
    <3>2. StepInv(d)' /\ EndInv(d)'
      BY <1>1, <2>1, <2>3, <3>1, NamesAssumption DEF CallInv, StepInv, EndInv, Results
    <3>3. DataInv(d)'
      BY <1>1, <2>3, <3>1, NamesAssumption DEF DataInv, Results
    <3> QED
      BY <3>2, <3>3 DEF CallInv
  <2> QED
    BY <1>2, <2>2, <2>3
<1>6. TempInv'
  <2> SUFFICES ASSUME NEW t \in Temps, name[t] # None
               PROVE  \E e \in Calls : name[t] = e /\ pc'[e] \in Placed /\ t = Temp(e)'
    BY <1>1 DEF TempInv, Temps, Placed
  <2>1. PICK e \in Calls : name[t] = e /\ pc[e] \in Placed /\ t = Temp(e)
    BY DEF IInv, TempInv, Placed
  <2> QED
    BY <1>1, <1>2, <2>1, SameCall DEF Placed
<1> QED
  BY <1>3, <1>4, <1>5, <1>6 DEF IInv

LEMMA RestStep ==
  ASSUME IInv, UNCHANGED vars
  PROVE  IInv'
<1>1. TypeOK' /\ NameInv' /\ Settled' = Settled
  BY DEF vars, IInv, TypeOK, NameInv, Settled
<1>2. \A d \in Calls : CallInv(d)'
  BY <1>1, OtherCall DEF vars, IInv
<1>3. TempInv'
  BY DEF vars, IInv, TempInv, Temp, Way, List
<1> QED
  BY <1>1, <1>2, <1>3 DEF IInv

LEMMA InitIInv == Init => IInv
<1> SUFFICES ASSUME Init PROVE IInv
  OBVIOUS
<1>1. TypeOK
  BY DEF Init, TypeOK, Inodes, Names, Contents, Empty, Steps
<1>2. Settled = Paths
  BY NamesAssumption DEF Init, Settled, Results
<1>3. NameInv
  BY <1>2 DEF Init, NameInv, Names
<1>4. TempInv
  BY NamesAssumption DEF Init, TempInv, Names
<1>5. ASSUME NEW c \in Calls PROVE CallInv(c)
  BY NamesAssumption DEF Init, CallInv, StepInv, DataInv, EndInv, Results
<1> QED
  BY <1>1, <1>3, <1>4, <1>5 DEF IInv

LEMMA NextIInv ==
  ASSUME Separate
  PROVE  IInv /\ [Next]_vars => IInv'
<1> SUFFICES ASSUME IInv, [Next]_vars PROVE IInv'
  OBVIOUS
<1>1. ASSUME NEW c \in Calls, NEW src \in Paths, NEW dst \in Paths,
             NEW m \in Manifests \cup {None}, Ask(c, src, dst, m)
      PROVE  IInv'
  BY <1>1, AskStep
<1>2. ASSUME NEW c \in Calls, CallStep(c) PROVE IInv'
  BY <1>2, CommandStep, OpenStep, CreateStep, FillStep, ReopenStep, PatchStep, FlushStep,
     RenameStep DEF CallStep
<1>3. ASSUME NEW c \in Calls, Killed(c) PROVE IInv'
  BY <1>3, KilledStep
<1>4. CASE UNCHANGED vars
  BY <1>4, RestStep
<1> QED
  BY <1>1, <1>2, <1>3, <1>4 DEF Next, Rest

--------------------------------------------------------------------------------
(* Each step is one of AtomicWrite, or nothing that it tells of. *)

Seen == <<[p \in Paths |-> File(p)], call, [c \in Calls |-> Taken(c)],
          [c \in Calls |-> Told(c)]>>

\* What is found is what a settled file holds, and a call is open from when it is
\* asked for until it ends.
LEMMA SeenOf ==
  ASSUME IInv
  PROVE  /\ \A p \in Paths : /\ File(p) = bytes[name[p]] /\ File(p) \in Contents
                             /\ name[p] \in Settled /\ name[p] \in Inodes
         /\ \A c \in Calls :
              /\ pc[c] \notin {"ended", "killed"} => Told(c) = None
              /\ pc[c] \in {"idle", "ended", "killed"} => Taken(c) = None
              /\ pc[c] = "idle" => call[c] = None
              /\ pc[c] \notin {"idle", "killed"} => call[c] \in Asked /\ call[c] # None
<1>1. ASSUME NEW p \in Paths
      PROVE  /\ File(p) = bytes[name[p]] /\ File(p) \in Contents
             /\ name[p] \in Settled /\ name[p] \in Inodes
  <2>1. name[p] \in Settled /\ name[p] \in whole /\ name[p] \in Inodes /\ name[p] # None
    BY NamesAssumption DEF IInv, NameInv, TypeOK
  <2> QED
    BY <2>1 DEF IInv, TypeOK, File, Readable
<1>2. ASSUME NEW c \in Calls
      PROVE  /\ pc[c] \notin {"ended", "killed"} => Told(c) = None
             /\ pc[c] \in {"idle", "ended", "killed"} => Taken(c) = None
             /\ pc[c] = "idle" => call[c] = None
             /\ pc[c] \notin {"idle", "killed"} => call[c] \in Asked /\ call[c] # None
  <2>1. pc[c] # "ended" => result[c] = None
    BY Apart
  <2> QED
    BY <2>1, NamesAssumption DEF IInv, CallInv, StepInv, Told, Taken, Results
<1> QED
  BY <1>1, <1>2

\* A step of call c is seen of c alone, but for what it puts in place.
Discreet(c) ==
  /\ call' = call
  /\ \A d \in Calls \ {c} : Taken(d)' = Taken(d) /\ Told(d)' = Told(d)
  /\ \A i \in Settled : bytes'[i] = bytes[i]

LEMMA OthersUnseen ==
  ASSUME IInv, NEW c \in Calls, call' = call,
         \A d \in Calls \ {c} : /\ pc'[d] = pc[d] /\ view'[d] = view[d]
                                /\ from'[d] = from[d] /\ result'[d] = result[d],
         \A i \in Inodes \ {c} : bytes'[i] = bytes[i],
         pc[c] # "ended"
  PROVE  Discreet(c)
<1>1. \A i \in Settled : bytes'[i] = bytes[i]
  BY Apart DEF Settled, Inodes
<1>2. ASSUME NEW d \in Calls \ {c} PROVE Taken(d)' = Taken(d) /\ Told(d)' = Told(d)
  <2>1. Way(d)' = Way(d)
    BY SameCall
  <2>2. Told(d)' = Told(d)
    BY DEF Told
  <2>3. pc[d] = "fill" => bytes'[from[d]] = bytes[from[d]]
    BY <1>1 DEF IInv, CallInv, StepInv
  <2> QED
    BY <2>1, <2>2, <2>3 DEF Taken
<1> QED
  BY <1>1, <1>2 DEF Discreet

LEMMA SameFiles ==
  ASSUME IInv, IInv', NEW c \in Calls, Discreet(c), \A p \in Paths : name'[p] = name[p]
  PROVE  \A p \in Paths : File(p)' = File(p)
<1> SUFFICES ASSUME NEW p \in Paths PROVE File(p)' = File(p)
  OBVIOUS
<1>1. File(p) = bytes[name[p]] /\ name[p] \in Settled
  BY SeenOf
<1>2. \A q \in Paths : File(q)' = bytes'[name'[q]]
  <2>1. ASSUME NEW q \in Paths PROVE File(q)' = bytes'[name'[q]]
    <3>1. name'[q] \in Settled' /\ Settled' \subseteq whole' /\ whole' \subseteq Inodes
      BY DEF IInv, NameInv, TypeOK
    <3> QED
      BY <3>1, NamesAssumption DEF File, Readable
  <2> QED
    BY <2>1
<1> QED
  BY <1>1, <1>2 DEF Discreet

LEMMA Unseen ==
  ASSUME IInv, IInv', NEW c \in Calls, Discreet(c), \A p \in Paths : name'[p] = name[p],
         Taken(c)' = Taken(c), Told(c)' = Told(c)
  PROVE  UNCHANGED Seen
<1>1. \A p \in Paths : File(p)' = File(p)
  BY SameFiles
<1>2. \A d \in Calls : Taken(d)' = Taken(d) /\ Told(d)' = Told(d)
  BY DEF Discreet
<1> QED
  BY <1>1, <1>2 DEF Discreet, Seen

\* A call ends that put nothing in place.
LEMMA EndSeen ==
  ASSUME IInv, IInv', NEW c \in Calls, Discreet(c), \A p \in Paths : name'[p] = name[p],
         pc[c] \notin {"idle", "ended", "killed"}, pc'[c] \in {"ended", "killed"},
         result'[c] # "written"
  PROVE  Atomic!GiveUp(c)
<1>1. call[c] # None /\ Told(c) = None
  BY SeenOf
<1>2. Told(c)' = "nothing" /\ Taken(c)' = None
  BY DEF Told, Taken
<1>3. \A d \in Calls \ {c} : Taken(d)' = Taken(d) /\ Told(d)' = Told(d)
  BY DEF Discreet
<1>4. \A p \in Paths : File(p)' = File(p)
  BY SameFiles
<1> QED
  BY <1>1, <1>2, <1>3, <1>4
  DEF Discreet, Atomic!GiveUp, Atomic!Open, Atomic!Answer

\* The source is opened.
LEMMA TakeSeen ==
  ASSUME IInv, IInv', NEW c \in Calls, Discreet(c), \A p \in Paths : name'[p] = name[p],
         pc[c] \notin {"idle", "ended", "killed"},
         Told(c)' = Told(c), Taken(c)' = bytes[name[call[c].src]]
  PROVE  Atomic!Take(c)
<1>1. call[c] # None /\ Told(c) = None /\ call[c].src \in Paths
  BY SeenOf DEF Asked
<1>2. Taken(c)' = File(call[c].src)
  BY <1>1, SeenOf
<1>3. \A d \in Calls \ {c} : Taken(d)' = Taken(d) /\ Told(d)' = Told(d)
  BY DEF Discreet
<1>4. \A p \in Paths : File(p)' = File(p)
  BY SameFiles
<1> DEFINE taken == [d \in Calls |-> Taken(d)]
<1>5. taken' = [taken EXCEPT ![c] = [p \in Paths |-> File(p)][call[c].src]]
  BY <1>1, <1>2, <1>3
<1>6. UNCHANGED <<[p \in Paths |-> File(p)], call, [d \in Calls |-> Told(d)]>>
  BY <1>3, <1>4 DEF Discreet
<1> QED
  BY <1>1, <1>5, <1>6 DEF Atomic!Take, Atomic!Open

\* The temporary file is renamed.
LEMMA WriteSeen ==
  ASSUME IInv, IInv', Separate, NEW c \in Calls, pc[c] = "rename", Discreet(c),
         name[Temp(c)] # None,
         name' = [name EXCEPT ![call[c].dst] = name[Temp(c)], ![Temp(c)] = None],
         UNCHANGED bytes, pc'[c] = "ended", result'[c] = "written"
  PROVE  Atomic!Write(c)
<1>1. /\ call[c] \in Asked /\ List(c) \in Manifests /\ ~Refused(c) /\ ~call[c].dry
      /\ call[c] # None /\ call[c].dst \in Paths /\ bytes[c] \in Contents
      /\ view[c] \in Contents /\ Taken(c) = view[c] /\ Told(c) = None
      /\ Patched(List(c), Len(List(c)), view[c], bytes[c])
  BY InHand, SeenOf DEF IInv, CallInv, StepInv, DataInv, Asked, Taken
<1>2. name[Temp(c)] = c /\ Temp(c) \in Names /\ Temp(c) \notin Paths
  BY <1>1, TempOf, OwnName DEF IInv
<1>3. \A p \in Paths : name'[p] = IF p = call[c].dst THEN c ELSE name[p]
  BY <1>1, <1>2 DEF IInv, TypeOK, Names
<1>4. ASSUME NEW p \in Paths
      PROVE  File(p)' = IF p = call[c].dst THEN bytes[c] ELSE File(p)
  <2>1. name'[p] \in Settled' /\ Settled' \subseteq whole' /\ whole' \subseteq Inodes
    BY DEF IInv, NameInv, TypeOK
  <2>2. File(p)' = bytes[name'[p]]
    BY <2>1, NamesAssumption DEF File, Readable
  <2> QED
    BY <1>3, <2>2, SeenOf
<1>5. Told(c)' = "written" /\ Taken(c)' = None
  BY DEF Told, Taken
<1>6. \A d \in Calls \ {c} : Taken(d)' = Taken(d) /\ Told(d)' = Told(d)
  BY DEF Discreet
<1> DEFINE file == [p \in Paths |-> File(p)]
           taken == [d \in Calls |-> Taken(d)]
           answer == [d \in Calls |-> Told(d)]
<1>7. Atomic!Accepted(call[c])
  BY <1>1, NamesAssumption DEF Atomic!Accepted, List, Refused
<1>8. Atomic!IsPatched(bytes[c], taken[c], call[c].manifest)
  <2>1. DOMAIN List(c) = 1..Len(List(c)) /\ taken[c] = view[c]
    BY <1>1, ListOf
  <2> QED
    BY <1>1, <2>1 DEF Patched, Atomic!IsPatched, List
<1>9. file' = [file EXCEPT ![call[c].dst] = bytes[c]]
  BY <1>1, <1>4
<1>10. /\ answer' = [answer EXCEPT ![c] = "written"]
       /\ taken' = [taken EXCEPT ![c] = None]
  BY <1>5, <1>6
<1>11. Atomic!Open(c) /\ taken[c] # None
  BY <1>1, NamesAssumption DEF Atomic!Open
<1>12. Atomic!Answer(c, "written")
  BY <1>10 DEF Atomic!Answer
<1> HIDE DEF file, taken, answer
<1> QED
  BY <1>1, <1>7, <1>8, <1>9, <1>11, <1>12 DEF Discreet, Atomic!Write, file, taken

LEMMA AskSeen ==
  ASSUME IInv, IInv', NEW c \in Calls, NEW src \in Paths, NEW dst \in Paths,
         NEW m \in Manifests \cup {None}, Ask(c, src, dst, m)
  PROVE  Atomic!Ask(c)
<1>1. /\ pc[c] = "idle" /\ call[c] = None /\ Taken(c) = None
      /\ UNCHANGED <<name, bytes, whole, view, from, to, done, result>>
  BY SeenOf DEF Ask
<1>2. PICK dry \in BOOLEAN, step \in {"open", "command"} :
        /\ call' = [call EXCEPT ![c] = [src |-> src, dst |-> dst, manifest |-> m, dry |-> dry]]
        /\ pc' = [pc EXCEPT ![c] = step]
  BY DEF Ask, Goto
<1>3. [src |-> src, dst |-> dst, manifest |-> m, dry |-> dry] \in Asked
  BY DEF Asked
<1>4. pc'[c] = step /\ \A d \in Calls \ {c} : pc'[d] = pc[d] /\ call'[d] = call[d]
  BY <1>2 DEF IInv, TypeOK
<1>5. Taken(c)' = None
  BY <1>4 DEF Taken
<1>6. ASSUME NEW d \in Calls \ {c} PROVE Taken(d)' = Taken(d)
  <2>1. Way(d)' = Way(d)
    BY <1>4, SameCall
  <2> QED
    BY <1>1, <1>4, <2>1 DEF Taken
<1>7. \A d \in Calls : Told(d)' = Told(d)
  BY <1>1, <1>4 DEF Told
<1>8. \A p \in Paths : File(p)' = File(p)
  BY <1>1 DEF File, Readable
<1> QED
  BY <1>1, <1>2, <1>3, <1>5, <1>6, <1>7, <1>8 DEF Atomic!Ask

\* What a step of call c changes besides its own.
LEMMA StepSeen ==
  ASSUME IInv, Separate, NEW c \in Calls, CallStep(c)
  PROVE  Discreet(c) /\ pc[c] \notin {"idle", "ended", "killed"}
<1>1. pc[c] \notin {"idle", "ended", "killed"} /\ call' = call
  BY DEF CallStep, Command, Open, Create, Fill, Reopen, Patch, Flush, Rename
<1>2. \A d \in Calls \ {c} : /\ pc'[d] = pc[d] /\ view'[d] = view[d]
                             /\ from'[d] = from[d] /\ result'[d] = result[d]
  <2> USE DEF IInv, TypeOK, Goto, End, Fail
  <2>1. CASE Command(c)
    BY <2>1 DEF Command
  <2>2. CASE Open(c)
    BY <2>2 DEF Open
  <2>3. CASE Create(c)
    BY <2>3 DEF Create
  <2>4. CASE Fill(c)
    BY <2>4 DEF Fill
  <2>5. CASE Reopen(c)
    BY <2>5 DEF Reopen
  <2>6. CASE Patch(c)
    BY <2>6 DEF Patch
  <2>7. CASE Flush(c)
    BY <2>7 DEF Flush
  <2>8. CASE Rename(c)
    BY <2>8 DEF Rename
  <2> QED
    BY <2>1, <2>2, <2>3, <2>4, <2>5, <2>6, <2>7, <2>8 DEF CallStep
<1>3. \A i \in Inodes \ {c} : bytes'[i] = bytes[i]
  <2>1. pc[c] \in {"fill", "patch"} => to[c] = c
    BY DEF IInv, CallInv, StepInv
  <2>2. pc[c] = "create" => call[c] \in Asked
    BY SeenOf
  <2>3. pc[c] = "create" => name[Temp(c)] = None
    BY <2>2, TempOf DEF Placed
  <2>4. CASE Create(c)
    BY <2>3, <2>4 DEF Create, IInv, TypeOK
  <2>5. CASE Fill(c)
    BY <2>1, <2>5 DEF Fill, IInv, TypeOK
  <2>6. CASE Patch(c)
    BY <2>1, <2>6 DEF Patch, IInv, TypeOK
  <2> QED
    BY <2>4, <2>5, <2>6 DEF CallStep, Command, Open, Reopen, Flush, Rename
<1> QED
  BY <1>1, <1>2, <1>3, OthersUnseen

LEMMA FailSeen ==
  ASSUME IInv, IInv', Separate, NEW c \in Calls, CallStep(c), Fail(c)
  PROVE  Atomic!GiveUp(c)
<1>1. Discreet(c) /\ pc[c] \notin {"idle", "ended", "killed"}
  BY StepSeen
<1>2. Temp(c) \notin Paths
  BY <1>1, OwnName, SeenOf DEF IInv
<1>3. \A p \in Paths : name'[p] = name[p]
  BY <1>2 DEF Fail
<1>4. pc'[c] = "ended" /\ result'[c] = "failed"
  BY DEF Fail, End, Goto, IInv, TypeOK
<1> QED
  BY <1>1, <1>3, <1>4, EndSeen

LEMMA CallSeen ==
  ASSUME IInv, IInv', Separate, NEW c \in Calls, CallStep(c)
  PROVE  [Atomic!Next]_Seen
<1>1. Discreet(c) /\ pc[c] \notin {"idle", "ended", "killed"} /\ Told(c) = None
      /\ result[c] = None /\ Way(c)' = Way(c)
  BY StepSeen, SeenOf, Apart, SameCall DEF Discreet
<1>2. CASE Fail(c)
  BY <1>2, FailSeen DEF Atomic!Next
<1>3. ASSUME name' = name, pc' = [pc EXCEPT ![c] = "ended"], result'[c] # "written"
      PROVE  Atomic!Next
  <2>1. pc'[c] = "ended"
    BY <1>3 DEF IInv, TypeOK
  <2> QED
    BY <1>1, <1>3, <2>1, EndSeen DEF Atomic!Next
<1>4. ASSUME name' = name, pc'[c] \notin {"ended", "killed"}, result' = result,
             Taken(c)' = Taken(c)
      PROVE  UNCHANGED Seen
  <2>1. Told(c)' = Told(c)
    BY <1>1, <1>4, NamesAssumption DEF Told, Results
  <2> QED
    BY <1>1, <1>4, <2>1, Unseen
<1>5. ASSUME \A p \in Paths : name'[p] = name[p], pc'[c] \notin {"ended", "killed"},
             result' = result, Taken(c)' = bytes[name[call[c].src]]
      PROVE  Atomic!Next
  <2>1. Told(c)' = Told(c)
    BY <1>1, <1>5, NamesAssumption DEF Told, Results
  <2> QED
    BY <1>1, <1>5, <2>1, TakeSeen DEF Atomic!Next
<1>6. pc \in [Calls -> Steps] /\ result \in [Calls -> Results \cup {None}]
      /\ view \in [Calls -> Contents] /\ from \in [Calls -> Inodes \cup {None}]
  BY DEF IInv, TypeOK
<1>7. CASE Command(c)
  <2>1. CASE End(c, "failed") \/ End(c, "dry")
    BY <1>3, <1>6, <1>7, <2>1 DEF Command, End, Goto
  <2>2. CASE Goto(c, "open") /\ UNCHANGED result
    BY <1>4, <1>6, <1>7, <2>2 DEF Command, Goto, Taken
  <2> QED
    BY <1>7, <2>1, <2>2 DEF Command
<1>8. CASE Open(c)
  <2>1. CASE End(c, "failed") \/ End(c, "refused")
    BY <1>3, <1>6, <1>8, <2>1 DEF Open, End, Goto
  <2>2. CASE ~(End(c, "failed") \/ End(c, "refused"))
    <3>1. /\ view'[c] = bytes[name[call[c].src]] /\ pc'[c] = "create"
          /\ UNCHANGED <<name, result>>
      BY <1>6, <1>8, <2>2 DEF Open, Goto
    <3> QED
      BY <1>5, <3>1 DEF Taken
  <2> QED
    BY <2>1, <2>2
<1>9. CASE Create(c) /\ ~Fail(c)
  <2>1. /\ pc[c] = "create" /\ pc'[c] = "fill" /\ from'[c] = name[call[c].src]
        /\ UNCHANGED <<result, view>>
    BY <1>6, <1>9 DEF Create, Goto
  <2>2. Temp(c) \notin Paths
    BY <1>1, OwnName, SeenOf DEF IInv
  <2>3. \A p \in Paths : name'[p] = name[p]
    BY <1>9, <2>2 DEF Create, IInv, TypeOK, Names
  <2>4. CASE Way(c) = "tmp"
    <3>1. Taken(c)' = Taken(c) /\ Told(c)' = Told(c)
      BY <1>1, <2>1, <2>4, NamesAssumption DEF Taken, Told, Results
    <3> QED
      BY <1>1, <2>3, <3>1, Unseen
  <2>5. CASE Way(c) # "tmp"
    <3>1. /\ call[c].src \in Paths
          /\ Taken(c)' = bytes'[name[call[c].src]]
      BY <1>1, <2>1, <2>5, SeenOf DEF Taken, Asked
    <3>2. Taken(c)' = bytes[name[call[c].src]]
      BY <1>1, <3>1, SeenOf DEF Discreet
    <3> QED
      BY <1>5, <2>1, <2>3, <3>2
  <2> QED
    BY <2>4, <2>5
<1>10. CASE Fill(c) /\ ~Fail(c)
  <2>1. /\ pc[c] = "fill" /\ pc'[c] \in {"reopen", "rename"}
        /\ UNCHANGED <<name, result>>
        /\ view'[c] = IF Way(c) = "tmp" THEN view[c] ELSE bytes[from[c]]
    BY <1>6, <1>10 DEF Fill, Goto
  <2> QED
    BY <1>4, <2>1 DEF Taken
<1>11. CASE Reopen(c) /\ ~Fail(c)
  <2>1. pc[c] = "reopen" /\ pc'[c] = "patch" /\ UNCHANGED <<name, result, view>>
    BY <1>6, <1>11 DEF Reopen, Goto
  <2> QED
    BY <1>4, <2>1 DEF Taken
<1>12. CASE Patch(c) /\ ~Fail(c)
  <2>1. /\ pc[c] = "patch" /\ pc'[c] \in {"flush", "patch"}
        /\ UNCHANGED <<name, result, view>>
    BY <1>6, <1>12 DEF Patch, Goto
  <2> QED
    BY <1>4, <2>1 DEF Taken
<1>13. CASE Flush(c) /\ ~Fail(c)
  <2>1. pc[c] = "flush" /\ pc'[c] = "rename" /\ UNCHANGED <<name, result, view>>
    BY <1>6, <1>13 DEF Flush, Goto
  <2> QED
    BY <1>4, <2>1 DEF Taken
<1>14. CASE Rename(c) /\ ~Fail(c)
  <2>1. /\ pc[c] = "rename" /\ name[Temp(c)] # None /\ UNCHANGED bytes
        /\ name' = [name EXCEPT ![call[c].dst] = name[Temp(c)], ![Temp(c)] = None]
        /\ pc'[c] = "ended" /\ result'[c] = "written"
    BY <1>6, <1>14 DEF Rename, End, Goto
  <2> QED
    BY <1>1, <2>1, WriteSeen DEF Atomic!Next
<1> QED
  BY <1>2, <1>7, <1>8, <1>9, <1>10, <1>11, <1>12, <1>13, <1>14 DEF CallStep

LEMMA KilledSeen ==
  ASSUME IInv, IInv', Separate, NEW c \in Calls, Killed(c)
  PROVE  Atomic!GiveUp(c)
<1>1. /\ UNCHANGED <<name, bytes, whole, call, view, from, to, done, result>>
      /\ pc[c] \notin {"idle", "ended", "killed"}
  BY DEF Killed
<1>2. pc'[c] = "killed" /\ \A d \in Calls \ {c} : pc'[d] = pc[d]
  BY <1>1 DEF Killed, Separate
<1>3. Discreet(c) /\ result[c] = None
  BY <1>1, <1>2, OthersUnseen, Apart
<1> QED
  BY <1>1, <1>2, <1>3, EndSeen, NamesAssumption DEF Results

LEMMA InitSeen == Init => Atomic!Init
<1> SUFFICES ASSUME Init PROVE Atomic!Init
  OBVIOUS
<1>1. IInv
  BY InitIInv
<1>2. \A p \in Paths : File(p) \in Contents
  BY <1>1, SeenOf
<1>3. \A c \in Calls : Taken(c) = None /\ Told(c) = None
  BY <1>1, SeenOf DEF Init
<1> QED
  BY <1>2, <1>3 DEF Init, Atomic!Init

LEMMA NextSeen ==
  ASSUME Separate
  PROVE  IInv /\ IInv' /\ [Next]_vars => [Atomic!Next]_Seen
<1> SUFFICES ASSUME IInv, IInv', [Next]_vars PROVE [Atomic!Next]_Seen
  OBVIOUS
<1>1. ASSUME NEW c \in Calls, NEW src \in Paths, NEW dst \in Paths,
             NEW m \in Manifests \cup {None}, Ask(c, src, dst, m)
      PROVE  Atomic!Next
  BY <1>1, AskSeen DEF Atomic!Next
<1>2. ASSUME NEW c \in Calls, CallStep(c) PROVE [Atomic!Next]_Seen
  BY <1>2, CallSeen
<1>3. ASSUME NEW c \in Calls, Killed(c) PROVE Atomic!Next
  BY <1>3, KilledSeen DEF Atomic!Next
<1>4. CASE UNCHANGED vars
  BY <1>4 DEF vars, Seen, File, Readable, Taken, Told, Way, List
<1> QED
  BY <1>1, <1>2, <1>3, <1>4 DEF Next, Rest

--------------------------------------------------------------------------------
\* With calls in processes of their own, the invariant holds.
THEOREM Invariance == ASSUME Separate PROVE Spec => []IInv
<1>1. Init => IInv
  BY InitIInv
<1>2. IInv /\ [Next]_vars => IInv'
  BY NextIInv
<1> QED
  BY <1>1, <1>2, PTL DEF Spec

\* Every variable stays in its type (the state of write_with_patches).
THEOREM TypeCorrect == ASSUME Separate PROVE Spec => []TypeOK
<1>1. IInv => TypeOK
  BY DEF IInv
<1> QED
  BY <1>1, Invariance, PTL

\* A Revit file found under its name is whole, whatever fails or is killed: "The
\* write is atomic" (writer.rs) holds between processes.
THEOREM TargetsAreWhole == ASSUME Separate PROVE Spec => []TargetIsWhole
<1>1. IInv => TargetIsWhole
  <2> SUFFICES ASSUME IInv, NEW p \in Paths PROVE Readable(p)
    BY DEF TargetIsWhole
  <2>1. name[p] \in Settled /\ Settled \subseteq whole /\ whole \subseteq Inodes
    BY DEF IInv, NameInv, TypeOK
  <2> QED
    BY <2>1, NamesAssumption DEF Readable
<1> QED
  BY <1>1, Invariance, PTL

\* A call that did not write put nothing in place, and none that patches leaves a
\* temporary file (InplaceGuard, TempGuard).
THEOREM NothingIsLeft == ASSUME Separate PROVE Spec => []CleanUnlessCopy
<1>1. ASSUME IInv PROVE NoneWrittenUnlessDone
  <2> SUFFICES ASSUME NEW c \in Calls
               PROVE  /\ result[c] \in {"refused", "failed", "dry"} =>
                           \A p \in Paths : name[p] # c
                      /\ result[c] \in {"refused", "dry"} => to[c] = None
    BY DEF NoneWrittenUnlessDone
  <2>1. result[c] \in {"refused", "dry"} => to[c] = None
    BY <1>1 DEF IInv, CallInv, StepInv
  <2>2. result[c] # "written" => c \notin Settled
    BY NamesAssumption DEF Settled
  <2> QED
    BY <1>1, <2>1, <2>2 DEF IInv, NameInv
<1>2. IInv => PatchedLeavesNoTemp
  BY DEF IInv, CallInv, EndInv, PatchedLeavesNoTemp
<1> QED
  BY <1>1, <1>2, Invariance, PTL DEF CleanUnlessCopy

\* Between processes a call is one step to whoever opens the files: what its source
\* held at one moment is there with its patches, or nothing has changed
\* (write_with_patches).
THEOREM Implementation == ASSUME Separate PROVE Spec => RefinesAtomicWrite
<1>1. Init => Atomic!Init
  BY InitSeen
<1>2. IInv /\ IInv' /\ [Next]_vars => [Atomic!Next]_Seen
  BY NextSeen
<1> QED
  BY <1>1, <1>2, Invariance, PTL DEF Spec, RefinesAtomicWrite, Atomic!Spec, Seen
================================================================================
