--------------------------- MODULE ExportWriteProofs ---------------------------
(***************************************************************************)
(* Theorems about ExportWrite, for any number of exports, targets and      *)
(* chunks: targets are whole, the model is kept, nothing is replaced       *)
(* unasked, no temporary file stays, and exports implement AtomicExport,   *)
(* by which answers are true.                                              *)
(*                                                                         *)
(* The argument: only a temporary file that is complete reaches the step   *)
(* that places it, its owner alone can write to it, and an export is put   *)
(* in place in the step that decides its answer or just before it.  What   *)
(* has a temporary file ends by the rename that takes it or by a removal.  *)
(***************************************************************************)
EXTENDS ExportWrite, TLAPS

HasTemp == {"write", "check", "place", "unlink", "drop"}
HasPlan == {"decode", "create"} \cup HasTemp

\* The temporary file of an export, its target and its answer, by its step.
ExportInv(e) ==
  /\ pc[e] \in HasTemp => temp[e] # None
  /\ temp[e] # None => pc[e] \in HasTemp \cup {"ended"} /\ temp[e].by = e
  /\ pc[e] = "write" => temp[e].chunks < Chunks
  /\ pc[e] \in {"check", "place", "unlink"} => temp[e].chunks = Chunks
  /\ IF pc[e] = "idle" THEN target[e] = None ELSE target[e] \in Spellings
  /\ pc[e] \in HasPlan => At(e) \in Outputs
  /\ pc[e] = "ended" => result[e] # None
  /\ pc[e] = "drop" => result[e] \in {None, "failed"}
  /\ pc[e] \notin {"drop", "ended"} => result[e] = None
  /\ e \in put <=> pc[e] = "unlink" \/ result[e] = "written"

IInv ==
  /\ TypeOK /\ TargetIsWhole /\ InputIsKept
  /\ \A e \in Exports : ExportInv(e)

LEMMA FilesFacts ==
  /\ Foreign \in Files /\ Foreign # None /\ None \notin Files
  /\ Foreign # Link /\ Link \notin Files /\ Link # None
  /\ \A f \in Files : f.chunks \in Nat /\ f.chunks <= Chunks
  /\ \A f \in Files, n \in 0 .. Chunks : [f EXCEPT !.chunks = n] \in Files
  /\ \A e \in Exports, n \in 0 .. Chunks : [by |-> e, chunks |-> n] \in Files
BY ChunksAssumption, NamesAssumption DEF Files, Foreign

LEMMA InitIInv == Init => IInv
<1> SUFFICES ASSUME Init PROVE IInv
  OBVIOUS
<1> USE NamesAssumption, FilesFacts DEF Init
<1>1. TypeOK
  BY DEF TypeOK, Steps
<1>2. TargetIsWhole /\ InputIsKept
  BY DEF TargetIsWhole, InputIsKept, Foreign
<1>3. \A e \in Exports : ExportInv(e)
  BY DEF ExportInv, HasTemp, HasPlan
<1> QED
  BY <1>1, <1>2, <1>3 DEF IInv

\* An export goes from one step to another, and its temporary file stays or is
\* removed.
LEMMA GoStep ==
  ASSUME IInv, NEW e \in Exports, NEW step \in Steps,
         NEW r \in {"written", "cancelled", "failed", None},
         Goto(e, step), result' = [result EXCEPT ![e] = r],
         UNCHANGED temp \/ temp' = [temp EXCEPT ![e] = None],
         \/ pc[e] = "plan" /\ step = "decode" /\ ~Refused(e) /\ r = None /\ UNCHANGED temp
         \/ pc[e] = "decode" /\ step = "create" /\ r = None /\ UNCHANGED temp
         \/ pc[e] = "check" /\ step = "place" /\ r = None /\ UNCHANGED temp
         \/ /\ pc[e] \in {"write", "check"} /\ step = "drop" /\ r = None
            /\ UNCHANGED temp
         \/ pc[e] = "place" /\ step = "drop" /\ r = "failed" /\ UNCHANGED temp
         \/ /\ pc[e] \in {"plan", "decode", "create", "drop"} /\ step = "ended"
            /\ r \in {"cancelled", "failed"}
         \/ pc[e] = "unlink" /\ step = "ended" /\ r = "written",
         UNCHANGED <<dir, request, flag, put, world>>
  PROVE  IInv'
<1> USE NamesAssumption DEF IInv, Goto, request, world
<1>1. TypeOK'
  BY DEF TypeOK
<1>2. TargetIsWhole' /\ InputIsKept'
  BY DEF TargetIsWhole, InputIsKept
<1>3. ASSUME NEW f \in Exports PROVE ExportInv(f)'
  <2>1. ExportInv(f) /\ ExportInv(e) /\ UNCHANGED At(f)
    BY DEF At
  <2>2. CASE f = e
    <3>1. pc'[e] = step /\ result'[e] = r /\ (temp'[e] = temp[e] \/ temp'[e] = None)
      BY DEF TypeOK
    <3>2. step = "decode" => target[e] \in Spellings /\ At(e) \in Outputs
      BY <2>1 DEF ExportInv, Refused, At, Paths
    <3> QED
      BY <2>1, <2>2, <3>1, <3>2 DEF ExportInv, HasTemp, HasPlan
  <2>3. CASE f # e
    <3>1. pc'[f] = pc[f] /\ result'[f] = result[f] /\ temp'[f] = temp[f]
      BY <2>3 DEF TypeOK
    <3> QED
      BY <2>1, <3>1 DEF ExportInv
  <2> QED
    BY <2>2, <2>3
<1> QED
  BY <1>1, <1>2, <1>3

\* The temporary file is made, or a chunk is written to it.
LEMMA TempStep ==
  ASSUME IInv, NEW e \in Exports, NEW n \in 0 .. Chunks, NEW step,
         \/ /\ pc[e] = "create" /\ n = 0
            /\ temp' = [temp EXCEPT ![e] = [by |-> e, chunks |-> 0]]
         \/ /\ pc[e] = "write" /\ n = temp[e].chunks + 1
            /\ temp' = [temp EXCEPT ![e].chunks = @ + 1],
         step = IF n = Chunks THEN "check" ELSE "write", Goto(e, step),
         UNCHANGED <<dir, result, request, flag, put, world>>
  PROVE  IInv'
<1> USE NamesAssumption, ChunksAssumption DEF IInv, Goto, request, world
<1>1. temp'[e].by = e /\ temp'[e].chunks = n /\ temp'[e] \in Files
  <2>1. CASE pc[e] = "create" /\ temp' = [temp EXCEPT ![e] = [by |-> e, chunks |-> 0]]
    BY <2>1, FilesFacts DEF TypeOK
  <2>2. CASE pc[e] = "write" /\ temp' = [temp EXCEPT ![e].chunks = @ + 1]
    <3>1. temp[e] \in Files /\ temp[e].by = e /\ temp[e].chunks < Chunks
      BY <2>2 DEF TypeOK, ExportInv, HasTemp
    <3> QED
      BY <2>2, <3>1, FilesFacts DEF TypeOK, Files
  <2> QED
    BY <2>1, <2>2
<1>2. \A f \in Exports \ {e} : temp'[f] = temp[f] /\ pc'[f] = pc[f]
  BY DEF TypeOK
<1>3. TypeOK'
  BY <1>1 DEF TypeOK, Steps
<1>4. TargetIsWhole' /\ InputIsKept'
  BY DEF TargetIsWhole, InputIsKept
<1>5. ASSUME NEW f \in Exports PROVE ExportInv(f)'
  <2>1. ExportInv(f) /\ ExportInv(e) /\ UNCHANGED At(f)
    BY DEF At
  <2>2. CASE f = e
    BY <1>1, <2>1, <2>2, FilesFacts DEF ExportInv, TypeOK, HasTemp, HasPlan
  <2>3. CASE f # e
    BY <1>2, <2>1, <2>3 DEF ExportInv
  <2> QED
    BY <2>2, <2>3
<1> QED
  BY <1>3, <1>4, <1>5

\* The temporary file takes the target's name.
LEMMA PlaceStep ==
  ASSUME IInv, NEW e \in Exports, pc[e] = "place",
         over[e] \/ dir[At(e)] = None, Put(e),
         \/ Renamed(e) /\ End(e, "written")
         \/ Goto(e, "unlink") /\ UNCHANGED <<temp, result>>,
         UNCHANGED <<request, flag, world>>
  PROVE  IInv'
<1> USE NamesAssumption DEF IInv, End, Goto, Put, Renamed, request, world
<1>1. /\ ExportInv(e) /\ At(e) \in Outputs /\ At(e) # Input
      /\ temp[e] \in Files /\ temp[e].chunks = Chunks
  BY DEF ExportInv, HasPlan, HasTemp, TypeOK
<1>2. TypeOK'
  <2>1. dir' \in [Paths -> Files \cup {None, Link}]
    BY <1>1 DEF TypeOK, Paths
  <2>2. /\ temp' \in [Exports -> Files \cup {None}]
        /\ pc' \in [Exports -> Steps]
        /\ result' \in [Exports -> {"written", "cancelled", "failed", None}]
    BY DEF TypeOK, Steps
  <2>3. put' \subseteq Exports
    BY DEF TypeOK
  <2> QED
    BY <2>1, <2>2, <2>3 DEF TypeOK
<1>3. TargetIsWhole' /\ InputIsKept'
  BY <1>1 DEF TargetIsWhole, InputIsKept, TypeOK, Paths
<1>4. ASSUME NEW f \in Exports PROVE ExportInv(f)'
  <2>1. ExportInv(f) /\ UNCHANGED At(f)
    BY DEF At
  <2> QED
    BY <1>1, <2>1 DEF ExportInv, TypeOK, HasTemp, HasPlan
<1> QED
  BY <1>2, <1>3, <1>4

LEMMA AskStep ==
  ASSUME IInv, NEW e \in Exports, NEW n \in Spellings, NEW o \in BOOLEAN,
         Ask(e, n, o)
  PROVE  IInv'
<1> USE NamesAssumption DEF IInv, Ask, Goto, world
<1>1. TypeOK'
  BY DEF TypeOK, Steps
<1>2. TargetIsWhole' /\ InputIsKept'
  BY DEF TargetIsWhole, InputIsKept
<1>3. ASSUME NEW f \in Exports PROVE ExportInv(f)'
  <2>1. ExportInv(f) /\ ExportInv(e)
    OBVIOUS
  <2>2. CASE f = e
    BY <2>1, <2>2 DEF ExportInv, TypeOK, HasTemp, HasPlan
  <2>3. CASE f # e
    <3>1. pc'[f] = pc[f] /\ target'[f] = target[f] /\ UNCHANGED At(f)
      BY <2>3 DEF TypeOK, At
    <3> QED
      BY <2>1, <3>1 DEF ExportInv
  <2> QED
    BY <2>2, <2>3
<1> QED
  BY <1>1, <1>2, <1>3

\* Others make and remove files, cancel exports, close folders and kill the
\* server.
LEMMA OthersStep ==
  ASSUME IInv,
         \/ \E e \in Exports : Cancel(e)
         \/ \E p \in Paths : Appear(p) \/ Vanish(p)
         \/ Close \/ Killed
  PROVE  IInv'
<1> USE NamesAssumption DEF IInv, Cancel, Appear, Vanish, Close, Killed, request, world
<1>1. TypeOK'
  <2>1. Foreign \in Files
    BY FilesFacts
  <2>2. CASE \E e \in Exports : Cancel(e)
    BY <2>2 DEF TypeOK
  <2>3. CASE \E p \in Paths : Appear(p) \/ Vanish(p)
    <3>1. dir' \in [Paths -> Files \cup {None, Link}]
      BY <2>1, <2>3 DEF TypeOK
    <3> QED
      BY <2>3, <3>1 DEF TypeOK
  <2>4. CASE Close \/ Killed
    BY <2>4 DEF TypeOK
  <2> QED
    BY <2>2, <2>3, <2>4
<1>2. TargetIsWhole' /\ InputIsKept'
  BY FilesFacts DEF TargetIsWhole, InputIsKept, TypeOK, Paths, Foreign
<1>3. ASSUME NEW f \in Exports PROVE ExportInv(f)'
  <2>1. ExportInv(f) /\ UNCHANGED <<At(f), temp, pc, target, result, put>>
    BY DEF At
  <2> QED
    BY <2>1 DEF ExportInv
<1> QED
  BY <1>1, <1>2, <1>3

LEMMA ExportNext ==
  ASSUME IInv, NEW e \in Exports, ExportStep(e)
  PROVE  IInv'
<1>0. /\ result = [result EXCEPT ![e] = result[e]]
      /\ pc[e] \notin {"drop", "ended"} => result[e] = None
      /\ pc[e] = "drop" => result[e] \in {None, "failed"}
  BY DEF IInv, TypeOK, ExportInv
<1>1. CASE Plan(e)
  BY <1>0, <1>1, GoStep DEF Plan, End, Steps
<1>2. CASE Decode(e)
  BY <1>0, <1>2, GoStep DEF Decode, End, Steps
<1>3. CASE Create(e)
  <2>1. CASE End(e, "failed") /\ UNCHANGED temp
    BY <1>3, <2>1, GoStep DEF Create, End, Steps
  <2>2. CASE ~(End(e, "failed") /\ UNCHANGED temp)
    <3>1. 0 \in 0 .. Chunks /\ "write" = IF 0 = Chunks THEN "check" ELSE "write"
      BY ChunksAssumption
    <3> QED
      BY <1>3, <2>2, <3>1, TempStep DEF Create
  <2> QED
    BY <2>1, <2>2
<1>4. CASE Write(e)
  <2>1. CASE Goto(e, "drop") /\ UNCHANGED temp
    BY <1>0, <1>4, <2>1, GoStep DEF Write, Steps
  <2>2. CASE Chunk(e)
    <3> DEFINE n == temp[e].chunks + 1
    <3>1. n \in 0 .. Chunks
      <4>1. temp[e].chunks \in Nat /\ temp[e].chunks < Chunks
        BY <1>4, ChunksAssumption
           DEF Write, IInv, TypeOK, ExportInv, HasTemp, Files
      <4> QED
        BY <4>1, ChunksAssumption
    <3>2. /\ pc[e] = "write"
          /\ temp' = [temp EXCEPT ![e].chunks = @ + 1]
          /\ Goto(e, IF n = Chunks THEN "check" ELSE "write")
          /\ UNCHANGED <<dir, result, request, flag, put, world>>
      BY <1>4, <2>2 DEF Write, Chunk
    <3> QED
      BY <3>1, <3>2, TempStep
  <2> QED
    BY <1>4, <2>1, <2>2 DEF Write
<1>5. CASE FinalCheck(e)
  BY <1>0, <1>5, GoStep DEF FinalCheck, Steps
<1>6. CASE Place(e)
  BY <1>6, GoStep, PlaceStep DEF Place, Steps
<1>7. CASE Unlink(e)
  BY <1>7, GoStep DEF Unlink, Remove, End, Steps
<1>8. CASE Drop(e)
  BY <1>0, <1>8, GoStep, NamesAssumption DEF Drop, Remove, End, Steps
<1> QED
  BY <1>1, <1>2, <1>3, <1>4, <1>5, <1>6, <1>7, <1>8 DEF ExportStep

LEMMA NextIInv == IInv /\ [Next]_vars => IInv'
<1> SUFFICES ASSUME IInv, [Next]_vars PROVE IInv'
  OBVIOUS
<1>1. CASE UNCHANGED vars
  BY <1>1 DEF vars, request, world, IInv, TypeOK, TargetIsWhole, InputIsKept,
              ExportInv, At
<1>2. ASSUME NEW e \in Exports, NEW n \in Spellings, NEW o \in BOOLEAN, Ask(e, n, o)
      PROVE  IInv'
  BY <1>2, AskStep
<1>3. ASSUME NEW e \in Exports, ExportStep(e)
      PROVE  IInv'
  BY <1>3, ExportNext
<1> QED
  BY <1>1, <1>2, <1>3, OthersStep DEF Next

LEMMA IInvImplies == IInv => TypeOK /\ TargetIsWhole /\ InputIsKept
BY DEF IInv

\* A step that puts an export in place over a file was allowed to.
LEMMA PutStep ==
  [Next]_vars =>
    \A e \in Exports : e \in put' \ put /\ dir[At(e)] # None => over[e]
BY DEF Next, vars, request, world, Ask, Cancel, ExportStep, Plan, Decode, Create,
       Write, FinalCheck, Place, Put, Unlink, Drop, Close, Killed, Appear, Vanish

\* The step that ends an export takes its temporary file away, if it has one.
LEMMA EndStep ==
  ASSUME IInv, [Next]_vars, NEW e \in Exports,
         pc[e] # "ended", pc'[e] = "ended", ~closed
  PROVE  temp'[e] = None
<1>1. pc[e] \in {"plan", "decode", "create"} => temp[e] = None
  BY DEF IInv, ExportInv, HasTemp
<1>2. pc \in [Exports -> Steps] /\ temp \in [Exports -> Files \cup {None}]
  BY DEF IInv, TypeOK
<1>3. ASSUME NEW f \in Exports, ExportStep(f) PROVE temp'[e] = None
  <2>1. f = e
    BY <1>2, <1>3 DEF ExportStep, Plan, Decode, Create, Write, Chunk, FinalCheck,
                      Place, Unlink, Drop, End, Goto
  <2>2. CASE Plan(e) \/ Decode(e) \/ Create(e)
    BY <1>1, <1>2, <2>2 DEF Plan, Decode, Create, Goto
  <2>3. CASE Write(e) \/ FinalCheck(e)
    BY <1>2, <2>3 DEF Write, Chunk, FinalCheck, Goto
  <2>4. CASE Place(e)
    BY <1>2, <2>4 DEF Place, Renamed, Goto
  <2>5. CASE Unlink(e) \/ Drop(e)
    BY <1>2, <2>5 DEF Unlink, Drop, Remove
  <2> QED
    BY <1>3, <2>1, <2>2, <2>3, <2>4, <2>5 DEF ExportStep
<1>4. ASSUME NEW f \in Exports, NEW n \in Spellings, NEW o \in BOOLEAN, Ask(f, n, o)
      PROVE  FALSE
  BY <1>2, <1>4 DEF Ask, Goto
<1>5. pc' # pc
  OBVIOUS
<1> QED
  BY <1>3, <1>4, <1>5 DEF Next, vars, Cancel, Killed, Close, Appear, Vanish

-----------------------------------------------------------------------------
(* Each step is one of AtomicExport, or nothing that it tells of. *)

Seen == <<[p \in Paths |-> Found(p)], [e \in Exports |-> Order(e)],
          [e \in Exports |-> Told(e)]>>

\* Every file that is found is whole, and an export is open from when it is asked
\* for until it is put in place, has failed or ends.
LEMMA SeenOf ==
  ASSUME IInv
  PROVE  /\ \A p \in Paths : Found(p) = IF dir[p] = None THEN None
                                        ELSE IF dir[p] = Link THEN Someone ELSE dir[p].by
         /\ \A e \in Exports :
              IF pc[e] = "idle" THEN Order(e) = None
              ELSE Order(e) = [path |-> At(e), over |-> over[e]] /\ Order(e) # None
         /\ \A e \in Exports : pc[e] \notin {"unlink", "drop", "ended"} => Told(e) = None
<1> USE NamesAssumption
<1>1. \A p \in Paths : Found(p) = IF dir[p] = None THEN None
                                  ELSE IF dir[p] = Link THEN Someone ELSE dir[p].by
  BY DEF IInv, TargetIsWhole, Found
<1>2. ASSUME NEW e \in Exports
      PROVE  IF pc[e] = "idle" THEN Order(e) = None
             ELSE Order(e) = [path |-> At(e), over |-> over[e]] /\ Order(e) # None
  <2>1. ExportInv(e) /\ over[e] \in BOOLEAN
    BY DEF IInv, TypeOK
  <2>2. CASE pc[e] = "idle"
    BY <2>1, <2>2 DEF ExportInv, Order
  <2>3. CASE pc[e] # "idle"
    <3>1. target[e] \in Spellings /\ target[e] # None /\ At(e) \in Paths
      BY <2>1, <2>3 DEF ExportInv, At
    <3>2. Order(e) = [path |-> At(e), over |-> over[e]]
      BY <3>1 DEF Order
    <3>3. [path |-> At(e), over |-> over[e]] \in [path : Paths, over : BOOLEAN]
      BY <2>1, <3>1
    <3> QED
      BY <2>3, <3>2, <3>3
  <2> QED
    BY <2>2, <2>3
<1>3. \A e \in Exports : pc[e] \notin {"unlink", "drop", "ended"} => Told(e) = None
  BY DEF IInv, ExportInv, Told
<1> QED
  BY <1>1, <1>2, <1>3

LEMMA SameSeen ==
  ASSUME UNCHANGED <<dir, target, over>>, \A e \in Exports : Told(e)' = Told(e)
  PROVE  UNCHANGED Seen
BY DEF Seen, Found, Order, At

LEMMA InitSeen == Init => Atomic!Init
<1> SUFFICES ASSUME Init PROVE Atomic!Init
  OBVIOUS
<1>1. \A p \in Paths : Found(p) = IF dir[p] = None THEN None ELSE Someone
  BY FilesFacts DEF Init, Found, Foreign
<1>2. \A e \in Exports : Order(e) = None /\ Told(e) = None
  BY NamesAssumption DEF Init, Order, Told
<1>3. Input \in Paths /\ dir[Input] # None
  BY FilesFacts DEF Init, Paths
<1> QED
  BY <1>1, <1>2, <1>3 DEF Atomic!Init

\* An export that was not put in place is known not to be.
LEMMA GiveUpSeen ==
  ASSUME IInv, NEW e \in Exports, pc[e] \notin {"idle", "ended", "unlink"},
         result[e] = None, NEW r \in {"cancelled", "failed"},
         NEW step \in Steps \ {"unlink"}, Goto(e, step),
         result' = [result EXCEPT ![e] = r], UNCHANGED <<dir, target, over>>
  PROVE  Atomic!GiveUp(e)
<1>1. Order(e) # None /\ Told(e) = None
  BY SeenOf DEF Told
<1>2. /\ pc' = [pc EXCEPT ![e] = step] /\ result' = [result EXCEPT ![e] = r]
      /\ pc \in [Exports -> Steps]
      /\ result \in [Exports -> {"written", "cancelled", "failed", None}]
  BY DEF Goto, IInv, TypeOK
<1>3. Told(e)' = "nothing" /\ \A f \in Exports \ {e} : Told(f)' = Told(f)
  BY <1>2, NamesAssumption DEF Told
<1>4. \A p \in Paths : Found(p)' = Found(p)
  BY DEF Found
<1>5. \A f \in Exports : Order(f)' = Order(f)
  BY DEF Order, At
<1> QED
  BY <1>1, <1>3, <1>4, <1>5 DEF Atomic!GiveUp, Atomic!Open, Atomic!Answer

\* An export is put in place.
LEMMA PlaceSeen ==
  ASSUME IInv, NEW e \in Exports, Place(e), Put(e)
  PROVE  Atomic!Export(e)
<1> USE NamesAssumption
<1>1. /\ pc[e] = "place" /\ At(e) \in Outputs /\ At(e) \in Paths
      /\ At(e) # Input /\ e \notin put
      /\ temp[e] # None /\ temp[e] # Link /\ temp[e].by = e /\ temp[e].chunks = Chunks
  BY FilesFacts DEF Place, IInv, TypeOK, ExportInv, HasTemp, HasPlan, Paths
<1>2. /\ dir' = [dir EXCEPT ![At(e)] = temp[e]]
      /\ over[e] \/ dir[At(e)] = None
      /\ End(e, "written") \/ (Goto(e, "unlink") /\ UNCHANGED result)
      /\ UNCHANGED <<target, over>>
  <2>1. put' # put
    BY <1>1 DEF Put
  <2> QED
    BY <2>1 DEF Place, Put, request
<1>3. /\ Order(e) = [path |-> At(e), over |-> over[e]] /\ Order(e) # None
      /\ Told(e) = None
  BY <1>1, SeenOf
<1>4. Told(e)' = "written" /\ \A f \in Exports \ {e} : Told(f)' = Told(f)
  BY <1>2 DEF End, Goto, IInv, TypeOK, Told
<1>5. \A p \in Paths : Found(p)' = IF p = At(e) THEN e ELSE Found(p)
  <2>1. \A p \in Paths : dir'[p] = IF p = At(e) THEN temp[e] ELSE dir[p]
    BY <1>1, <1>2 DEF IInv, TypeOK
  <2> QED
    BY <1>1, <2>1 DEF Found
<1>6. \A f \in Exports : Order(f)' = Order(f)
  BY <1>2 DEF Order, At
<1>7. Found(At(e)) = None \/ over[e]
  BY <1>1, <1>2 DEF Found
<1> DEFINE found == [p \in Paths |-> Found(p)]
           order == [f \in Exports |-> Order(f)]
           answer == [f \in Exports |-> Told(f)]
<1>8. order[e].path = At(e) /\ order[e].over = over[e]
  BY <1>3
<1>9. Atomic!Open(e)
  BY <1>3 DEF Atomic!Open
<1>10. found' = [found EXCEPT ![At(e)] = e] /\ order' = order
  BY <1>1, <1>5, <1>6
<1>11. Atomic!Answer(e, "written")
  BY <1>4 DEF Atomic!Answer
<1>12. found[At(e)] = None \/ over[e]
  BY <1>1, <1>7
<1> QED
  BY <1>1, <1>8, <1>9, <1>10, <1>11, <1>12 DEF Atomic!Export

LEMMA AskSeen ==
  ASSUME IInv, NEW e \in Exports, NEW n \in Spellings, NEW o \in BOOLEAN, Ask(e, n, o)
  PROVE  Atomic!Ask(e)
<1> USE NamesAssumption
<1>1. /\ pc[e] = "idle" /\ pc' = [pc EXCEPT ![e] = "plan"]
      /\ target' = [target EXCEPT ![e] = n] /\ over' = [over EXCEPT ![e] = o]
      /\ UNCHANGED <<dir, result>>
  BY DEF Ask, Goto
<1>2. Entry(n) \in Paths /\ Order(e) = None
      /\ Order(e)' = [path |-> Entry(n), over |-> o]
  BY <1>1, SeenOf DEF IInv, TypeOK, Order, At
<1>3. \A f \in Exports \ {e} : Order(f)' = Order(f)
  BY <1>1 DEF IInv, TypeOK, Order, At
<1>4. \A f \in Exports : Told(f)' = Told(f)
  BY <1>1 DEF IInv, TypeOK, Told
<1>5. \A q \in Paths : Found(q)' = Found(q)
  BY <1>1 DEF Found
<1> QED
  BY <1>2, <1>3, <1>4, <1>5 DEF Atomic!Ask

LEMMA OthersSeen ==
  ASSUME IInv, NEW p \in Paths, Appear(p) \/ Vanish(p)
  PROVE  Atomic!Others(p)
<1> USE NamesAssumption, FilesFacts
<1>1. PICK f \in {Foreign, Link} :
        /\ p # Input /\ UNCHANGED <<target, over, pc, result>>
        /\ dir' = [dir EXCEPT ![p] = IF dir[p] = None THEN f ELSE None]
  BY DEF Appear, Vanish, IInv, InputIsKept, request
<1>2. \A q \in Paths : dir'[q] = IF q # p THEN dir[q] ELSE IF dir[p] = None THEN f ELSE None
  BY <1>1 DEF IInv, TypeOK
<1>3. Found(p)' = IF Found(p) = None THEN Someone ELSE None
  <2>1. f # None /\ (f = Link \/ (f # Link /\ f.by = Someone /\ f.chunks = Chunks))
    BY DEF Foreign
  <2>2. CASE dir[p] = None
    BY <1>2, <2>1, <2>2 DEF Found
  <2>3. CASE dir[p] # None
    <3>1. Found(p) # None
      BY <2>3, SeenOf DEF Found, IInv, TypeOK, Files
    <3> QED
      BY <1>2, <2>3, <3>1 DEF Found
  <2> QED
    BY <2>2, <2>3
<1>4. \A q \in Paths \ {p} : Found(q)' = Found(q)
  BY <1>2 DEF Found
<1>5. \A e \in Exports : Order(e)' = Order(e) /\ Told(e)' = Told(e)
  BY <1>1 DEF Order, Told, At
<1> QED
  BY <1>1, <1>3, <1>4, <1>5 DEF Atomic!Others

LEMMA NextSeen == IInv /\ [Next]_vars => [Atomic!Next]_Seen
<1> SUFFICES ASSUME IInv, [Next]_vars PROVE [Atomic!Next]_Seen
  OBVIOUS
<1>1. ASSUME NEW e \in Exports, NEW n \in Spellings, NEW o \in BOOLEAN, Ask(e, n, o)
      PROVE  Atomic!Next
  BY <1>1, AskSeen DEF Atomic!Next
<1>2. ASSUME NEW e \in Exports, ExportStep(e)
      PROVE  [Atomic!Next]_Seen
  <2>0. ExportInv(e) /\ pc[e] \in Steps
    BY DEF IInv, TypeOK
  <2>1. ASSUME pc[e] \notin {"idle", "ended", "unlink"}, result[e] = None,
               NEW r \in {"cancelled", "failed"},
               NEW step \in Steps \ {"unlink"}, Goto(e, step),
               result' = [result EXCEPT ![e] = r], UNCHANGED <<dir, target, over>>
        PROVE  Atomic!Next
    BY <2>1, GiveUpSeen DEF Atomic!Next
  <2>2. ASSUME pc[e] # "unlink", UNCHANGED <<dir, target, over, result>>,
               NEW step \in Steps \ {"unlink"}, Goto(e, step)
        PROVE  UNCHANGED Seen
    <3>1. \A f \in Exports : Told(f)' = Told(f)
      BY <2>2 DEF Goto, Told, IInv, TypeOK
    <3> QED
      BY <2>2, <3>1, SameSeen
  <2>3. CASE Unlink(e)
    <3>1. /\ pc[e] = "unlink" /\ result' = [result EXCEPT ![e] = "written"]
          /\ pc' = [pc EXCEPT ![e] = "ended"] /\ UNCHANGED <<dir, target, over>>
      BY <2>3 DEF Unlink, End, Goto, request
    <3>2. \A f \in Exports : Told(f)' = Told(f)
      BY <3>1 DEF Told, IInv, TypeOK
    <3> QED
      BY <3>1, <3>2, SameSeen
  <2>4. CASE Drop(e)
    <3>1. CASE result[e] = None
      BY <2>1, <2>4, <3>1 DEF Drop, End, Steps, request
    <3>2. CASE result[e] # None
      <4>1. UNCHANGED <<dir, target, over, result>> /\ Goto(e, "ended")
        BY <2>4, <3>2 DEF Drop, End, request, IInv, TypeOK
      <4> QED
        BY <2>2, <2>4, <4>1 DEF Drop, Steps
    <3> QED
      BY <3>1, <3>2
  <2>5. CASE Place(e)
    <3>1. CASE Put(e)
      BY <2>5, <3>1, PlaceSeen DEF Atomic!Next
    <3>2. CASE ~Put(e)
      <4>1. pc[e] = "place" /\ result[e] = None
        BY <2>0, <2>5 DEF Place, ExportInv
      <4> QED
        BY <2>1, <2>5, <3>2, <4>1 DEF Place, request, Steps
    <3> QED
      BY <3>1, <3>2
  <2>6. CASE Plan(e) \/ Decode(e) \/ Create(e)
    <3>1. result[e] = None
      BY <2>0, <2>6 DEF Plan, Decode, Create, ExportInv
    <3> QED
      BY <2>1, <2>2, <2>6, <3>1 DEF Plan, Decode, Create, End, Steps, request
  <2>7. CASE Write(e) \/ FinalCheck(e)
    BY <2>2, <2>7 DEF Write, Chunk, FinalCheck, Steps, request
  <2> QED
    BY <1>2, <2>3, <2>4, <2>5, <2>6, <2>7 DEF ExportStep
<1>3. ASSUME NEW e \in Exports, Cancel(e) PROVE UNCHANGED Seen
  BY <1>3, SameSeen DEF Cancel, Told, request
<1>4. ASSUME NEW p \in Paths, Appear(p) \/ Vanish(p) PROVE Atomic!Next
  BY <1>4, OthersSeen DEF Atomic!Next
<1>5. CASE Close \/ Killed \/ UNCHANGED vars
  BY <1>5, SameSeen DEF Close, Killed, vars, Told, request
<1> QED
  BY <1>1, <1>2, <1>3, <1>4, <1>5 DEF Next

-----------------------------------------------------------------------------

\* The inductive invariant holds of every reachable state.
THEOREM Invariance == Spec => []IInv
<1>1. Init => IInv
  BY InitIInv
<1>2. IInv /\ [Next]_vars => IInv'
  BY NextIInv
<1> QED
  BY <1>1, <1>2, PTL DEF Spec

\* The variables keep their types.
THEOREM TypeCorrect == Spec => []TypeOK
BY Invariance, IInvImplies, PTL

\* What is found under a target's name is whole.
THEOREM TargetsAreWhole == Spec => []TargetIsWhole
BY Invariance, IInvImplies, PTL

\* No export replaces the model it reads.
THEOREM ModelIsKept == Spec => []InputIsKept
BY Invariance, IInvImplies, PTL

\* The step that ends an export leaves no temporary file of it, unless its folder
\* lets nothing be removed then.
THEOREM TempsAreRemoved == Spec => LeavesNoTemp
<1>1. IInv /\ [Next]_vars =>
        [\A e \in Exports :
           pc[e] # "ended" /\ pc'[e] = "ended" /\ ~closed => temp'[e] = None]_vars
  BY EndStep
<1> QED
  BY <1>1, Invariance, PTL DEF Spec, LeavesNoTemp

\* Nothing is replaced without leave, whatever appeared since the plan.
THEOREM NothingReplacedUnasked == Spec => ReplacesOnlyIfAsked
BY PutStep, PTL DEF Spec, ReplacesOnlyIfAsked

\* An export is one step to whoever looks at the files and the answers: a whole
\* file and the answer that it is written, or neither.
THEOREM Implementation == Spec => RefinesAtomic
<1>1. Init => Atomic!Init
  BY InitSeen
<1>2. IInv /\ [Next]_vars => [Atomic!Next]_Seen
  BY NextSeen
<1> QED
  BY <1>1, <1>2, Invariance, PTL DEF Spec, RefinesAtomic, Atomic!Spec, Seen
=============================================================================
