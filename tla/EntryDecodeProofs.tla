--------------------------- MODULE EntryDecodeProofs ---------------------------
(***************************************************************************)
(* Theorems about EntryDecode, for every set of requests and number of     *)
(* threads: one decode on the handle at a time, none once one is kept, and *)
(* each failure its own request's; that nobody waits for one who does not  *)
(* go on; and that the decode is a cell filled once.                       *)
(*                                                                         *)
(* The argument: who holds which mutex is told by where the jobs are, the  *)
(* slot is empty while a default job is past its look into it, and a job   *)
(* has a result only from the slot or from a decode it ran itself.         *)
(***************************************************************************)
EXTENDS EntryDecode, FiniteSetTheorems, TLAPS

Past == {"lockFile", "begin", "decoding", "keep"}
Using == {"begin", "decoding"}

\* The mutexes, and what the slot may be.
LocksInv ==
  /\ \A j \in Jobs : holder["file"] = j <=> pc[j] \in Using
  /\ \A j \in Jobs :
       holder["default"] = j <=> j \in DefaultJobs /\ pc[j] \in Past
  /\ holder["default"] # None => slot = None

\* What a job has come to, by where it is.
JobInv(j) ==
  /\ flag[j] => ct[j]
  /\ pc[j] = "lockDefault" => j \in DefaultJobs
  /\ pc[j] \notin {"keep", "ended"} => result[j] = None
  /\ pc[j] = "keep" => result[j] \in Failures \cup {j}
  /\ pc[j] = "ended" => result[j] # None
  /\ pc[j] = "ended" /\ j \in DefaultJobs /\ result[j] \notin Failures =>
       result[j] = slot
  /\ pc[j] \in {"queued", "lockDefault", "lockFile"} => j \notin ran
  /\ pc[j] \in Using \cup {"keep"} => j \in ran
  /\ result[j] = "cancelled" => ct[j] /\ j \in ran
  /\ result[j] \in {"error", "panic"} => j \in ran
  /\ j \in early /\ j \in DefaultJobs =>
       flag[j] /\ pc[j] # "decoding" /\ result[j] \notin Jobs

IInv == TypeOK /\ LocksInv /\ \A j \in Jobs : JobInv(j)

LEMMA InitIInv == Init => IInv
<1> SUFFICES ASSUME Init PROVE IInv
  OBVIOUS
<1> USE NoneAssumption DEF Init, Jobs
<1>1. TypeOK
  BY DEF TypeOK, Steps, Locks
<1>2. LocksInv
  BY DEF LocksInv, Locks, Past, Using
<1>3. \A j \in Jobs : JobInv(j)
  BY DEF JobInv, Using, Failures
<1> QED
  BY <1>1, <1>2, <1>3 DEF IInv

-----------------------------------------------------------------------------
(* One lemma a step that is not one of run_job's loop. *)

LEMMA CancelStep ==
  ASSUME IInv, NEW j \in Jobs, Cancel(j) \/ Forward(j) \/ Join(j)
  PROVE  IInv'
<1> USE NoneAssumption DEF IInv, Cancel, Forward, Join
<1>1. TypeOK'
  BY DEF TypeOK
<1>2. LocksInv'
  BY DEF LocksInv
<1>3. ASSUME NEW k \in Jobs PROVE JobInv(k)'
  <2>1. JobInv(k)
    BY DEF IInv
  <2> QED
    BY <2>1 DEF JobInv, TypeOK
<1> QED
  BY <1>1, <1>2, <1>3

LEMMA StartStep ==
  ASSUME IInv, NEW j \in Jobs, Start(j)
  PROVE  IInv'
<1> USE NoneAssumption, JobsAssumption DEF IInv, Start, Goto
<1>1. TypeOK'
  BY DEF TypeOK, Steps
<1>2. LocksInv'
  BY DEF LocksInv, TypeOK, Past, Using, Jobs
<1>3. ASSUME NEW k \in Jobs PROVE JobInv(k)'
  <2>1. JobInv(k)
    BY DEF IInv
  <2> QED
    BY <2>1 DEF JobInv, TypeOK, Using
<1> QED
  BY <1>1, <1>2, <1>3

LEMMA LockDefaultStep ==
  ASSUME IInv, NEW j \in Jobs, LockDefault(j)
  PROVE  IInv'
<1> USE NoneAssumption, JobsAssumption DEF IInv, Goto, End, LockDefault, Obtains
<1>1. JobInv(j) /\ pc[j] = "lockDefault"
  OBVIOUS
<1>2. j \in DefaultJobs /\ j \notin ran /\ j \notin early
  BY <1>1 DEF JobInv, TypeOK
<1>3. TypeOK'
  BY DEF TypeOK, Steps, Locks, Jobs
<1>4. CASE slot = None
  <2>1. LocksInv'
    BY <1>2, <1>4 DEF LocksInv, TypeOK, Past, Using, Jobs, Locks
  <2>2. ASSUME NEW k \in Jobs PROVE JobInv(k)'
    <3>1. JobInv(k)
      OBVIOUS
    <3> QED
      BY <1>2, <1>4, <3>1 DEF JobInv, TypeOK, Using
  <2> QED
    BY <1>3, <2>1, <2>2
<1>5. CASE slot # None
  <2>1. LocksInv'
    BY <1>1, <1>5 DEF LocksInv, TypeOK, Past, Using, Jobs, Locks
  <2>2. ASSUME NEW k \in Jobs PROVE JobInv(k)'
    <3>1. JobInv(k)
      OBVIOUS
    <3>2. slot \in DefaultJobs /\ slot \in Jobs /\ slot \notin Failures
      BY <1>5 DEF TypeOK, Jobs
    <3> QED
      BY <1>1, <1>2, <1>5, <3>1, <3>2 DEF JobInv, TypeOK, Using, Failures
  <2> QED
    BY <1>3, <2>1, <2>2
<1> QED
  BY <1>4, <1>5

LEMMA LockFileStep ==
  ASSUME IInv, NEW j \in Jobs, LockFile(j)
  PROVE  IInv'
<1> USE NoneAssumption, JobsAssumption DEF IInv, LockFile, Goto, Obtains
<1>1. TypeOK'
  BY DEF TypeOK, Steps, Locks
<1>2. LocksInv'
  BY DEF LocksInv, TypeOK, Past, Using, Jobs, Locks
<1>3. ASSUME NEW k \in Jobs PROVE JobInv(k)'
  <2>1. JobInv(k)
    BY DEF IInv
  <2> QED
    BY <2>1 DEF JobInv, TypeOK, Using
<1> QED
  BY <1>1, <1>2, <1>3

\* The decode ends with r, by itself or in a check.
LEMMA DecodedStep ==
  ASSUME IInv, NEW j \in Jobs,
         pc[j] \in Using, NEW r, Decoded(j, r),
         \/ r \in {"error", "panic"}
         \/ r = "cancelled" /\ flag[j]
         \/ r = j /\ pc[j] = "decoding"
  PROVE  IInv'
<1> USE NoneAssumption, JobsAssumption DEF IInv, Goto, Decoded
<1>1. TypeOK'
  BY DEF TypeOK, Steps, Locks, Failures
<1>2. LocksInv'
  BY DEF LocksInv, TypeOK, Past, Using, Jobs, Locks, Failures
<1>3. ASSUME NEW k \in Jobs PROVE JobInv(k)'
  <2>1. JobInv(k) /\ JobInv(j)
    BY DEF IInv
  <2> QED
    BY <2>1 DEF JobInv, TypeOK, LocksInv, Past, Using, Jobs, Locks, Failures
<1> QED
  BY <1>1, <1>2, <1>3

LEMMA BeginStep ==
  ASSUME IInv, NEW j \in Jobs,
         pc[j] = "begin", flag[j] => j \in CustomJobs, Goto(j, "decoding"),
         UNCHANGED <<ct, flag, slot, holder, poisoned, result, reply, ran,
                     early>>
  PROVE  IInv'
<1> USE NoneAssumption, JobsAssumption DEF IInv, Goto
<1>1. TypeOK'
  BY DEF TypeOK, Steps, Locks
<1>2. LocksInv'
  BY DEF LocksInv, TypeOK, Past, Using, Jobs, Locks
<1>3. ASSUME NEW k \in Jobs PROVE JobInv(k)'
  <2>1. JobInv(k) /\ JobInv(j)
    BY DEF IInv
  <2> QED
    BY <2>1 DEF JobInv, TypeOK, LocksInv, Past, Using, Jobs, Locks
<1> QED
  BY <1>1, <1>2, <1>3

LEMMA KeepStep ==
  ASSUME IInv, NEW j \in Jobs, Keep(j)
  PROVE  IInv'
<1> USE NoneAssumption, JobsAssumption DEF IInv, Goto, Keep, Release, End
<1>1. TypeOK'
  BY DEF TypeOK, Steps, Locks, Failures
<1>2. LocksInv'
  BY DEF LocksInv, TypeOK, Past, Using, Jobs, Locks, Failures
<1>3. ASSUME NEW k \in Jobs PROVE JobInv(k)'
  <2>1. JobInv(k) /\ JobInv(j)
    BY DEF IInv
  <2> QED
    BY <2>1 DEF JobInv, TypeOK, LocksInv, Past, Using, Jobs, Locks, Failures
<1> QED
  BY <1>1, <1>2, <1>3

LEMMA NextIInv == IInv /\ [Next]_vars => IInv'
<1> SUFFICES ASSUME IInv, [Next]_vars PROVE IInv'
  OBVIOUS
<1>1. CASE UNCHANGED vars
  BY <1>1 DEF vars, IInv, TypeOK, LocksInv, JobInv
<1>2. ASSUME NEW j \in Jobs, Cancel(j) \/ Forward(j) \/ Join(j)
      PROVE  IInv'
  BY <1>2, CancelStep
<1>3. ASSUME NEW j \in Jobs, JobStep(j)
      PROVE  IInv'
  <2>1. CASE Start(j)
    BY <2>1, StartStep
  <2>2. CASE LockDefault(j)
    BY <2>2, LockDefaultStep
  <2>3. CASE LockFile(j)
    BY <2>3, LockFileStep
  <2>4. CASE Begin(j)
    BY <2>4, DecodedStep, BeginStep DEF Begin, Using
  <2>5. CASE Decode(j)
    BY <2>5, DecodedStep DEF Decode, Using
  <2>6. CASE Keep(j)
    BY <2>6, KeepStep
  <2> QED
    BY <1>3, <2>1, <2>2, <2>3, <2>4, <2>5, <2>6 DEF JobStep
<1> QED
  BY <1>1, <1>2, <1>3 DEF Next, Rest

LEMMA IInvImplies ==
  IInv => /\ TypeOK /\ OneDecoder /\ DecodedOnce /\ FailureIsOwn
          /\ CancelledInTime /\ EndedHoldsNothing
<1> SUFFICES ASSUME IInv
             PROVE  /\ TypeOK /\ OneDecoder /\ DecodedOnce /\ FailureIsOwn
                    /\ CancelledInTime /\ EndedHoldsNothing
  OBVIOUS
<1> USE DEF IInv
<1>1. OneDecoder
  BY DEF LocksInv, Using, OneDecoder
<1>2. DecodedOnce
  BY NoneAssumption DEF LocksInv, Using, Past, DecodedOnce, Jobs
<1>3. FailureIsOwn
  BY DEF JobInv, FailureIsOwn
<1>4. CancelledInTime
  BY DEF JobInv, CancelledInTime, Jobs
<1>5. EndedHoldsNothing
  BY DEF LocksInv, Locks, Past, Using, EndedHoldsNothing
<1> QED
  BY <1>1, <1>2, <1>3, <1>4, <1>5

-----------------------------------------------------------------------------
(* The cell *)

Given(j) == IF pc[j] # "ended" THEN None
            ELSE IF result[j] \in Failures THEN "failed"
            ELSE result[j]

LEMMA InitOnce == Init => Once!Init
BY DEF Init, Once!Init, Jobs

\* A step that ends no job, or ends one that has no place in the cell.
LEMMA StutterOnce ==
  ASSUME slot' = slot,
         \A j \in DefaultJobs :
           /\ pc[j] = "ended" <=> pc'[j] = "ended"
           /\ pc[j] = "ended" => result'[j] = result[j]
  PROVE  UNCHANGED <<slot, [j \in DefaultJobs |-> Given(j)]>>
BY DEF Given

\* A default job ends with r.
LEMMA EndOnce ==
  ASSUME IInv, NEW j \in DefaultJobs, pc[j] # "ended", NEW r, End(j, r),
         \/ slot' = slot /\ r \in Failures
         \/ slot' = slot /\ r = slot /\ r # None
         \/ slot' = j /\ r = j /\ slot = None
  PROVE  Once!Next
<1> USE NoneAssumption DEF End, Goto
<1> DEFINE given == [k \in DefaultJobs |-> Given(k)]
<1>1. /\ pc \in [Jobs -> Steps] /\ j \in Jobs /\ DefaultJobs \subseteq Jobs
      /\ result \in [Jobs -> Jobs \cup Failures \cup {None}]
      /\ slot \in DefaultJobs \cup {None}
  BY DEF IInv, TypeOK, Jobs
<1>2. given[j] = None
  BY DEF Given
<1>3. given' = [given EXCEPT ![j] = IF r \in Failures THEN "failed" ELSE r]
  BY <1>1 DEF Given
<1> HIDE DEF given
<1>4. CASE slot' = slot /\ r \in Failures
  <2>1. Once!EndWithout(j)
    BY <1>2, <1>3, <1>4 DEF Once!EndWithout, given, Given
  <2> QED
    BY <2>1 DEF Once!Next
<1>5. CASE slot' = slot /\ r = slot /\ r # None
  <2>1. r \notin Failures
    BY <1>1, <1>5
  <2>2. Once!Share(j)
    BY <1>2, <1>3, <1>5, <2>1 DEF Once!Share, given, Given
  <2> QED
    BY <2>2 DEF Once!Next
<1>6. CASE slot' = j /\ r = j /\ slot = None
  <2>1. r \notin Failures
    BY <1>1, <1>6
  <2>2. Once!Fill(j)
    BY <1>2, <1>3, <1>6, <2>1 DEF Once!Fill, given, Given
  <2> QED
    BY <2>2 DEF Once!Next
<1> QED
  BY <1>4, <1>5, <1>6

LEMMA StepOnce ==
  ASSUME IInv, [Next]_vars
  PROVE  [Once!Next]_<<slot, [j \in DefaultJobs |-> Given(j)]>>
<1> USE NoneAssumption, JobsAssumption
<1>1. CASE UNCHANGED <<slot, pc, result>>
  BY <1>1, StutterOnce
<1>2. ASSUME NEW j \in Jobs, JobStep(j)
      PROVE  [Once!Next]_<<slot, [k \in DefaultJobs |-> Given(k)]>>
  <2>1. TypeOK /\ JobInv(j) /\ LocksInv
    BY DEF IInv
  <2>2. CASE Start(j) \/ LockFile(j) \/ Begin(j) \/ Decode(j)
    <3>1. /\ pc[j] # "ended" /\ pc'[j] # "ended" /\ slot' = slot
          /\ \A k \in Jobs \ {j} : pc'[k] = pc[k] /\ result'[k] = result[k]
      BY <2>1, <2>2
         DEF Start, LockFile, Obtains, Begin, Decode, Decoded, Goto, TypeOK, Steps
    <3> QED
      BY <3>1, StutterOnce DEF Jobs
  <2>3. CASE LockDefault(j)
    <3>1. CASE slot = None
      <4>1. /\ pc[j] # "ended" /\ pc'[j] # "ended" /\ slot' = slot
            /\ \A k \in Jobs \ {j} : pc'[k] = pc[k] /\ result'[k] = result[k]
        BY <2>1, <2>3, <3>1 DEF LockDefault, Obtains, Goto, TypeOK, Steps
      <4> QED
        BY <4>1, StutterOnce DEF Jobs
    <3>2. CASE slot # None
      <4>1. End(j, slot) /\ slot' = slot /\ j \in DefaultJobs /\ pc[j] # "ended"
        BY <2>1, <2>3, <3>2 DEF LockDefault, Obtains, JobInv
      <4> QED
        BY <4>1, <3>2, EndOnce
    <3> QED
      BY <3>1, <3>2
  <2>4. CASE Keep(j) /\ j \in CustomJobs
    <3>1. slot' = slot /\ \A k \in Jobs \ {j} :
                            pc'[k] = pc[k] /\ result'[k] = result[k]
      BY <2>1, <2>4 DEF Keep, End, Goto, TypeOK, Steps
    <3> QED
      BY <2>4, <3>1, StutterOnce DEF Jobs
  <2>5. CASE Keep(j) /\ j \in DefaultJobs
    <3>1. /\ pc[j] = "keep" /\ slot = None
          /\ result[j] \in Failures \cup {j}
      BY <2>1, <2>5 DEF Keep, JobInv, LocksInv, Past
    <3>2. CASE End(j, result[j]) /\ slot' = IF result[j] = j THEN j ELSE slot
      BY <2>5, <3>1, <3>2, EndOnce DEF Jobs
    <3>3. CASE End(j, "panic") /\ slot' = slot
      BY <2>5, <3>1, <3>3, EndOnce DEF Failures
    <3> QED
      BY <2>5, <3>2, <3>3 DEF Keep
  <2> QED
    BY <1>2, <2>2, <2>3, <2>4, <2>5 DEF JobStep, Jobs
<1> QED
  BY <1>1, <1>2 DEF Next, Rest, vars, Cancel, Forward, Join

-----------------------------------------------------------------------------
(* Why nobody waits for ever for a mutex or a thread: whoever waits for one    *)
(* waits for a job that goes on.                                              *)

\* Job j has a step to make: the conditions of its actions.
Running == {j \in Jobs : pc[j] \notin {"queued", "ended"}}
GoesOn(j) ==
  \/ pc[j] = "queued" /\ Cardinality(Running) < Threads
  \/ pc[j] = "lockDefault" /\ holder["default"] = None
  \/ pc[j] = "lockFile" /\ holder["file"] = None
  \/ pc[j] \in {"begin", "decoding", "keep"}
  \/ pc[j] = "ended" /\ reply[j] = None

\* Whom j waits for: the holder of the mutex it needs, or, for a thread, every
\* job that has one.
WaitsFor(j) ==
  CASE pc[j] = "lockDefault" -> {holder["default"]}
    [] pc[j] = "lockFile" -> {holder["file"]}
    [] pc[j] = "queued" -> Running
    [] OTHER -> {}

\* A job that has not been answered goes on, or waits for one that does, or for
\* one that waits for `default` or `file` whose holder does: three deep and no
\* deeper, since `default` is taken before `file`.  (store.rs:312-339.)
NobodyStuck ==
  \A j \in Jobs : reply[j] = None =>
    \/ GoesOn(j)
    \/ \E k \in WaitsFor(j) \cap Jobs :
         \/ GoesOn(k)
         \/ \E m \in WaitsFor(k) \cap Jobs :
              GoesOn(m) \/ \E n \in WaitsFor(m) \cap Jobs : GoesOn(n)

\* The holder of `file` goes on.
LEMMA FileGoesOn ==
  ASSUME IInv, NEW j \in Jobs, pc[j] = "lockFile"
  PROVE  GoesOn(j) \/ \E k \in WaitsFor(j) \cap Jobs : GoesOn(k)
<1>1. CASE holder["file"] = None
  BY <1>1 DEF GoesOn
<1>2. CASE holder["file"] # None
  <2> DEFINE k == holder["file"]
  <2>1. k \in Jobs /\ pc[k] \in Using
    BY <1>2 DEF IInv, TypeOK, LocksInv, Locks
  <2>2. GoesOn(k) /\ WaitsFor(j) = {k}
    BY <2>1 DEF GoesOn, WaitsFor, Using
  <2> QED
    BY <2>1, <2>2
<1> QED
  BY <1>1, <1>2

\* The holder of `default` goes on, or waits for that of `file`.
LEMMA DefaultGoesOn ==
  ASSUME IInv, NEW j \in Jobs, pc[j] = "lockDefault"
  PROVE  \/ GoesOn(j)
         \/ \E k \in WaitsFor(j) \cap Jobs :
              GoesOn(k) \/ \E m \in WaitsFor(k) \cap Jobs : GoesOn(m)
<1>1. CASE holder["default"] = None
  BY <1>1 DEF GoesOn
<1>2. CASE holder["default"] # None
  <2> DEFINE k == holder["default"]
  <2>1. k \in Jobs /\ pc[k] \in Past
    BY <1>2 DEF IInv, TypeOK, LocksInv, Locks
  <2>2. WaitsFor(j) = {k}
    BY DEF WaitsFor
  <2>3. GoesOn(k) \/ \E m \in WaitsFor(k) \cap Jobs : GoesOn(m)
    <3>1. CASE pc[k] = "lockFile"
      BY <2>1, <3>1, FileGoesOn
    <3>2. CASE pc[k] # "lockFile"
      BY <2>1, <3>2 DEF GoesOn, Past
    <3> QED
      BY <3>1, <3>2
  <2> QED
    BY <2>1, <2>2, <2>3
<1> QED
  BY <1>1, <1>2

LEMMA IInvGoesOn == IInv => NobodyStuck
<1> SUFFICES ASSUME IInv, NEW j \in Jobs, reply[j] = None
             PROVE  \/ GoesOn(j)
                    \/ \E k \in WaitsFor(j) \cap Jobs :
                         \/ GoesOn(k)
                         \/ \E m \in WaitsFor(k) \cap Jobs :
                              GoesOn(m) \/ \E n \in WaitsFor(m) \cap Jobs : GoesOn(n)
  BY DEF NobodyStuck
<1>1. pc[j] \in Steps
  BY DEF IInv, TypeOK
<1>2. CASE pc[j] \in {"begin", "decoding", "keep", "ended"}
  BY <1>2 DEF GoesOn
<1>3. CASE pc[j] \in {"lockDefault", "lockFile"}
  BY <1>3, FileGoesOn, DefaultGoesOn
<1>4. CASE pc[j] = "queued"
  <2>1. CASE Running = {}
    <3>1. Cardinality(Running) = 0 /\ 0 < Threads
      BY <2>1, FS_EmptySet, ThreadsAssumption
    <3> QED
      BY <1>4, <3>1 DEF GoesOn
  <2>2. CASE Running # {}
    <3>1. PICK k \in Running : TRUE
      BY <2>2
    <3>2. k \in Jobs /\ WaitsFor(j) = Running
      BY <1>4, <3>1 DEF Running, WaitsFor
    <3>3. CASE pc[k] \in {"lockDefault", "lockFile"}
      BY <3>1, <3>2, <3>3, FileGoesOn, DefaultGoesOn
    <3>4. CASE pc[k] \notin {"lockDefault", "lockFile"}
      <4>1. GoesOn(k)
        BY <3>1, <3>2, <3>4 DEF GoesOn, Running, IInv, TypeOK, Steps
      <4> QED
        BY <3>1, <3>2, <4>1
    <3> QED
      BY <3>3, <3>4
  <2> QED
    BY <2>1, <2>2
<1> QED
  BY <1>1, <1>2, <1>3, <1>4 DEF Steps

-----------------------------------------------------------------------------

\* The inductive invariant holds of every reachable state.
THEOREM Invariance == Spec => []IInv
<1>1. Init => IInv
  BY InitIInv
<1>2. IInv /\ [Next]_vars => IInv'
  BY NextIInv
<1> QED
  BY <1>1, <1>2, PTL DEF Spec

\* The variables keep their types.
THEOREM TypeCorrect == Spec => []TypeOK
BY Invariance, IInvImplies, PTL

\* One request decodes on the handle at a time.
THEOREM MutualExclusion == Spec => []OneDecoder
BY Invariance, IInvImplies, PTL

\* No default decode is begun or goes on once one is kept.
THEOREM DecodesOnce == Spec => []DecodedOnce
BY Invariance, IInvImplies, PTL

\* A request fails by what befell itself.
THEOREM FailuresArePrivate == Spec => []FailureIsOwn
BY Invariance, IInvImplies, PTL

\* A default decode whose request was cancelled before it is not run to its end.
THEOREM CancelledBeforeBegun == Spec => []CancelledInTime
BY Invariance, IInvImplies, PTL

\* A job that has ended holds no mutex.
THEOREM NothingLeftHeld == Spec => []EndedHoldsNothing
BY Invariance, IInvImplies, PTL

\* Whoever waits for a mutex or a thread waits for a job that goes on.
THEOREM NobodyIsStuck == Spec => []NobodyStuck
BY Invariance, IInvGoesOn, PTL

\* The default decode is a cell filled once, which everyone who is given a
\* model is given.
THEOREM Implementation == Spec => RefinesOnce
<1>1. Init => Once!Init
  BY InitOnce
<1>2. IInv /\ [Next]_vars =>
        [Once!Next]_<<slot, [j \in DefaultJobs |-> Given(j)]>>
  BY StepOnce
<1>3. <<slot, [j \in DefaultJobs |-> Given(j)]>> =
      <<slot, [j \in DefaultJobs |->
                 IF pc[j] # "ended" THEN None
                 ELSE IF result[j] \in Failures THEN "failed"
                 ELSE result[j]]>>
  BY DEF Given
<1> QED
  BY <1>1, <1>2, Invariance, PTL DEF Spec, RefinesOnce, Once!Spec, Given
=============================================================================
