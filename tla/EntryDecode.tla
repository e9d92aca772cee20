------------------------------ MODULE EntryDecode ------------------------------
(***************************************************************************)
(* The requests on one open model of the MCP server: run_job of            *)
(* src/rvt-mcp/src/server.rs, which runs each as a job of the blocking     *)
(* pool, waits for it and forwards the client's cancellation, and          *)
(* Entry::computed and Entry::with_file of src/rvt-mcp/src/store.rs, which *)
(* the jobs meet in.                                                       *)
(*                                                                         *)
(* An Entry has two mutexes.  A request for the default decode takes       *)
(* `default` and, when no decode is kept there yet, `file` for the time of *)
(* the decode; one with other switches takes `file` alone.  A decode ends  *)
(* with a model, an error, as cancelled, or in a panic, and the guards are *)
(* dropped in the reverse order they were taken in.                        *)
(***************************************************************************)
EXTENDS Naturals, FiniteSets

CONSTANTS
  DefaultJobs,   \* requests answered from the default decode
  CustomJobs,    \* IFC exports with switches of their own
  Threads,       \* threads of the blocking pool
  None           \* nobody, nothing yet

Jobs == DefaultJobs \cup CustomJobs

ASSUME JobsAssumption ==
  IsFiniteSet(Jobs) /\ DefaultJobs \cap CustomJobs = {}
ASSUME ThreadsAssumption == Threads \in Nat \ {0}

Failures == {"cancelled", "error", "panic"}
Locks == {"default", "file"}

ASSUME NoneAssumption ==
  None \notin Jobs \cup Failures /\ Jobs \cap Failures = {}

VARIABLES
  pc,        \* pc[j]: where the job of request j is
  ct,        \* ct[j]: the client has cancelled the request
  flag,      \* flag[j]: the job's CancelToken is cancelled
  slot,      \* Entry::default: the job whose decode is kept
  holder,    \* holder[l]: the job that holds mutex l
  poisoned,  \* the mutexes a panic dropped the guard of
  result,    \* result[j]: the job whose model j has, or how it failed
  reply,     \* reply[j]: the result, once run_job has returned it
  ran,       \* the jobs that began a decode themselves
  early      \* the jobs that were cancelled by then

vars == <<pc, ct, flag, slot, holder, poisoned, result, reply, ran, early>>

Steps == {"queued", "lockDefault", "lockFile", "begin", "decoding", "keep",
          "ended"}

Init ==
  /\ pc = [j \in Jobs |-> "queued"]
  /\ ct = [j \in Jobs |-> FALSE]
  /\ flag = [j \in Jobs |-> FALSE]
  /\ slot = None
  /\ holder = [l \in Locks |-> None]
  /\ poisoned = {}
  /\ result = [j \in Jobs |-> None]
  /\ reply = [j \in Jobs |-> None]
  /\ ran = {}
  /\ early = {}

Goto(j, step) == pc' = [pc EXCEPT ![j] = step]

End(j, r) == Goto(j, "ended") /\ result' = [result EXCEPT ![j] = r]

\* Mutant of Obtains: a poisoned mutex is unwrapped.
ObtainsUnlessPoisoned(l) == l \notin poisoned

\* lock: a poisoned mutex gives its guard all the same.
Obtains(l) == TRUE

-----------------------------------------------------------------------------
(* run_job *)

Cancel(j) ==
  /\ ~ct[j] /\ reply[j] = None
  /\ ct' = [ct EXCEPT ![j] = TRUE]
  /\ UNCHANGED <<pc, flag, slot, holder, poisoned, result, reply, ran, early>>

\* Mutant of Forward: the loop listens until the job has a thread.
ForwardWhileQueued(j) ==
  /\ ct[j] /\ ~flag[j] /\ pc[j] = "queued"
  /\ flag' = [flag EXCEPT ![j] = TRUE]
  /\ UNCHANGED <<pc, ct, slot, holder, poisoned, result, reply, ran, early>>

\* The loop hears of the cancellation, once, if the job has not been joined.
Forward(j) ==
  /\ ct[j] /\ ~flag[j] /\ reply[j] = None
  /\ flag' = [flag EXCEPT ![j] = TRUE]
  /\ UNCHANGED <<pc, ct, slot, holder, poisoned, result, reply, ran, early>>

Join(j) ==
  /\ pc[j] = "ended" /\ reply[j] = None
  /\ reply' = [reply EXCEPT ![j] = result[j]]
  /\ UNCHANGED <<pc, ct, flag, slot, holder, poisoned, result, ran, early>>

\* The pool has a thread for the job.
Start(j) ==
  /\ pc[j] = "queued"
  /\ Cardinality({k \in Jobs : pc[k] \notin {"queued", "ended"}}) < Threads
  /\ Goto(j, IF j \in DefaultJobs THEN "lockDefault" ELSE "lockFile")
  /\ UNCHANGED <<ct, flag, slot, holder, poisoned, result, reply, ran, early>>

-----------------------------------------------------------------------------
(* Entry::computed, Entry::with_file *)

LockDefault(j) ==
  /\ pc[j] = "lockDefault"
  /\ holder["default"] = None
  /\ IF ~Obtains("default")
       THEN End(j, "panic") /\ UNCHANGED holder
       ELSE IF slot = None
         THEN /\ holder' = [holder EXCEPT !["default"] = j]
              /\ Goto(j, "lockFile")
              /\ UNCHANGED result
         ELSE End(j, slot) /\ UNCHANGED holder
  /\ UNCHANGED <<ct, flag, slot, poisoned, reply, ran, early>>

\* Mutant of LockFile: the handle is used without its mutex.
UseFile(j) ==
  /\ pc[j] = "lockFile"
  /\ holder' = [holder EXCEPT !["file"] = j]
  /\ ran' = ran \cup {j}
  /\ early' = IF flag[j] THEN early \cup {j} ELSE early
  /\ Goto(j, "begin")
  /\ UNCHANGED <<ct, flag, slot, poisoned, result, reply>>

LockFile(j) ==
  /\ pc[j] = "lockFile"
  /\ holder["file"] = None
  /\ IF ~Obtains("file")
       THEN /\ Goto(j, "keep")
            /\ result' = [result EXCEPT ![j] = "panic"]
            /\ UNCHANGED <<holder, ran, early>>
       ELSE /\ holder' = [holder EXCEPT !["file"] = j]
            /\ ran' = ran \cup {j}
            /\ early' = IF flag[j] THEN early \cup {j} ELSE early
            /\ Goto(j, "begin")
            /\ UNCHANGED result
  /\ UNCHANGED <<ct, flag, slot, poisoned, reply>>

\* The decode is over with r: the guard of `file` is dropped, and that of
\* `default` comes next.
Decoded(j, r) ==
  /\ holder' = [holder EXCEPT !["file"] = None]
  /\ poisoned' = IF r = "panic" THEN poisoned \cup {"file"} ELSE poisoned
  /\ result' = [result EXCEPT ![j] = r]
  /\ Goto(j, "keep")
  /\ UNCHANGED <<ct, flag, slot, reply, ran, early>>

\* Mutant of Begin: the walk looks for a cancellation later only.
BeginUnchecked(j) ==
  /\ pc[j] = "begin"
  /\ \/ \E r \in {"error", "panic"} : Decoded(j, r)
     \/ /\ Goto(j, "decoding")
        /\ UNCHANGED <<ct, flag, slot, holder, poisoned, result, reply, ran,
                       early>>

\* The steps before the walk, and the check the walk begins with.  Exports of
\* the diagnostic proxies, which only a custom job asks for, make no check.
Begin(j) ==
  /\ pc[j] = "begin"
  /\ \/ \E r \in {"error", "panic"} : Decoded(j, r)
     \/ /\ flag[j]
        /\ Decoded(j, "cancelled")
     \/ /\ flag[j] => j \in CustomJobs
        /\ Goto(j, "decoding")
        /\ UNCHANGED <<ct, flag, slot, holder, poisoned, result, reply, ran,
                       early>>

\* Mutant of Decode: after an error the job queues for the handle again.
DecodeAgain(j) ==
  /\ pc[j] = "decoding"
  /\ \/ \E r \in {"panic", j} : Decoded(j, r)
     \/ flag[j] /\ Decoded(j, "cancelled")
     \/ /\ holder' = [holder EXCEPT !["file"] = None]
        /\ Goto(j, "lockFile")
        /\ UNCHANGED <<ct, flag, slot, poisoned, result, reply, ran, early>>

\* The rest: a cancellation is seen if there is a check left to see it.
Decode(j) ==
  /\ pc[j] = "decoding"
  /\ \/ \E r \in {"error", "panic", j} : Decoded(j, r)
     \/ flag[j] /\ Decoded(j, "cancelled")

Release(j) == [l \in Locks |-> IF holder[l] = j THEN None ELSE holder[l]]

\* Mutant of Keep: what the decode gave is kept, whatever it is.
KeepAny(j) ==
  /\ pc[j] = "keep"
  /\ holder' = Release(j)
  /\ slot' = IF j \in DefaultJobs THEN j ELSE slot
  /\ End(j, result[j])
  /\ UNCHANGED <<ct, flag, poisoned, reply, ran, early>>

\* Computed::new and the slot, for a default decode that gave a model; else
\* the guard of `default`, if the job has it, is dropped and no more.
Keep(j) ==
  /\ pc[j] = "keep"
  /\ holder' = Release(j)
  /\ IF j \in DefaultJobs
       THEN \/ /\ slot' = IF result[j] = j THEN j ELSE slot
               /\ End(j, result[j])
               /\ poisoned' = IF result[j] = "panic"
                                THEN poisoned \cup {"default"} ELSE poisoned
            \/ /\ result[j] = j
               /\ End(j, "panic")
               /\ poisoned' = poisoned \cup {"default"}
               /\ UNCHANGED slot
       ELSE End(j, result[j]) /\ UNCHANGED <<slot, poisoned>>
  /\ UNCHANGED <<ct, flag, reply, ran, early>>

-----------------------------------------------------------------------------

JobStep(j) ==
  \/ Start(j) \/ LockDefault(j) \/ LockFile(j)
  \/ Begin(j) \/ Decode(j) \/ Keep(j)

Rest == (\A j \in Jobs : reply[j] # None) /\ UNCHANGED vars

Next ==
  \/ \E j \in Jobs : Cancel(j) \/ Forward(j) \/ Join(j) \/ JobStep(j)
  \/ Rest

\* A thread of the pool runs, a job that waits for a mutex gets it once nobody
\* else takes it any more, and the loop of run_job is polled.  A default decode
\* may take longer than anybody waits: only a cancellation is sure to end it.  A
\* client need not cancel.
Fairness ==
  \A j \in Jobs :
    /\ WF_vars(Start(j) \/ LockDefault(j) \/ LockFile(j) \/ Begin(j) \/ Keep(j))
    /\ WF_vars((flag[j] \/ j \in CustomJobs) /\ Decode(j))
    /\ WF_vars(Join(j)) /\ WF_vars(Forward(j))

Spec == Init /\ [][Next]_vars /\ Fairness

-----------------------------------------------------------------------------
(* Properties *)

TypeOK ==
  /\ pc \in [Jobs -> Steps]
  /\ ct \in [Jobs -> BOOLEAN] /\ flag \in [Jobs -> BOOLEAN]
  /\ slot \in DefaultJobs \cup {None}
  /\ holder \in [Locks -> Jobs \cup {None}]
  /\ poisoned \subseteq Locks
  /\ result \in [Jobs -> Jobs \cup Failures \cup {None}]
  /\ reply \in [Jobs -> Jobs \cup Failures \cup {None}]
  /\ ran \subseteq Jobs /\ early \subseteq ran

\* One request decodes on the handle at a time, with whatever switches: what
\* RevitFile memoises is never touched by two.  (store.rs:323, 337.)
OneDecoder ==
  \A j, k \in Jobs :
    pc[j] \in {"begin", "decoding"} /\ pc[k] \in {"begin", "decoding"} => j = k

\* However many requests wait, one of them decodes at a time and no default
\* decode is begun once one is kept.  (computed looks again under the mutex it
\* keeps, store.rs:318-321.)
DecodedOnce ==
  \A j \in DefaultJobs : pc[j] \in {"begin", "decoding"} => slot = None

\* A request fails by what befell itself: it is cancelled if its client
\* cancelled it, and it reports an error or a panic if its own decode had one.
\* A cancelled, failed or panicked decode that others wait behind is not
\* theirs.  (store.rs:40-42, 318-327; server.rs:139-142, 150-157.)
FailureIsOwn ==
  \A j \in Jobs :
    /\ result[j] = "cancelled" => ct[j] /\ j \in ran
    /\ result[j] \in {"error", "panic"} => j \in ran

\* A default decode whose request was cancelled before it got the handle is
\* not run to its end.  (walk_shared's first check, src/src/walker.rs:1464.)
CancelledInTime ==
  \A j \in DefaultJobs \cap early : result[j] \notin Jobs

\* A job that has ended holds neither mutex, however it ended: no later
\* request on the model waits for it.  (The guards' scopes, store.rs:318-339.)
EndedHoldsNothing ==
  \A j \in Jobs, l \in Locks : holder[l] = j => pc[j] # "ended"

\* The default decode as a cell that is filled once: whoever is given a model
\* is given the one that is kept, in one step of the abstract cell each.
\* (Entry::computed, store.rs:312-333.)
Once == INSTANCE OnceModel WITH
          Askers <- DefaultJobs,
          cell <- slot,
          given <- [j \in DefaultJobs |->
                      IF pc[j] # "ended" THEN None
                      ELSE IF result[j] \in Failures THEN "failed"
                      ELSE result[j]]
RefinesOnce == Once!Spec

\* Every request is answered, though jobs wait for threads and for each other
\* and some are cancelled, fail or panic, if whoever waits for a default decode
\* that takes for ever cancels in the end.  (run_job, server.rs:117-157.)
EveryRequestAnswered ==
  (\A j \in DefaultJobs : <>(ct[j] \/ reply[j] # None))
    => \A j \in Jobs : <>(reply[j] # None)

\* A cancelled decode ends, though it would not have otherwise: the loop goes
\* on listening while the job runs, and the handle is free for the jobs that
\* wait.  (server.rs:139-142; checks of WalkerControl throughout the decode.)
CancelledDecodeEnds ==
  \A j \in DefaultJobs :
    ct[j] /\ pc[j] \in {"begin", "decoding"} ~>
      reply[j] # None /\ holder["file"] # j
=============================================================================
