----------------------------- MODULE AtomicWrite ------------------------------
(***************************************************************************)
(* What a call that patches a Revit file promises: it takes its source as  *)
(* it is at one moment, and at a later one the target is, in one step, what*)
(* it took with its patches; or nothing changes.  A call that is refused,  *)
(* or a dry run, changes nothing.  PatchWriter implements it.              *)
(***************************************************************************)
CONSTANTS
  Calls, Paths, Streams,
  Contents,   \* what a file may hold, by stream
  Requests,   \* [src, dst, manifest, dry]
  None        \* no request, nothing taken, no answer, no manifest

VARIABLES
  file,     \* file[p]: what the file at path p holds
  order,    \* order[c]: what call c is asked for
  taken,    \* taken[c]: what its source held when it took it
  answer    \* answer[c]: "written" or "nothing"

Init ==
  /\ file \in [Paths -> Contents]
  /\ order = [c \in Calls |-> None]
  /\ taken = [c \in Calls |-> None]
  /\ answer = [c \in Calls |-> None]

Open(c) == order[c] # None /\ answer[c] = None
Answer(c, a) ==
  /\ answer' = [answer EXCEPT ![c] = a]
  /\ taken' = [taken EXCEPT ![c] = None]

Ask(c) ==
  /\ order[c] = None
  /\ \E r \in Requests : order' = [order EXCEPT ![c] = r]
  /\ UNCHANGED <<file, taken, answer>>

\* The source is taken, or taken again.
Take(c) ==
  /\ Open(c)
  /\ taken' = [taken EXCEPT ![c] = file[order[c].src]]
  /\ UNCHANGED <<file, order, answer>>

Accepted(r) ==
  /\ ~r.dry /\ r.manifest # None
  /\ \A n \in DOMAIN r.manifest : r.manifest[n].stream \in Streams /\ ~r.manifest[n].long

\* b is v with manifest m: a stream that is patched is as a patch of it says.
IsPatched(b, v, m) ==
  \A s \in Streams :
    LET at == {n \in DOMAIN m : m[n].stream = s}
    IN  IF at = {} THEN b[s] = v[s] ELSE \E n \in at : b[s] = m[n].value

Write(c) ==
  /\ Open(c) /\ Accepted(order[c]) /\ taken[c] # None
  /\ \E b \in Contents :
       /\ IsPatched(b, taken[c], order[c].manifest)
       /\ file' = [file EXCEPT ![order[c].dst] = b]
  /\ Answer(c, "written")
  /\ UNCHANGED order

GiveUp(c) ==
  /\ Open(c)
  /\ Answer(c, "nothing")
  /\ UNCHANGED <<file, order>>

Next == \E c \in Calls : Ask(c) \/ Take(c) \/ Write(c) \/ GiveUp(c)

Spec == Init /\ [][Next]_<<file, order, taken, answer>>
===============================================================================
