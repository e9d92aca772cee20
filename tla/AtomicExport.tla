----------------------------- MODULE AtomicExport -----------------------------
(***************************************************************************)
(* What an export of the MCP server promises: it puts a whole file under   *)
(* its path in one step, and says so, or puts nothing there and says so.   *)
(* It never touches the model, and replaces a file only with leave.  Others*)
(* create and remove files meanwhile.  ExportWrite implements it.          *)
(***************************************************************************)
CONSTANTS
  Exports, Paths,
  Input,      \* the path of the model
  Someone,    \* whoever else writes files
  None        \* no file, no order, no answer

VARIABLES
  found,    \* found[p]: whose whole file is at path p
  order,    \* order[e]: the path e is asked for, and its leave to replace
  answer    \* answer[e]: "written" or "nothing"

Init ==
  /\ found \in [Paths -> {None, Someone}] /\ found[Input] = Someone
  /\ order = [e \in Exports |-> None]
  /\ answer = [e \in Exports |-> None]

Ask(e) ==
  /\ order[e] = None
  /\ \E p \in Paths, o \in BOOLEAN :
       order' = [order EXCEPT ![e] = [path |-> p, over |-> o]]
  /\ UNCHANGED <<found, answer>>

Open(e) == order[e] # None /\ answer[e] = None
Answer(e, a) == answer' = [answer EXCEPT ![e] = a]

Export(e) ==
  /\ Open(e) /\ order[e].path # Input
  /\ order[e].over \/ found[order[e].path] = None
  /\ found' = [found EXCEPT ![order[e].path] = e]
  /\ Answer(e, "written")
  /\ UNCHANGED order

GiveUp(e) ==
  /\ Open(e)
  /\ Answer(e, "nothing")
  /\ UNCHANGED <<found, order>>

Others(p) ==
  /\ found' = [found EXCEPT ![p] = IF @ = None THEN Someone ELSE None]
  /\ p # Input
  /\ UNCHANGED <<order, answer>>

Next ==
  \/ \E e \in Exports : Ask(e) \/ Export(e) \/ GiveUp(e)
  \/ \E p \in Paths : Others(p)

Spec == Init /\ [][Next]_<<found, order, answer>>
===============================================================================
