------------------------------- MODULE LruModels -------------------------------
(***************************************************************************)
(* What the store of the MCP server promises of the models it holds: a     *)
(* line of distinct models, most recent first, never longer than its       *)
(* capacity, in which the models of one path are all of one state of the   *)
(* file.  Every operation is atomic; nothing is said of jobs, of handles   *)
(* or of files.  ModelStore implements it.                                 *)
(***************************************************************************)
EXTENDS Naturals, Sequences, FiniteSets

CONSTANTS Keys,        \* the models there can be: path, state and phase
          Capacity     \* how many are held

VARIABLE line

Init == line = <<>>

\* What remains of s when only the members of K stay: its n-th member is the
\* one that has n of them at or before its place.
Kept(s, K) ==
  LET at == {i \in 1 .. Len(s) : s[i] \in K}
  IN  [n \in 1 .. Cardinality(at) |->
         s[CHOOSE i \in at : Cardinality({h \in at : h <= i}) = n]]

\* k goes first, and the last one goes when there is no room.
First(k, rest) ==
  [n \in 1 .. IF Len(rest) < Capacity THEN Len(rest) + 1 ELSE Capacity |->
     IF n = 1 THEN k ELSE rest[n - 1]]

Contains(k) == \E n \in 1 .. Len(line) : line[n] = k

\* A model that is held is used: it becomes the most recent.
Use(k) ==
  /\ Contains(k)
  /\ line' = First(k, Kept(line, Keys \ {k}))

\* A model is opened: it becomes the most recent, models of its path in
\* another state go, and the least recent goes when there is no room.
Add(k) ==
  /\ ~Contains(k)
  /\ line' = First(k, Kept(line, {m \in Keys : m.path # k.path \/ m.ver = k.ver}))

\* The file of a model is found changed: its models of that state go.
Forget(k) ==
  line' = Kept(line, {m \in Keys : m.path # k.path \/ m.ver # k.ver})

Next == \E k \in Keys : Use(k) \/ Add(k) \/ Forget(k)

Spec == Init /\ [][Next]_line
=============================================================================
