------------------------------- MODULE OnceModel -------------------------------
(***************************************************************************)
(* What an open model promises of its default decode: a cell that is       *)
(* filled at most once, and whoever is given a decode is given the one in  *)
(* the cell.  A request may also end without one, and says nothing of the  *)
(* cell then.  EntryDecode implements it.                                  *)
(***************************************************************************)
CONSTANTS Askers,   \* requests for the decode
          None      \* nothing yet

VARIABLES cell,     \* the request whose decode is kept
          given     \* given[a]: the decode a got, "failed", or None

Init == cell = None /\ given = [a \in Askers |-> None]

\* The decode of a is kept, and a is given it.
Fill(a) ==
  /\ cell = None /\ given[a] = None
  /\ cell' = a
  /\ given' = [given EXCEPT ![a] = a]

\* The decode of another is kept, and a is given that.
Share(a) ==
  /\ cell # None /\ given[a] = None
  /\ given' = [given EXCEPT ![a] = cell]
  /\ UNCHANGED cell

EndWithout(a) ==
  /\ given[a] = None
  /\ given' = [given EXCEPT ![a] = "failed"]
  /\ UNCHANGED cell

Next == \E a \in Askers : Fill(a) \/ Share(a) \/ EndWithout(a)

Spec == Init /\ [][Next]_<<cell, given>>
=============================================================================
