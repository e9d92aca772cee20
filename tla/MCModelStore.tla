----------------------------- MODULE MCModelStore -----------------------------
(* The store on a small instance.  The file starts in state 1 or absent; in   *)
(* state 2 its phases were renumbered and one spelling names none, so that a  *)
(* resolution of one state misleads in the other.  Two entries and one        *)
(* resolution are kept for three requests.                                    *)
EXTENDS ModelStoreLru, TLC, Sequences

MCPhaseOf(p, v, s) ==
  CASE s = "Phase 1" -> IF v = 1 THEN 1 ELSE 2
    [] s = "Phase 2" -> IF v = 1 THEN 2 ELSE None

SX == INSTANCE SequencesExt

JobSymmetry == Permutations(Jobs)

\* What Kept leaves is what SelectSeq selects.
ASSUME KeptSelects ==
  \A s \in SX!BoundedSeq(1 .. 3, 4), K \in SUBSET (1 .. 3) :
    Lru!Kept(s, K) = SelectSeq(s, LAMBDA m : m \in K)
=============================================================================
