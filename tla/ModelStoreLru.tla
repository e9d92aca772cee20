----------------------------- MODULE ModelStoreLru -----------------------------
(***************************************************************************)
(* The store as a cache: ModelStore, seen through the ids it holds in the  *)
(* order it holds them, implements LruModels.                              *)
(***************************************************************************)
EXTENDS ModelStore

Line == [n \in 1 .. Cardinality(Held) |->
           IdOf(entry[CHOOSE r \in Held : place[r] = n])]

Lru == INSTANCE LruModels WITH
         line <- Line,
         Keys <- [path : Paths, ver : 1 .. MaxWritten,
                  phase : PhaseIds \cup {None}],
         Capacity <- MaxOpen

\* `entries` behaves as an atomic cache of distinct models, though every open
\* is several steps of its job: each step uses one model, adds one, forgets one
\* state of a file, or leaves the line alone.  (store.rs:402-427, 472-533.)
RefinesLru == Lru!Spec
=============================================================================
