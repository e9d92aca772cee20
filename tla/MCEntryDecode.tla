----------------------------- MODULE MCEntryDecode -----------------------------
(* EntryDecode on a small instance: more requests than threads, so that a job *)
(* is queued behind jobs that wait for each other.                            *)
EXTENDS EntryDecode

ASSUME Threads < Cardinality(Jobs)
=============================================================================
