----------------------------- MODULE MCRevitHandle -----------------------------
(* RevitHandle of a project of two phases whose last holds no room, so that   *)
(* the last phase by default and the last phase by name differ in effect.     *)
EXTENDS RevitHandle

ASSUME Cardinality(Phases) > 1
=============================================================================
