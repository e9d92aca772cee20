------------------------------ MODULE MCViewerLoad ------------------------------
(* Three loads, one entity, one request under way. *)
EXTENDS ViewerLoad
================================================================================
