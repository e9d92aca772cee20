----------------------------- MODULE MCPatchWriter -----------------------------
(* PatchWriter on a small instance: two calls, in two processes (as commands  *)
(* are) or in one (as threads of a program are).                              *)
EXTENDS PatchWriter

MCPatch(s, v, l) == [stream |-> s, value |-> v, long |-> l]

\* Two patches, the same stream twice, a page too long, a stream not there.
MCManifests ==
  {<<MCPatch("x", "v1", FALSE), MCPatch("y", "v2", FALSE)>>,
   <<MCPatch("x", "v1", FALSE), MCPatch("x", "v2", FALSE)>>,
   <<MCPatch("x", "v1", TRUE)>>,
   <<MCPatch("missing", "v1", FALSE)>>}

MCManifestsAndCopy == MCManifests \cup {<<>>}

MCSameProcess(c) == "p"
MCOwnProcess(c) == c
=============================================================================
