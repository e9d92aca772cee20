----------------------------- MODULE MCExportWrite -----------------------------
(* ExportWrite on a small instance: exports that meet in one target, each of  *)
(* more than one chunk, and a model whose name may be written in capitals.    *)
EXTENDS ExportWrite

CONSTANTS model, out, MODEL

MCSpellings == {model, out, MODEL}
MCEntry(n) == IF n = MODEL THEN model ELSE n

ASSUME Cardinality(Outputs) < Cardinality(Exports) /\ Chunks > 1
=============================================================================
