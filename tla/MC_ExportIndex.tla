--------------------------- MODULE MC_ExportIndex ---------------------------
(* Small instances of ExportIndex: see the .cfg files. *)
EXTENDS ExportIndex
=============================================================================
