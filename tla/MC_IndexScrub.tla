--------------------------- MODULE MC_IndexScrub ---------------------------
(* A small instance of IndexScrub: see the .cfg file. *)
EXTENDS IndexScrub
=============================================================================
