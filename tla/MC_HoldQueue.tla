--------------------------- MODULE MC_HoldQueue ---------------------------
(* Small instances of HoldQueue: see the .cfg files. *)
EXTENDS HoldQueue, TLC

\* Workers are interchangeable, and so are candidates that come from imports and
\* candidates that do not.
Symmetry == Permutations(Imported) \cup Permutations(Candidates \ Imported)
              \cup Permutations(Workers)
=============================================================================
