-------------------------- MODULE MC_MemoryStore --------------------------
(* Small instances of MemoryStore: see the .cfg files. *)
EXTENDS MemoryStore, TLC

\* Memories are interchangeable, and so are the processes of one kind.
Symmetry == Permutations(Memories) \cup Permutations(Curators) \cup Permutations(Editors)
=============================================================================
