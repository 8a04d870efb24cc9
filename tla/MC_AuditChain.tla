--------------------------- MODULE MC_AuditChain ---------------------------
(* Small instances of AuditChain: see the .cfg files. *)
EXTENDS AuditChain, TLC

\* Event ids, writers and merge invocations are interchangeable.
Symmetry == Permutations(Events) \cup Permutations(Writers) \cup Permutations(Mergers)
=============================================================================
