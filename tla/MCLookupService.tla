--------------------------- MODULE MCLookupService ---------------------------
(* Small instances of LookupService for TLC. *)
EXTENDS LookupService, TLC

\* Processes and lookups are interchangeable.
Symmetry == Permutations(Process) \cup Permutations(Lookup)
=============================================================================
