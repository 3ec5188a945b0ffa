--------------------------- MODULE MCRefreshTasks ---------------------------
(* Small instances of RefreshTasks for TLC. *)
EXTENDS RefreshTasks, TLC

\* Domains, workers, tokens and requests are interchangeable.
Symmetry == Permutations(Domain) \cup Permutations(Worker) \cup Permutations(Token)
              \cup Permutations(Caller)
=============================================================================
