----------------------- MODULE MCRefreshTasksLifecycle -----------------------
(* Small instances of RefreshTasksLifecycle for TLC. *)
EXTENDS RefreshTasksLifecycle, TLC

Symmetry == Permutations(Domain) \cup Permutations(Worker) \cup Permutations(Token)
=============================================================================
