------------------------ MODULE MCNotificationQueue ------------------------
(* Small instances of NotificationQueue for TLC. *)
EXTENDS NotificationQueue, TLC

\* Rules and domains are interchangeable.
Symmetry == Permutations(Rule) \cup Permutations(Domain)
=============================================================================
