------------------------ MODULE MCNotificationOutbox ------------------------
(* Small instances of NotificationOutboxLifecycle for TLC. *)
EXTENDS NotificationOutboxLifecycle, TLC

\* Messages, notifiers and tokens are interchangeable (for the runs without
\* liveness).
Symmetry == Permutations(Message) \cup Permutations(Notifier) \cup Permutations(Token)
=============================================================================
