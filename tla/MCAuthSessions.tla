--------------------------- MODULE MCAuthSessions ---------------------------
(* Small instances of AuthSessionsLifecycle for TLC. *)
EXTENDS AuthSessionsLifecycle, TLC

\* Rows and requests are interchangeable.
Symmetry == Permutations(Session) \cup Permutations(Token) \cup Permutations(Request)
=============================================================================
