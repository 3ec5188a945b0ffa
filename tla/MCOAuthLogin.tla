---------------------------- MODULE MCOAuthLogin ----------------------------
(* Small instances of OAuthLogin for TLC. *)
EXTENDS OAuthLogin, TLC

\* Rows, requests, providers and their accounts are interchangeable.
Symmetry == Permutations(User) \cup Permutations(Session) \cup Permutations(Attempt)
            \cup Permutations(Request) \cup Permutations(Provider)
            \cup Permutations(Subject)
=============================================================================
