------------------------ MODULE MCEmailVerification ------------------------
(* Two addresses, both on the allowlist, and two requests at a time. *)
EXTENDS EmailVerification, TLC

Symmetry == Permutations(Request) \cup Permutations(Address)
=============================================================================
