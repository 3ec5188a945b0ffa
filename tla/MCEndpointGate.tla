--------------------------- MODULE MCEndpointGate ---------------------------
(* Small instances of EndpointGate for TLC. *)
EXTENDS EndpointGate, TLC

\* Callers and tokens are interchangeable (for the runs without liveness).
Symmetry == Permutations(Caller) \cup Permutations(Token)
=============================================================================
