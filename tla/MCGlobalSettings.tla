--------------------------- MODULE MCGlobalSettings ---------------------------
(* Two settings with a constraint between them and the refresh policy. *)
EXTENDS GlobalSettings, TLC

MCKey == {"base", "max", "ttl"}
MCBatch == {{"base"}, {"max"}, {"ttl"}, {"base", "max"}}
\* 3 is out of every range.
MCAllowed == [k \in MCKey |-> {1, 2}]
MCDefault == [k \in MCKey |-> 1]
Symmetry == Permutations(Admin)
MCValidPolicy == {p \in [MCKey -> Value] : p["base"] <= p["max"]}
=============================================================================
