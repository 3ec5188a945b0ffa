---------------------------- MODULE MCDomainEdits ----------------------------
(* The instance of DomainEdits for TLC. *)
EXTENDS DomainEdits, TLC

\* The tabs of the owner are interchangeable.
Tabs == Permutations(Owners)

\* Nothing is promised once a deletion has overwritten a change: such a state is
\* reached, and left at that.
Promised == ~overtaken
=============================================================================
