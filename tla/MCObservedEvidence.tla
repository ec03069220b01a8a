------------------------- MODULE MCObservedEvidence -------------------------
(* An instance of ObservedEvidence for TLC: payloads and flags are alike.   *)
EXTENDS ObservedEvidence, TLC

Symmetry == Permutations(Payloads) \cup Permutations(Flags)

=============================================================================
