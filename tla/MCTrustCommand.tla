--------------------------- MODULE MCTrustCommand ---------------------------
(* An instance of TrustCommand for TLC: ids, items and hosts are all alike. *)
EXTENDS TrustCommand, TLC

Symmetry == Permutations(CommandIds) \cup Permutations(Items) \cup Permutations(Callers)

=============================================================================
