----------------------------- MODULE MCWorldJob -----------------------------
EXTENDS WorldJob, TLC

Symmetry == Permutations(Workers)
=============================================================================
