-------------------------- MODULE MCClarification --------------------------
(* Instances of Clarification for TLC.                                      *)
EXTENDS Clarification, TLC

=============================================================================
