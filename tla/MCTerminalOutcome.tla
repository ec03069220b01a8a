------------------------- MODULE MCTerminalOutcome -------------------------
(* Instances of TerminalOutcome for TLC.                                    *)
EXTENDS TerminalOutcome, TLC

=============================================================================
