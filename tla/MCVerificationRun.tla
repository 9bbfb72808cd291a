------------------------- MODULE MCVerificationRun -------------------------
(* Instances of VerificationRun for TLC. *)
EXTENDS VerificationRun, TLC

CONSTANTS n1, n2, n3

Calls == Permutations(Steps)
=============================================================================
