-------------------------- MODULE MCInMemoryLedger --------------------------
(* Instances of InMemoryLedger for TLC. *)
EXTENDS InMemoryLedger

CONSTANTS w1, w2

=============================================================================
