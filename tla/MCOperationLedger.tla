------------------------- MODULE MCOperationLedger -------------------------
(* Instances of OperationLedger for TLC. *)
EXTENDS OperationLedger, TLC

CONSTANTS o1, s1, s2, w1, w2, c1

\* One operation of two ordered steps.
OpOfChain == s1 :> o1 @@ s2 :> o1
PosChain == s1 :> 0 @@ s2 :> 1

\* The first step has two attempts, the second one and, after a retry, two.
TwoAndOne == s1 :> 2 @@ s2 :> 1
\* Two attempts each.
TwoEach == s1 :> 2 @@ s2 :> 2

\* Worker keys follow the step, callers reuse one key for every step.
KeyOfExecutors ==
  [e \in Executors |-> [s \in Steps |-> IF e \in Workers THEN s ELSE NoStep]]
KeysAndOne == Steps \cup {NoStep}
=============================================================================
