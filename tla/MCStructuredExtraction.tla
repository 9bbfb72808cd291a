----------------------- MODULE MCStructuredExtraction -----------------------
(* Instances of StructuredExtraction for TLC. *)
EXTENDS StructuredExtraction, TLC

CONSTANTS o1, o2, w1, w2

Team == Permutations(Workers)

\* One step may be taken over, the other only be retried.
TwoAndOne == o1 :> 2 @@ o2 :> 1
=============================================================================
