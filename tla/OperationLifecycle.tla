------------------------- MODULE OperationLifecycle -------------------------
(***************************************************************************)
(* What a client may rely on when it polls an operation, without workers,  *)
(* leases, attempts or receipts: the status of packages/persistence's      *)
(* operation rows and which of the ordered steps are done.  OperationLedger *)
(* implements it.                                                          *)
(***************************************************************************)
EXTENDS Naturals

CONSTANTS Ops, Steps, OpOf, Pos

VARIABLES
  status,  \* of each operation
  done     \* steps that have succeeded

vars == <<status, done>>

Open == {"queued", "running"}

StepsOf(o) == {s \in Steps : OpOf[s] = o}
Before(s) == {p \in Steps : OpOf[p] = OpOf[s] /\ Pos[p] < Pos[s]}

Init ==
  /\ status = [o \in Ops |-> "absent"]
  /\ done = {}

\* An operation is created, or queued again after a failure.
Enqueue(o) ==
  /\ status[o] \in {"absent", "failed"}
  /\ status' = [status EXCEPT ![o] = "queued"]
  /\ UNCHANGED done

\* Attempts begin and end without a result.
Work(o) ==
  /\ status[o] \in Open
  /\ \E next \in Open : status' = [status EXCEPT ![o] = next]
  /\ UNCHANGED done

\* A step succeeds after all those before it; the last one ends the operation.
Finish(s) ==
  LET o == OpOf[s]
  IN /\ status[o] \in Open
     /\ s \notin done
     /\ Before(s) \subseteq done
     /\ done' = done \cup {s}
     /\ IF StepsOf(o) \subseteq done'
        THEN status' = [status EXCEPT ![o] = "succeeded"]
        ELSE \E next \in Open : status' = [status EXCEPT ![o] = next]

\* An open operation ends without success.
GiveUp(o) ==
  /\ status[o] \in Open
  /\ \E end \in {"failed", "cancelled"} : status' = [status EXCEPT ![o] = end]
  /\ UNCHANGED done

Next ==
  \/ \E o \in Ops : Enqueue(o) \/ Work(o) \/ GiveUp(o)
  \/ \E s \in Steps : Finish(s)

Spec == Init /\ [][Next]_vars
=============================================================================
