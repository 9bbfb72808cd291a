---------------------------- MODULE ProviderCall ----------------------------
(***************************************************************************)
(* What a client, an operator and a provider may rely on when operations   *)
(* ask the provider, without workers, leases, stages, reservations and     *)
(* lost replies: one request, one answer, one charge and one result, in    *)
(* this order but for the charge.  StructuredExtraction implements it.     *)
(***************************************************************************)
EXTENDS Naturals

CONSTANTS Ops, Answers, Costs, None

VARIABLES
  status,    \* of the operation
  requests,  \* how often the provider was asked for it
  answer,    \* what is kept of the answer
  charge,    \* what the call was charged
  result     \* what is published: the kind of the answer, and the charge

vars == <<status, requests, answer, charge, result>>

Init ==
  /\ status = [o \in Ops |-> "running"]
  /\ requests = [o \in Ops |-> 0]
  /\ answer = [o \in Ops |-> None]
  /\ charge = [o \in Ops |-> None]
  /\ result = [o \in Ops |-> None]

\* A slow worker may ask for an operation that has ended meanwhile.
Ask(o) ==
  /\ requests[o] = 0
  /\ requests' = [requests EXCEPT ![o] = 1]
  /\ UNCHANGED <<status, answer, charge, result>>

\* It cannot file the answer then.
Receive(o) ==
  /\ status[o] = "running" /\ requests[o] = 1 /\ answer[o] = None
  /\ \E a \in Answers : answer' = [answer EXCEPT ![o] = a]
  /\ UNCHANGED <<status, requests, charge, result>>

\* The charge is the one the answer states, or an operator's after the end.
Charge(o) ==
  /\ charge[o] = None
  /\ \E cost \in Costs :
       /\ \/ status[o] = "running" /\ answer[o] # None /\ answer[o].cost = cost
          \/ status[o] # "running"
       /\ charge' = [charge EXCEPT ![o] = cost]
  /\ UNCHANGED <<status, requests, answer, result>>

\* The result states the charge.  An answer that names its cost is charged before.
Publish(o) ==
  /\ status[o] = "running" /\ answer[o] # None /\ result[o] = None
  /\ charge[o] = None => answer[o].cost = None
  /\ result' = [result EXCEPT ![o] = [kind |-> answer[o].kind, cost |-> charge[o]]]
  /\ UNCHANGED <<status, requests, answer, charge>>

\* Success needs a result, and a refusal that there is no answer.
MayEnd(o, end) ==
  \/ end \in {"failed", "cancelled"}
  \/ end = "succeeded" /\ result[o] # None /\ result[o].kind = "accepted"
  \/ end = "refused" /\ answer[o] = None

End(o) ==
  /\ status[o] = "running"
  /\ \E end \in {"succeeded", "failed", "refused", "cancelled"} :
       MayEnd(o, end) /\ status' = [status EXCEPT ![o] = end]
  /\ UNCHANGED <<requests, answer, charge, result>>

\* An operator has it tried again, with what it has got so far.
Retry(o) ==
  /\ status[o] \in {"failed", "refused"}
  /\ status' = [status EXCEPT ![o] = "running"]
  /\ UNCHANGED <<requests, answer, charge, result>>

\* Most steps of a worker are not seen here.
Hidden == UNCHANGED vars

Next == Hidden \/ \E o \in Ops : Ask(o) \/ Receive(o) \/ Charge(o) \/ Publish(o) \/ End(o) \/ Retry(o)

Spec == Init /\ [][Next]_vars
=============================================================================
