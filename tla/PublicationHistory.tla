------------------------- MODULE PublicationHistory -------------------------
(***************************************************************************)
(* What readers of exploratory vector publications may rely on, without    *)
(* calls, inspections, transactions or their queue: every change is one    *)
(* publication or one rollback, made at once and from what is there.       *)
(* VectorPublication implements it.                                        *)
(***************************************************************************)
EXTENDS Naturals, Sequences

CONSTANTS Pubs, Events, Spaces, Publications, NoPublication, NoPointer

VARIABLES
  pubs,     \* publications by id
  pointer,  \* the active one of each space
  log       \* how each space came to it

vars == <<pubs, pointer, log>>

Recorded(e) == \E s \in Spaces : \E i \in 1 .. Len(log[s]) : log[s][i].id = e

Init ==
  /\ pubs = [p \in Pubs |-> NoPublication]
  /\ pointer = [s \in Spaces |-> NoPointer]
  /\ log = [s \in Spaces |-> <<>>]

\* A space turns to a publication, under an event that was never recorded.
Activate(s, p, version, e) ==
  /\ ~Recorded(e)
  /\ pointer' = [pointer EXCEPT ![s] = [pub |-> p, version |-> version, revision |-> pointer[s].revision + 1]]
  /\ log' = [log EXCEPT ![s] = Append(log[s], [id |-> e, from |-> pointer[s].pub, to |-> p])]

\* A new publication follows the active one of its space.
Publish(p, new, e) ==
  /\ pubs[p] = NoPublication
  /\ new.predecessor = pointer[new.space].pub
  /\ pubs' = [pubs EXCEPT ![p] = new]
  /\ Activate(new.space, p, new.version, e)

\* A space returns to another publication of its own.
Rollback(p, e) ==
  LET s == pubs[p].space IN
  /\ pubs[p] # NoPublication
  /\ pointer[s] # NoPointer
  /\ pointer[s].pub # p
  /\ Activate(s, p, pubs[p].version, e)
  /\ UNCHANGED pubs

Next ==
  \E p \in Pubs, e \in Events :
    \/ \E new \in Publications : Publish(p, new, e)
    \/ Rollback(p, e)

Spec == Init /\ [][Next]_vars
=============================================================================
