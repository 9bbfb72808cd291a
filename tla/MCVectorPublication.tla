------------------------ MODULE MCVectorPublication ------------------------
EXTENDS VectorPublication, TLC

CONSTANTS s1, s2, p1, p2, p3, e1, e2, e3, v1, v2, x1, x2, g1, k1, k2

Publish(p, e, s, v, x, g) ==
  [kind |-> "publish", pub |-> p, event |-> e, space |-> s, version |-> v, content |-> x, evidence |-> g]
Rollback(p, e, s) ==
  [kind |-> "rollback", pub |-> p, event |-> e, space |-> s, version |-> v1, content |-> x1, evidence |-> Nil]
Reconcile(s) ==
  [kind |-> "reconcile", pub |-> p1, event |-> e1, space |-> s, version |-> v1, content |-> x1, evidence |-> Nil]

\* Two publications of one space and one of another, a replay under another
\* event and content, one without evidence; rollbacks within and across spaces,
\* the first with an event that may be taken.
SomeRequests ==
  {Publish(p1, e1, s1, v1, x1, Nil), Publish(p1, e2, s1, v1, x2, Nil), Publish(p2, e2, s1, v2, x1, g1),
   Publish(p3, e3, s2, v1, x1, Nil), Rollback(p1, e3, s1), Rollback(p2, e1, s2), Rollback(p2, e1, s1), Reconcile(s1)}

SomeReports == {[content |-> x1, evidence |-> g1], [content |-> x2, evidence |-> Nil]}

Concurrent == Permutations(Calls)
=============================================================================
