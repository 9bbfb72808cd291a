\* Two concurrent calls over two spaces and three publications, with a store that drifts.
CONSTANTS
  s1 = s1  s2 = s2  p1 = p1  p2 = p2  p3 = p3  e1 = e1  e2 = e2  e3 = e3
  v1 = v1  v2 = v2  x1 = x1  x2 = x2  g1 = g1  k1 = k1  k2 = k2
  Nil = Nil
  Calls = {k1, k2}
  Spaces = {s1, s2}
  Pubs = {p1, p2, p3}
  Events = {e1, e2, e3}
  Versions = {v1, v2}
  Contents = {x1, x2}
  Evidence = {g1}
  Requests <- SomeRequests
  Reports <- SomeReports

SPECIFICATION FairSpec
CHECK_DEADLOCK FALSE

INVARIANTS
  PointerTraced
  PredecessorsTraced
  PublishedStays
PROPERTIES
  ImplementsHistory
  CallsReturn
