\* Two fair workers, two operations of two steps, one of them evaluated by the API.
CONSTANTS
  w1 = w1
  w2 = w2
  Workers = {w1, w2}
  MaxOps = 2
  NumSteps = 2
  Evaluations = {2}
  MaxAttempts = 2
  MaxRetries = 1
  NoClaim = NoClaim
SPECIFICATION FairSpec
CHECK_DEADLOCK FALSE
INVARIANTS
  SingleHolder
  SucceededIsReceipted
PROPERTIES
  DoneStaysDone
  OpenSettles
