\* One worker and one operation of one step, cancelled under way.
CONSTANTS
  w1 = w1
  w2 = w2
  Workers = {w1}
  MaxOps = 1
  NumSteps = 1
  Evaluations = {}
  MaxAttempts = 2
  MaxRetries = 0
  NoClaim = NoClaim
SPECIFICATION Spec
CHECK_DEADLOCK FALSE
PROPERTIES
  CancelledStaysUnfinished
