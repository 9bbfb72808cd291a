\* Two operations of one budget, two workers, two attempts for one and one for the other, one retry.
CONSTANTS
  o1 = o1  o2 = o2
  w1 = w1  w2 = w2
  Ops = {o1, o2}
  Workers = {w1, w2}
  Reservation = 2
  Ceiling = 4
  Costs = {3}
  MaxTries <- TwoAndOne
  MaxLimit = 2
  None = None
SPECIFICATION Spec
CHECK_DEADLOCK FALSE
SYMMETRY Team
INVARIANTS
  BudgetHolds
  RefusedIsUnanswered
  PublishedMatchesLedger
  AnswerIsTakenUp
PROPERTY ImplementsCalls
