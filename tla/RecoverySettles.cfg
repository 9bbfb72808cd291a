\* One case, two originals, replanned.
CONSTANTS
  c1 = c1
  c2 = c2
  o1 = o1
  o2 = o2
  r1 = r1
  r2 = r2
  r3 = r3
  k1 = k1
  k2 = k2
  t1 = t1
  t2 = t2
  t3 = t3
  Nil = Nil
  Originals = {o1, o2}
  Cases = {c1}
  CaseOf <- SoloCaseOf
  Repairs = {r1, r2}
  OriginalOf <- PairOriginalOf
  Keys = {k1}
  KeysOf <- SoloKeysOf
  FoundKeys <- SoloFoundKeys
  Tokens = {t1, t2}
  Budget = 2
  MaxRounds = 2
  Amounts = {1, 2}
  Deadlines = {c1}
  Checkpoints = TRUE
SPECIFICATION FairSpec
CHECK_DEADLOCK FALSE
INVARIANTS
  BudgetKept
  CallsCovered
  OpenWorkHasPlan
  ReadyOwesNothing
PROPERTIES
  ReservedPlanSettles
