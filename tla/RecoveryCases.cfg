\* Two cases that share a key.
CONSTANTS
  c1 = c1
  c2 = c2
  o1 = o1
  o2 = o2
  r1 = r1
  r2 = r2
  r3 = r3
  k1 = k1
  k2 = k2
  t1 = t1
  t2 = t2
  t3 = t3
  Nil = Nil
  Originals = {o1, o2}
  Cases = {c1, c2}
  CaseOf <- PairCaseOf
  Repairs = {r1, r2}
  OriginalOf <- PairOriginalOf
  Keys = {k1, k2}
  KeysOf <- PairKeysOf
  FoundKeys <- PairFoundKeys
  Tokens = {t1, t2, t3}
  Budget = 1
  MaxRounds = 1
  Amounts = {1}
  Deadlines = {}
  Checkpoints = TRUE
SPECIFICATION Spec
CHECK_DEADLOCK FALSE
SYMMETRY Symmetry
INVARIANTS
  RepairsExclusive
PROPERTIES
  ImplementsWork
