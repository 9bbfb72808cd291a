\* One worker, two faults, two attempts.
CONSTANTS
  o1 = o1
  s1 = s1
  s2 = s2
  w1 = w1
  w2 = w2
  c1 = c1
  Ops = {o1}
  Steps = {s1, s2}
  OpOf <- OpOfChain
  Pos <- PosChain
  Workers = {w1}
  Callers = {}
  Outputs = {"a", "b"}
  Keys <- KeysAndOne
  ReceiptKey <- KeyOfExecutors
  MaxAttempts <- TwoEach
  AttemptLimit = 2
  MaxFaults = 2
  NoStep = NoStep
  NoReceipt = NoReceipt
SPECIFICATION FairSpec
CHECK_DEADLOCK FALSE
PROPERTIES
  ExpiredIsReclaimed
