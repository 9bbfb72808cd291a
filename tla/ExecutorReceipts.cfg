\* Receipts of two steps at a time, without any fault.
CONSTANTS
  n1 = n1  n2 = n2  n3 = n3
  Steps = {n1, n2}
  Routed = TRUE
  MaxTogether = 2
  MaxDisturbed = 2
  MaxFaults = 0
  NoFile = NoFile
  Torn = Torn
  None = None
SPECIFICATION Spec
CHECK_DEADLOCK FALSE
SYMMETRY Calls
INVARIANTS
  ReceiptsOrdered
