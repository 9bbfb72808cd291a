\* Three steps of a routed run, two at a time, one crash or one step whose receipts cannot be written.
CONSTANTS
  n1 = n1  n2 = n2  n3 = n3
  Steps = {n1, n2, n3}
  Routed = TRUE
  MaxTogether = 2
  MaxDisturbed = 2
  MaxFaults = 1
  NoFile = NoFile
  Torn = Torn
  None = None
SPECIFICATION Spec
CHECK_DEADLOCK FALSE
SYMMETRY Calls
INVARIANTS
  ChainCoherent
  SealedIsRouted
  ReceiptPerStep
PROPERTIES
  CheckpointReceipted
  CheckpointQuiescent
