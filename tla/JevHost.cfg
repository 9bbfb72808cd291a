\* Two workers, three jobs of which two may be active, two submissions at a time, one fault; fair
\* children, timers and handlers.
CONSTANTS
  w1 = w1
  w2 = w2
  w3 = w3
  Slots = {w1, w2}
  MaxJobs = 3
  MaxAttempts = 2
  MaxActive = 2
  Rate = 1
  Outcomes = {"ok", "retryable"}
  MaxSubmits = 2
  MaxFaults = 1
  NoJob = NoJob
SPECIFICATION FairSpec
CHECK_DEADLOCK FALSE
INVARIANTS
  RunningAttached
  LiveWorkIsWanted
  ActiveBounded
PROPERTIES
  ImplementsLifecycle
  JobsSettle
