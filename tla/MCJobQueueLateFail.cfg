SPECIFICATION Spec
CONSTANTS
  Workers = {w1, w2}
  Clients = {c1}
  Keys = {k1}
  NoKey = NoKey
  AskedAttempts = {2}
  MaxJobs = 1
  MaxStrays = 1
  MaxCrashes = 0
INVARIANTS
  CompletedOnce
CHECK_DEADLOCK FALSE
