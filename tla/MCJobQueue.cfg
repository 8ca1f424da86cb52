SPECIFICATION Spec
CONSTANTS
  Workers = {w1, w2}
  Clients = {c1}
  Keys = {k1, k2}
  NoKey = NoKey
  AskedAttempts = {0, 2}
  MaxJobs = 2
  MaxStrays = 2
  MaxCrashes = 1
SYMMETRY Symmetry
INVARIANTS
  TypeOK
  AttemptBudget
  OneHolderPerAttempt
  RunningIsHeld
  SameKeySameJob
PROPERTIES
  DeadLetterIsFinal
  ImplementsBoundedRetry
CHECK_DEADLOCK FALSE
