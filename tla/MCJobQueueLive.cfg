SPECIFICATION FairSpec
CONSTANTS
  Workers = {w1, w2}
  Clients = {c1}
  Keys = {k1, k2}
  NoKey = NoKey
  AskedAttempts = {2}
  MaxJobs = 2
  MaxStrays = 2
  MaxCrashes = 0
PROPERTIES
  EventuallyAllSettled
CHECK_DEADLOCK FALSE
