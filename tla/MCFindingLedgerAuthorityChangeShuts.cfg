SPECIFICATION Spec
CONSTANTS
  Actors = {alice, bob}
  NoActor = NoActor
  Servers = {s1, s2}
  Entries = {v1, v2}
  NoEntry = NoEntry
  Unloaded = Unloaded
  Retention = 1
  MaxTime = 3
  DecisionIds = {1, 2}
SYMMETRY Symmetry
INVARIANTS
  AuthorityChangeShuts
CHECK_DEADLOCK FALSE
