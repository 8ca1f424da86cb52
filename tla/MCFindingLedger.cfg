SPECIFICATION Spec
CONSTANTS
  Actors = {alice}
  NoActor = NoActor
  Servers = {s1, s2}
  Entries = {v1}
  NoEntry = NoEntry
  Unloaded = Unloaded
  Retention = 1
  MaxTime = 4
  DecisionIds = {1, 2}
SYMMETRY Symmetry
INVARIANTS
  TypeOK
  AllowWasTrueAtOnce
  LaterReviewPrevails
PROPERTIES
  HistoryKept
CHECK_DEADLOCK FALSE
