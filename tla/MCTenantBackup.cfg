SPECIFICATION Spec
CONSTANTS
  Docs = {d1}
  Keys = {k1}
  Admins = {e1, e2}
  MaxBackups = 1
  MaxErasures = 2
SYMMETRY Symmetry
INVARIANTS
  TypeOK
  RoundtripExact
  TornIsRefused
CHECK_DEADLOCK FALSE
