SPECIFICATION Spec
CONSTANTS
  Docs = {d1}
  Keys = {k1}
  Admins = {e1}
  MaxBackups = 1
  MaxErasures = 1
SYMMETRY Symmetry
INVARIANTS
  RoundtripRecovers
CHECK_DEADLOCK FALSE
