SPECIFICATION Spec
CONSTANTS
  Requests = {r1, r2}
  Operations = {decide}
  Refusing = {decide}
  Names = {n1}
  LastReserve = 4
  MaxCrashes = 0
  MaxErasures = 0
INVARIANTS
  InProgressIsTrue
CHECK_DEADLOCK FALSE
