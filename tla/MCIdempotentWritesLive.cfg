SPECIFICATION FairSpec
CONSTANTS
  Requests = {r1, r2, r3}
  Operations = {upload}
  Refusing = {}
  Names = {n1, n2}
  LastReserve = 3
  MaxCrashes = 0
  MaxErasures = 1
PROPERTIES
  ReservationsResolve
CHECK_DEADLOCK FALSE
