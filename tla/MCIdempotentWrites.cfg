SPECIFICATION Spec
CONSTANTS
  Requests = {r1, r2, r3}
  Operations = {upload, decide}
  Refusing = {decide}
  Names = {n1}
  LastReserve = 4
  MaxCrashes = 1
  MaxErasures = 2
SYMMETRY Symmetry
INVARIANTS
  TypeOK
  OneWritePerKey
  RepliesAgree
  WritesAreAudited
PROPERTIES
  ImplementsWriteOnce
CHECK_DEADLOCK FALSE
