SPECIFICATION MCSpec
CONSTANTS
  Actors = {alice, bob}
  NoActor = NoActor
  PageLimit = 3
  Files <- SomeFiles
  AnnaOfA = AnnaOfA
  BertOfB = BertOfB
  Clients = {AnnaOfA, BertOfB, stranger}
  PrincipalOf <- SomePrincipals
  RetentionDays <- SomeDays
  DaysOnCalendar = 40
  DemoTenant = "demo"
  Keys = {k}
  Ids = {i1, i2}
  MaxWrites = 3
  NoId = NoId
  NoKey = NoKey
  NoTenant = NoTenant
  Labels <- SomeLabels
  SampleSize = 3
SYMMETRY Symmetry
INVARIANTS
  TypeOK
  ActsExactlyWhenAllowed
  DecisionsLeaveNoResidue
  IntakeTypeOK
  PinnedIsFoundAgain
  PinnedWhereExtracted
  OnlyTheDecisionIsLeft
  ReadyExactlyWhenSafe
  ReadyServes
  TenantTypeOK
  ServedAlone
  RatesAreEarned
PROPERTIES
  ErasureReachesEveryTable
CHECK_DEADLOCK FALSE
