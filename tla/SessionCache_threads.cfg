SPECIFICATION FairSpec
CONSTANTS
  c1 = c1
  c2 = c2
  a = a
  b = b
  c = c
  None = None
  IterEnd = IterEnd
  Conns = {c1, c2}
  Cells = {s1, s2}
  Keys = {a, c}
  BucketSize = 3
  HashCode <- MCHashCode
  Roles <- ServerAndClient
  Modes = {"server"}
  CacheSizes = {1}
  Settings <- Both2
  MaxTime = 1
  MaxSettings = 1
  MaxKept = 1
  MaxHellos <- Twice1Once2
  TicketIds = {a}
INVARIANTS
  TypeOK
  ReferencesExact
  TableCoherent
  ClearedAll
PROPERTIES
  LeavesOnlyInvalid
  GrowthBounded
  LockReleased
CHECK_DEADLOCK FALSE
