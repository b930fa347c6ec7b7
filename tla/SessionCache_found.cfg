SPECIFICATION Spec
CONSTANTS
  c1 = c1
  c2 = c2
  a = a
  b = b
  c = c
  None = None
  IterEnd = IterEnd
  Conns = {c1, c2}
  Cells = {s1, s2}
  Keys = {a, c}
  BucketSize = 3
  HashCode <- MCHashCode
  Roles <- TwoServers
  Modes = {}
  CacheSizes = {}
  Settings <- Both2
  MaxTime = 1
  MaxSettings = 0
  MaxKept = 0
  MaxHellos <- Twice1Once2
  TicketIds = {a}
INVARIANT FoundIsHeld
CHECK_DEADLOCK FALSE
