SPECIFICATION FairSpec
CONSTANTS
  UioSize = 2
  MAX_ALERT_COUNT = 5
  MaxWrites = 2
  MaxWire = 3
  Configs <- SafetyConfigs
INVARIANTS
  TypeOK
  NothingSwallowed
  AppStream
  RenegotiationEnds
  CloseIsFinal
  CloseAnnounced
PROPERTIES
  LifeSpec
  Closes
CHECK_DEADLOCK FALSE
