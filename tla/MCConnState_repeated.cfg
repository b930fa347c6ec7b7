SPECIFICATION Spec
CONSTANTS
  UioSize = 2
  MAX_ALERT_COUNT = 5
  MaxWrites = 2
  MaxWire = 3
  Configs <- RepeatedConfigs
INVARIANTS
  AppStream
