CONSTANTS
  Configs <- StaleConfigs
  MaxConnections = 2
  MaxRenegotiations = 1
  MaxApp = 0
SPECIFICATION Spec
INVARIANTS
  SessionsMatch
CHECK_DEADLOCK FALSE
