CONSTANTS
  Configs <- AgreeConfigs
  MaxConnections = 2
  MaxRenegotiations = 2
  MaxApp = 1
SPECIFICATION Spec
INVARIANTS
  TypeOK
  NoFailure
  SessionsMatch
PROPERTIES
  Agreement
  Settles
CHECK_DEADLOCK FALSE
