SPECIFICATION Spec
CONSTANTS
  REC_DTLS_SN_MAX_VALUE = 5
  ResumptionOnRenego = FALSE
  MaxHandshakes = 2
  NULL = NULL
INVARIANTS
  TypeOK
  EpochOfMessage
  CurrentStateInPlace
  WriteActivationHasKeys
  LostFlightIsRepeated
  NumberOnce
CHECK_DEADLOCK FALSE
