SPECIFICATION FairSpec
CONSTANTS
  REC_SLID_WINDOW_SIZE = 3
  Records <- TwoHandshakes
  UNPROCESSED_APP_MSG_COUNT_MAX = 2
  MaxHandshakes = 2
  NULL = NULL
INVARIANTS
  TypeOK
  ActivationHasKeys
  OneEpochPerHandshake
  FirstHandshakeToleratesApp
  AppConserved
  AtMostOnce
  WindowExact
PROPERTIES
  HsCacheKept
  EarlyFinishedCompletes
CHECK_DEADLOCK FALSE
