SPECIFICATION FairSpec
CONSTANTS
  REC_DTLS_SN_MAX_VALUE = 4
  ResumptionOnRenego = FALSE
  MaxHandshakes = 1
  NULL = NULL
PROPERTIES
  QueueIsReleased
CHECK_DEADLOCK FALSE
