SPECIFICATION FairSpec
CONSTANTS
  Fragments <- CookieServerFragments
  Expected <- CookieServerExpected
  MAX_NUM_EXCEED_EXPECT = 2
  MaxHandshakes = 2
INVARIANTS
  TypeOK
  NoFatalAlert
  WholeMessages
  QueueBounded
PROPERTY
  HandshakeCompletes
CHECK_DEADLOCK FALSE
