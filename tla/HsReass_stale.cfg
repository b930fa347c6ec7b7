SPECIFICATION Spec
CONSTANTS
  Fragments <- PlainServerFragments
  Expected <- PlainServerExpected
  MAX_NUM_EXCEED_EXPECT = 10
  MaxHandshakes = 2
INVARIANTS
  StaleFinishedDiscarded
CHECK_DEADLOCK FALSE
