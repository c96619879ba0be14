SPECIFICATION FairSpec
CONSTANTS
  NUMBER_OF_HANDLES = 2
  MAX_SEND_DEPTH = 2
  NUM_MSGS = 3
  MaxSends = 1
INVARIANTS MappedWhileUsed FreedByItsThread NoThreadsPastFailure StopsAfterOne
PROPERTY RmmodEnds
CHECK_DEADLOCK FALSE
