SPECIFICATION LayerFairSpec
CONSTANTS
  NUMBER_OF_HANDLES = 1
  MAX_SEND_DEPTH = 1
  NUM_MSGS = 1
  Callers = {c1}
  MaxCalls = 2
  Loader = Loader
  Nobody = Nobody
  NoMsg = NoMsg
  arm = arm
  x86 = x86
  Words = 2
  MaxSends = 6
  Blank = Blank
INVARIANTS DeliveredInOrder PeerKeepsUp
PROPERTIES HandlesFairSpec WireDelivered
CHECK_DEADLOCK FALSE
