SPECIFICATION FairSpec
CONSTANTS
  NUMBER_OF_HANDLES = 2
  MAX_SEND_DEPTH = 2
  NUM_MSGS = 3
  Callers = {c1}
  MaxCalls = 2
  Loader = Loader
  Nobody = Nobody
  NoMsg = NoMsg
INVARIANTS SizeBounded SizeIsOwed WireInOrder Balanced
PROPERTIES QueuesAreFifo LoopEnds CallsReturn DemoTransmitted
CHECK_DEADLOCK FALSE
