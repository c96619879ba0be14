SPECIFICATION Spec
CONSTANTS
  NUMBER_OF_HANDLES = 2
  MAX_SEND_DEPTH = 2
  NUM_MSGS = 0
  Callers = {c1}
  MaxCalls = 3
  Loader = Loader
  Nobody = Nobody
  NoMsg = NoMsg
INVARIANT EveryMessageTransmitted
