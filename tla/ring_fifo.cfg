SPECIFICATION FairSpec
CONSTANTS
  Callers = {c1, c2}
  Messages = {m1, m2}
  MAX_SEND_DEPTH = 4
  MaxCalls = 6
  NoMsg = NoMsg
  SendThread = SendThread
  Nobody = Nobody
INVARIANTS TypeOK SlotsAccounted HeadRetracesTail
PROPERTIES FifoSpec FifoFairSpec CallsReturn
