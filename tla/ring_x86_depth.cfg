SPECIFICATION Spec
CONSTANTS
  Callers = {c1, c2}
  Messages = {m1, m2}
  MAX_SEND_DEPTH = 10
  MaxCalls = 4
  NoMsg = NoMsg
  SendThread = SendThread
  Nobody = Nobody
SYMMETRY CallersAndMessages
INVARIANT FifoOrder
