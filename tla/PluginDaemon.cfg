SPECIFICATION FairSpec
CONSTANTS
  Callers = {c1, c2}
  Handles = {h1, h2}
  NoHandle = NoHandle
  NoReq = NoReq
  MaxCalls = 2
  MaxLines = 1
INVARIANTS
  OwnReply
  OneServer
PROPERTIES
  CallsReturnAndLosersEnd
CHECK_DEADLOCK FALSE
