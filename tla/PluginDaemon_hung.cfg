SPECIFICATION HungSpec
CONSTANTS
  Callers = {c1, c2}
  Handles = {h1, h2}
  NoHandle = NoHandle
  NoReq = NoReq
  MaxCalls = 1
  MaxLines = 1
PROPERTY
  TimedOutIsReplaced
CHECK_DEADLOCK FALSE
