SPECIFICATION Spec
CONSTANTS
  MaxSocket = 2
  MaxEvent = 1
  IovPerSend = 1
  MinRecv = 1
  MaxRecv = 2
  SndBuf = 1
  MsgLen = 2
  Vectored = TRUE
  AcceptErrors = {"transient"}
  MaxOpen = 2
  MaxMsg = 2
  MaxData = 2
  MaxDial = 1
INVARIANT StreamExact
CHECK_DEADLOCK FALSE
