SPECIFICATION Spec
CONSTANTS
  MaxSocket = 2
  MaxEvent = 1
  IovPerSend = 1
  MinRecv = 1
  MaxRecv = 2
  SndBuf = 1
  MsgLen = 2
  Vectored = FALSE
  AcceptErrors = {"transient", "fatal"}
  MaxOpen = 3
  MaxMsg = 1
  MaxData = 2
  MaxDial = 1
INVARIANTS TypeOK ListsSound NoLostReadEdge LiveIds
PROPERTIES EventsSpec
CHECK_DEADLOCK FALSE
