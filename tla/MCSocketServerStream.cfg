SPECIFICATION FairSpec
CONSTANTS
  MaxSocket = 2
  MaxEvent = 1
  IovPerSend = 1
  MinRecv = 2
  MaxRecv = 3
  SndBuf = 1
  MsgLen = 2
  Vectored = FALSE
  AcceptErrors = {"transient"}
  MaxOpen = 2
  MaxMsg = 2
  MaxData = 0
  MaxDial = 1
INVARIANTS StreamExact WriteReady NoLostWriteEdge
PROPERTIES Flushed
CHECK_DEADLOCK FALSE
