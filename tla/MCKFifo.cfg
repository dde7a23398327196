SPECIFICATION FairSpec
CONSTANTS
  Writer = {w1, w2}
  Body <- MCBody
  Size = 16
  CounterMod = 32
  RecvSize = 1
  MaxPut = 4
  MaxCrash = 1
INVARIANTS TypeOK OneInside FitsBuffer
PROPERTIES ChannelSpec Drains
CHECK_DEADLOCK FALSE
