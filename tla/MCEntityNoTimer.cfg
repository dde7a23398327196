SPECIFICATION FairSpec
CONSTANTS
  Entity = {e1, e2}
  Peer = {p1}
  MaxMsg = 2
  MaxWait = 1
  MaxSeq = 1
  TimersRun = FALSE
PROPERTIES BlockEnds
