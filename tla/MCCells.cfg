CONSTANTS
  Cell = {"hub", "a"}
  Hub = "hub"
  Cap = 1
  RingCap = 2
  MaxRun = 2
  MaxAgain = 1
  MaxPost = 1
  MaxFar = 2
  MaxJam = 1
SPECIFICATION FairSpec
INVARIANTS TypeOK InOrder FreshStart
PROPERTY Arrives
CHECK_DEADLOCK FALSE
