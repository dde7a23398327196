CONSTANTS
  MaxStream = 5
  MaxRun = 2
  MaxVec = 3
  Batch = 2
SPECIFICATION Spec
INVARIANT BufferInv
PROPERTY StreamSpec
