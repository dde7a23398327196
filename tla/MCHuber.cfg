CONSTANTS
  Peer = {p1, p2}
  Caller = {c1}
  MaxId = 3
  MaxAsk = 2
SPECIFICATION Spec
INVARIANTS OneLink Tracked
SYMMETRY PeerSymmetry
CHECK_DEADLOCK FALSE
