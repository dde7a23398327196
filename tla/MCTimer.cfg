SPECIFICATION Spec
CONSTANTS
  Item = {a1, a2, a3, a4}
  Timing <- TimingValue
  MaxId = 4
  MaxNow = 2
SYMMETRY Symmetry
INVARIANTS TypeOK OneHolder IdsResolve
PROPERTIES AlarmSpec
