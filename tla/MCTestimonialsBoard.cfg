CONSTANTS
  Creators = {c1}
  MaxLimit = 5
  MaxId = 8
  MaxClock = 2
SPECIFICATION Spec
INVARIANT SoleInv
PROPERTY ImplementsBoard
