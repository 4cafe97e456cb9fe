CONSTANTS
  Creators = {c1, c2, c3}
  MaxLimit = 3
  MaxId = 6
  MaxClock = 1
SPECIFICATION Spec
SYMMETRY Symmetry
INVARIANTS TypeOK TableBound PendingBound LoneInv ReadNewestStay
PROPERTY LoneRequestRestoresTheLimit
