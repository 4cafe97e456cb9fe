CONSTANTS
  Tabs = {t1, t2}
  Users = {u1, u2}
  MaxFlights = 2
SPECIFICATION Spec
SYMMETRY Symmetry
INVARIANTS TypeOK RememberedPair
CHECK_DEADLOCK FALSE
