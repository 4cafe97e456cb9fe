CONSTANTS
  Tabs = {t1}
  Users = {u1, u2}
  MaxFlights = 1
SPECIFICATION Spec
INVARIANT CheckedUserIsSignedIn
