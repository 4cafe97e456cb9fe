CONSTANTS
  Requests = {r1, r2}
  Emails = {e1, e2}
  Workers = {w1}
SPECIFICATION Spec
SYMMETRY Symmetry
INVARIANT EmailsAreUnique
