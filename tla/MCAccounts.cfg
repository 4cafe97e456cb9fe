CONSTANTS
  Requests = {r1, r2, r3}
  Emails = {e1}
  Workers = {w1, w2}
SPECIFICATION Spec
INVARIANTS TypeOK AcknowledgedHasRow OneAcknowledgement LateSignupsAddNoRow SuccessesAreRows
PROPERTY EverySignupEnds
