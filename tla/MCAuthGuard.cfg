CONSTANTS
  Requests = {r1, r2}
  Keys = {k1, k2}
SPECIFICATION Spec
INVARIANTS TypeOK AttemptsAddUp BearerKeyWasPublished FetchedWasPublished
