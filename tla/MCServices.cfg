CONSTANTS
  Requests = {r1, r2}
  Clients = {c1}
  TicksPerSecond = 2
  Lifetime = 2
  MaxTime = 6
  FileRequests = {f1, f2, f3}
  Paths = {p1}
  MaxChunks = 2
  ProductRequests = {q1, q2}
  Workers = {w1, w2}
  Limit = 3
  MailRequests = {m1, m2, m3}
SPECIFICATION MCSpec
SYMMETRY Symmetry
INVARIANTS Types AcknowledgedFieldsStay AcceptedForAnHour SchemesAcceptTheirOwn ReadsAreWhole
  ViewsAddUp StoppedWorkersExported SendsAreCounted
CHECK_DEADLOCK FALSE
