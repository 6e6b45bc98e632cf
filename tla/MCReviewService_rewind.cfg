\* A push goes back to an earlier head.
CONSTANTS
  p1 = p1  p2 = p2  w1 = w1  w2 = w2  m1 = m1  h1 = h1  h2 = h2  h3 = h3  o1 = o1
  Nobody = Nobody
  MRs = {m1}
  Heads = {h1, h2}
  Processes = {p1}
  Workers = {w1}
  ProcessOf <- OneProcess
  Processor = "engine"
  Backlog <- EmptyTable
  MaxRetries = 1
  MaxFaults = 0
  Operators = {}
  MaxAdminOps = 0
  InOrder = TRUE
  Rewinds = TRUE
  LateComments = FALSE
  MaxMoves = 3
  MaxDuplicates = 0
SPECIFICATION Spec
CHECK_DEADLOCK FALSE
INVARIANTS
  QuietMRReviewsItsHead
