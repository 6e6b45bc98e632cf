\* Events overtake each other and repeat, heads come back, comments come late;
\* two requests at a time, a command, and one worker that looks for
\* cancellations.
CONSTANTS
  p1 = p1  w1 = w1  m1 = m1  h1 = h1  h2 = h2  r1 = r1  r2 = r2  c1 = c1
  Nobody = Nobody
  NoDelivery = NoDelivery
  MRs = {m1}
  Heads = {h1, h2}
  Processes = {p1}
  Workers = {w1}
  ProcessOf <- OneProcess
  Processor = "llm"
  Backlog <- EmptyTable
  MaxRetries = 0
  MaxFaults = 0
  Operators = {}
  MaxAdminOps = 0
  InOrder = FALSE
  Rewinds = TRUE
  LateComments = TRUE
  MaxMoves = 3
  MaxDuplicates = 1
  Handlers = {r1, r2}
  MaxLosses = 1
  MaxOddMoves = 2
  Commands = {c1}
SYMMETRY DeploymentSymmetry
SPECIFICATION DeploymentSpec
CHECK_DEADLOCK FALSE
INVARIANTS
  NoDuplicateRun
  SupersessionPointsForward
  AcknowledgedEventsAreApplied
  EventsAreAppliedOnce
  ManualRunReplacesOlder
  
