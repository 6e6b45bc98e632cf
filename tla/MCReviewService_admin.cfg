\* An operator against two production workers on one run and its reruns.
CONSTANTS
  p1 = p1  p2 = p2  w1 = w1  w2 = w2  m1 = m1  h1 = h1  h2 = h2  h3 = h3  o1 = o1
  Nobody = Nobody
  MRs = {m1}
  Heads = {h1}
  Processes = {p1, p2}
  Workers = {w1, w2}
  ProcessOf <- TwoProcesses
  Processor = "engine"
  Backlog <- EmptyTable
  MaxRetries = 1
  MaxFaults = 1
  Operators = {o1}
  MaxAdminOps = 2
  InOrder = TRUE
  Rewinds = FALSE
  LateComments = FALSE
  MaxMoves = 1
  MaxDuplicates = 0
SYMMETRY ServiceSymmetry
SPECIFICATION Spec
CHECK_DEADLOCK FALSE
INVARIANTS
  OneWorkerPerRun
  RunningRunsAreLeased
  CompletedRunsHaveVerdict
PROPERTIES
  RetryCountNeverFalls
