\* Cancellations and supersessions against two workers, the reaper and retries,
\* with a processor that leaves the status to the scheduler.
CONSTANTS
  p1 = p1  p2 = p2  w1 = w1  w2 = w2  m1 = m1  h1 = h1  h2 = h2  h3 = h3  o1 = o1
  Nobody = Nobody
  MRs = {m1}
  Heads = {h1, h2}
  Processes = {p1, p2}
  Workers = {w1, w2}
  ProcessOf <- TwoProcesses
  Processor = "plain"
  Backlog <- EmptyTable
  MaxRetries = 1
  MaxFaults = 1
  Operators = {}
  MaxAdminOps = 0
  InOrder = TRUE
  Rewinds = FALSE
  LateComments = FALSE
  MaxMoves = 2
  MaxDuplicates = 0
SYMMETRY ServiceSymmetry
SPECIFICATION Spec
CHECK_DEADLOCK FALSE
INVARIANTS
  CompletedRunsHaveVerdict
  SkippedWritesAreExplained
PROPERTIES
  RunsAreAJobQueue
