\* One worker, one run, no faults: the commit status once the run has settled.
CONSTANTS
  p1 = p1  p2 = p2  w1 = w1  w2 = w2  m1 = m1  h1 = h1  m2 = m2  h2 = h2
  Nobody = Nobody
  MRs = {m1}
  Heads = {h1}
  Processes = {p1}
  Workers = {w1}
  ProcessOf <- OneWorker
  Processor = "engine"
  Backlog <- OneRun
  MaxRetries = 1
  MaxFaults = 0
SPECIFICATION SchedSpec
CHECK_DEADLOCK FALSE
INVARIANTS
  CommitStatusSettles
