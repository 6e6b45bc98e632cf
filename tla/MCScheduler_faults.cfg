\* Two worker processes and one run whose claims time out and whose workers
\* stop, three times over; the processor leaves the status to the scheduler.
CONSTANTS
  p1 = p1  p2 = p2  w1 = w1  w2 = w2  m1 = m1  h1 = h1  m2 = m2  h2 = h2
  Nobody = Nobody
  MRs = {m1}
  Heads = {h1}
  Processes = {p1, p2}
  Workers = {w1, w2}
  ProcessOf <- TwoProcesses
  Processor = "plain"
  Backlog <- OneRun
  MaxRetries = 2
  MaxFaults = 3
SPECIFICATION SchedSpec
CHECK_DEADLOCK FALSE
INVARIANTS
  OneWorkerPerRun
  HeldRunsAreNotQueued
PROPERTIES
  RunsAreAJobQueue
