\* Every run settles: two goroutines in one process, retries, one fault, and a
\* processor that writes the status itself and so can make a worker stop.
CONSTANTS
  p1 = p1  p2 = p2  w1 = w1  w2 = w2  m1 = m1  h1 = h1  m2 = m2  h2 = h2
  Nobody = Nobody
  MRs = {m1, m2}
  Heads = {h1, h2}
  Processes = {p1}
  Workers = {w1, w2}
  ProcessOf <- OneProcess
  Processor = "llm"
  Backlog <- TwoRuns
  MaxRetries = 1
  MaxFaults = 1
SPECIFICATION FairSchedSpec
CHECK_DEADLOCK FALSE
PROPERTIES
  EveryRunSettles
