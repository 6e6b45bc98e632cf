CONSTANTS
  Workers = {w1, w2}
  Runs = {1, 2}
  Reports <- MCReports
  ShortReports <- MCShortReports
  Threshold <- MCThreshold
  UseMatcher = TRUE
  Platforms = {"gitlab", "github"}
  Unplaced = {"q"}
  MaxWriteRetries = 2
  MaxUpsets = 1
  GateMode = "threads_resolved"
SPECIFICATION PublicationSpec
SYMMETRY WorkerSymmetry
CHECK_DEADLOCK FALSE
INVARIANTS
  CommentsAreExplained
  ThreadsAreKnown
  ResolvedRowsAreTrue
  ThreadsFollowFindings
  NoDuplicateFinding
  ReportedFindingsAreKept
  PassedGateMeansThreadsResolved
PROPERTIES
  IgnoredFindingsAreLeftAlone
