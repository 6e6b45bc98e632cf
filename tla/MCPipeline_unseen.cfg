CONSTANTS
  MediumLines = 2
  LargeLines = 4
  DefaultSettings <- MCDefaultSettings
  ConfigRef = "base"
  DefaultLanguage = 9
  Packs <- MCPacks
  DefaultCoverageThreshold = 80
  Callers = {me, other}
  Me = me
  Scopes = {1, 2, 3}
  Window = 2
  MaxClock = 4
  Registered = {1, 2, 3}
  DefaultRoute = 1
  DefaultFallbacks <- MCDefaultFallbacks
  Chains <- MCChains
  SchemaRoutes = {3}
  timeoutRetries = 2
  MaxPages = 2
  diffNotReadyMaxRetries = 1
  rateLimitMaxRetries = 1
  Scenarios <- MCScenarios
  GateMode = "all"
SPECIFICATION PipelineSpec
CHECK_DEADLOCK FALSE
INVARIANT UnseenChangesDoNotPass
