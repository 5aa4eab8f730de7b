SPECIFICATION Spec
CONSTANTS
  Caller = {"o1", "o2"}
  McpQueueCap = 1
  McpMaxOps = 3
  McpMaxTroubles = 2
  KindOf <- MCKindOf
  QueueCap = 1
  MaxCrashes = 1
  MaxDepth = 2
  MaxRounds = 2
  Permits = 1
  Width = 3
  BrowserCall = {"b1", "b2"}
  AttachOnly = FALSE
  MaxCalls = 2
  MaxPages = 2
  MaxTroubles = 1
INVARIANTS OwnAnswer ForgottenIsSafe ExtraLaunchesGivenUp
PROPERTIES OperationsEnd RepeatsExplained TextsArrive ExecutionEnds CallsEnd
CHECK_DEADLOCK FALSE
