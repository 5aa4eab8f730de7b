SPECIFICATION FairSpec
CONSTANTS
  MaxIterations = 3
  SoftWarning = 2
  MaxErrors = 2
  MaxRetries = 1
  Permits = 1
  MaxCalls = 2
  MaxRuns = 2
  MaxMessages = 9
INVARIANTS CallsAnswered ErrorsReflected
PROPERTY RunsEnd
CHECK_DEADLOCK FALSE
