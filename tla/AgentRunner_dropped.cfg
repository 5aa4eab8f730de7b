SPECIFICATION Spec
CONSTANTS
  MaxIterations = 3
  SoftWarning = 2
  MaxErrors = 2
  MaxRetries = 1
  Permits = 1
  MaxCalls = 2
  MaxRuns = 2
  MaxMessages = 9
INVARIANT ResultsBeforeContinuing
CHECK_DEADLOCK FALSE
