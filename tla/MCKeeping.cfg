SPECIFICATION Spec
CONSTANTS
  Retries = 1
  Author = {"k1", "k2", "k3"}
  MaxRestarts = 1
  MaxText = 5
  MaxLen = 3
  Overlap = 1
  Reply = {"r1", "r2"}
  Chunks = 2
  SendRetries = 1
  SendFaults = 3
  KindOf <- MCKindOf
  QueueCap = 1
  MaxCrashes = 1
  Samples = 3
  Permits = 2
  Words = {"yes", "no"}
  Strategy = "UnanimousOrEscalate"
  MaxBlocks = 2
  ModelRetries = 1
  Native = FALSE
  MaxKeys = 2
  MaxValues = 3
  MaxStarts = 2
  SecretFaults = 1
  Starter = {"p1", "p2"}
  Pid = {"n1", "n2"}
  MaxCalls = 3
  Editor = {"k1", "k2"}
  File = {"f", "g"}
  Existing = {"f"}
  Edits <- MCEdits
  FileFaults = 1
  Writer = {"k1", "k2"}
  Title = {"s", "t"}
  Linked = TRUE
  MaxBatches = 2
  NoteFaults = 2
  IPs = {"ip1", "ip2"}
  MaxRequests = 2
  Window = 2
  Lockout = 5
  PruneAbove = 1
  ScanLimit = 1
  RemoveLimit = 1
  MaxTime = 7
  MaxChecks = 5
INVARIANTS
  OneProjectPerCreate LostElementsOverlap CutsAreSound ChunksOverlap HandedOverIsKept
  VoteCountsAll StreamReadsAnswer StopsOwnProcess
  ReportedChangesKept ReportedTextThere WindowBound
PROPERTIES NoGaps RowsKeptReadable ImplementsPromise
CHECK_DEADLOCK FALSE
