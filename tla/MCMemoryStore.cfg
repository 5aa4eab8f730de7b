SPECIFICATION Spec
CONSTANTS
  a = a
  b = b
  Content = {a, b}
  Duplicate <- MCDuplicate
  Related <- MCRelated
  Features <- MCFeatures
  Saves <- MCSaves
  Deletable = {a}
  Saver = {s1}
  MaxLinks = 1
  WorkingIdle = 1
  PromoteAge = 1
  PromoteCount = 1
  ArchiveIdle = 0
  ArchiveIdleVital = 1
  TombstoneIdle = 1
  RecentWindow = 0
  Vital = 60
  TombstoneImportance = 30
  MaxRows = 2
  MaxTime = 1
  MaxSessions = 2
INVARIANTS DeletedNotRecalled OldRowsIndexed
CHECK_DEADLOCK FALSE
