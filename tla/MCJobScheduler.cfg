CONSTANTS
  once = once
  often = often
  Jobs <- MCJobs
  OneShot <- MCOneShot
  Schedule <- MCSchedule
  Fallback = 1
  MaxLive = 2
  MaxLag = 1
  MaxTime = 3
  MaxFaults = 1
  MaxRestarts = 1
SPECIFICATION FairSpec
INVARIANTS
  ServedBeforeRearmed
  RowsHaveRuns
PROPERTIES
  NextRunAdvances
  DueJobsHandled
CHECK_DEADLOCK FALSE
