\* Three jobs, two attempts, a log of two, one reset.
SPECIFICATION Spec
CONSTANTS
  Webhooks = {hook}
  Attempts = 2
  MaxLog = 2
  MaxJobs = 3
  MaxResets = 1
  Modes <- MCModes
INVARIANTS TypeOK IdsIdentify LogTruthful EvictionsHonest BlocksFollowSchedule QuietAfterClose WaitsDropped
PROPERTIES CloseReturns
CHECK_DEADLOCK FALSE
