\* Two emissions in one generation are enough to swap their ordinals.
SPECIFICATION Spec
CONSTANTS
  Webhooks = {hook}
  Attempts = 2
  MaxLog = 2
  MaxJobs = 2
  MaxResets = 1
  Modes <- MCModes
INVARIANTS OrdinalsFollowSchedule
CHECK_DEADLOCK FALSE
