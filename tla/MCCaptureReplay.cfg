SPECIFICATION Spec
CONSTANTS
  Absent = Absent
  Never = Never
  Webhooks <- MCWebhooks
  Scopes <- MCScopes
  Unscoped = ""
  Unresolved = Unresolved
  Scoped <- MCWebhooks
  Keys <- MCKeys
  Urls <- MCRequests
  Minters <- MCRequests
  Readers = {r1}
  Ids = {i1, i2}
  MaxLinks = 1
  Operations <- MCOperations
  Rules <- MCRules
  Emits <- MCEmits
  Inputs <- MCInputs
  Mixes <- MCMixes
  MaxRequests = 3
  MaxObservers = 1
  MaxReplays = 1
  MaxResets = 1
PROPERTY ReplayHasNoEffect
CHECK_DEADLOCK FALSE
