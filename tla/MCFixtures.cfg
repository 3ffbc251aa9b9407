SPECIFICATION Spec
CONSTANTS
  Keys <- MCKeys
  Files <- MCFiles
  FileOf <- MCFileOf
  Unsafe <- MCUnsafe
  Flushers = {f1}
  Debounce = Debounce
  Absent = Absent
  MaxVersions = 3
  MaxCrashes = 1
  MaxEdits = 1
  Requests = {r1, r2, r3}
  RequestKeys <- MCRequestKeys
  WildcardOf <- MCWildcardOf
  Bodiless = {}
  Sendable <- MCKeys
  Configs <- MCConfigs
  Unlimited = Unlimited
  Generated = Generated
  Responses <- MCResponses
  Scopes <- MCScopes
  Plans <- MCPlans
  Reloads = {b1, b2}
  Servers = {s1, s2}
  Handles = {1, 2}
  MaxDocuments = 2
  Mixes <- MCMixes
SYMMETRY Symmetric
INVARIANTS
  TypeOK
  DiskKeepsUp
  FlightsBounded
  NarrowedOnlyLayered
  BakeAccounted
  ReloadSeesFlushed
  SlotsTrue
CHECK_DEADLOCK FALSE
