SPECIFICATION ExchangeSpec
INVARIANTS
  TypeOK
  WildcardWhole
  Admission
  BodyConforms
  LayersCompose
CONSTANTS
  c1 = c1
  c2 = c2
  gone = gone
  tall = tall
  bad = bad
  r1 = r1
  None = None
  Unknown = Unknown
  Calls <- MCCalls
  Operations <- MCOperations
  Targets <- MCTargets
  Overrides <- MCOverrides
  Valid <- MCValid
  Names <- MCNames
  Components <- MCComponents
  Patterns <- MCPatterns
  Numerals <- MCNumerals
  MaxUnionHops = 2
  Cases <- MCCases
  Requests <- MCRequests
  Content <- MCContent
  Conforms <- ValidateRequest
  Drafts <- Generated
  Laid <- ApplyAll
  Part <- Narrow
SYMMETRY Symmetric
CHECK_DEADLOCK FALSE
