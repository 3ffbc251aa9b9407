\* Three requests; a marker lives to the end of the instant it is made in, a
\* record one instant longer, of three.
SPECIFICATION AnnouncingSpec
CONSTANTS
  Absent = Absent
  Never = Never
  r1 = r1
  r2 = r2
  r3 = r3
  key = key
  route1 = route1
  route2 = route2
  b1 = b1
  b2 = b2
  Requests = {r1, r2, r3}
  IdemKeys = {key}
  NoKey = NoKey
  Routes = {route1, route2}
  Bodies = {b1, b2}
  Scope <- MCScope
  Ttl = 1
  InFlightTtl = 0
  Nobody = Nobody
  Workloads <- MCWorkloads
  MaxTime = 2
  ConflictStatus = 409
INVARIANTS AnnouncingTypeOK EffectOnce ClaimsExclusive DecisionsHaveCause
PROPERTIES ImplementsAtomicClaims ExitKeepsToItsOwn KeysUnwedge
CHECK_DEADLOCK FALSE
