\* Three attempts at one call; the clock stands still.
SPECIFICATION AnnouncingSpec
CONSTANTS
  Absent = Absent
  Never = Never
  r1 = r1
  r2 = r2
  r3 = r3
  key = key
  route1 = route1
  route2 = route2
  b1 = b1
  b2 = b2
  Requests = {r1, r2, r3}
  IdemKeys = {key}
  NoKey = NoKey
  Routes = {route1, route2}
  Bodies = {b1, b2}
  Scope <- MCScope
  Ttl = 2
  InFlightTtl = 1
  Nobody = Nobody
  Workloads <- MCWorkloads
  MaxTime = 0
  ConflictStatus = 409
INVARIANT OneAtATime
CHECK_DEADLOCK FALSE
