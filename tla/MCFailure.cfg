\* Three requests, two policies, three instants, two calls of the control plane; windows and open circuits of one.
SPECIFICATION Spec
CONSTANTS
  Absent = Absent
  Never = Never
  r1 = r1
  r2 = r2
  r3 = r3
  op1 = op1
  op2 = op2
  Requests = {r1, r2, r3}
  Operations = {op1, op2}
  Policies <- MCPolicies
  NoCircuit = NoCircuit
  Unknown = Unknown
  Workloads <- MCWorkloads
  MaxTimes = 2
  OutageTtl = 1
  MaxCalls = 2
  MaxTime = 2
INVARIANTS TypeOK FailNextExact CircuitExact OpenHasCause OpenSinceTripped
SYMMETRY MCSymmetry
CHECK_DEADLOCK FALSE
