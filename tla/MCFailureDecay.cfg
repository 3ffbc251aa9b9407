\* The instance of MCFailure.cfg, and no call of the control plane.
SPECIFICATION Spec
CONSTANTS
  Absent = Absent
  Never = Never
  r1 = r1
  r2 = r2
  r3 = r3
  op1 = op1
  op2 = op2
  Requests = {r1, r2, r3}
  Operations = {op1, op2}
  Policies <- MCPolicies
  NoCircuit = NoCircuit
  Unknown = Unknown
  Workloads <- MCWorkloads
  MaxTimes = 2
  OutageTtl = 1
  MaxCalls = 0
  MaxTime = 2
INVARIANT CountsDecay
CHECK_DEADLOCK FALSE
