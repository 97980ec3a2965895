SPECIFICATION Spec
CONSTANTS
  m1 = m1
  m2 = m2
  c1 = c1
  c2 = c2
  c3 = c3
  v1 = v1
  v2 = v2
  None = None
  Message = {m1}
  Conv = {v1}
  ConvOf <- OneMessage
  Copy = {c1}
  MsgOf <- Once
  TargetOrder <- TwoTargets
  Fault = {"refused"}
  MaxFault = 2
INVARIANTS
  NoTargetTwice
CHECK_DEADLOCK FALSE
