SPECIFICATION Spec
CONSTANTS
  s1 = s1
  s2 = s2
  Send = {s1, s2}
  Reloads = FALSE
  MaxFault = 1
INVARIANTS
  TypeOK
  UpIsUsable
  AckHeard
  ProbesWithinRules
PROPERTY PageComesBack
CHECK_DEADLOCK FALSE
