SPECIFICATION Spec
CONSTANTS
  C = C
  D = D
  x = x
  y = y
  Classes = {C, D}
  Instances = {x, y}
  ClassOf <- MCClassOf
  Other = other
  MaxArgs = 2
  None = None
  TypeError = TypeError
  Wrappers = {v, w}
INVARIANT
  BridgesUnderSynchronized
CHECK_DEADLOCK FALSE
