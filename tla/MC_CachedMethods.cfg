SPECIFICATION Spec
CONSTANTS
  Threads = {t1, t2}
  MaxDepth = 2
  MaxCalls = 3
  i = i
  j = j
  k = k
  p = p
  none = none
  Instances = {i, j, k, p, none}
  Copies = {j, k}
  Frozen = {none}
  Around <- MCAround
  base = base
  override = override
  replacement = replacement
  shared = shared
  Methods = {base, override, replacement}
  Shared = {shared}
  Defined = {base, override, shared}
  a1 = a1
  a2 = a2
  a3 = a3
  Addresses = {a1, a2, a3}
  NoAddress = NoAddress
  NoOne = NoOne
SYMMETRY Symmetry
INVARIANTS
  ResultIsOwn
  OneCache
CHECK_DEADLOCK FALSE
