SPECIFICATION Spec
CONSTANTS
  Threads = {t1, t2}
  MaxDepth = 2
  base = base
  derived = derived
  instance = instance
  Parents = {base, derived, instance}
  Mro <- MCMro
  Home = {base}
  Permanent = {k1, k2, k3}
  Transient = {u1, u2}
  Missing = Missing
  NoPatch = NoPatch
SYMMETRY Symmetry
INVARIANTS
  TypeOK
  PatchesStay
  TransientsGo
  DeferredLands
CHECK_DEADLOCK FALSE
