SPECIFICATION Spec
CONSTANTS
  Threads = {t1, t2, t3}
  Tasks = {k1}
  Contexts = {c}
  Frozen = {}
  Locks = {l1, l2, l3}
  NoLock = NoLock
  NoOne = NoOne
  MaxDepth = 2
SYMMETRY Symmetry
INVARIANTS
  TypeOK
  MutualExclusion
  OneLock
  ExitReleasesOwn
