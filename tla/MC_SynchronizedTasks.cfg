SPECIFICATION FairSpec
CONSTANTS
  Threads = {t1}
  Tasks = {k1, k2}
  Contexts = {c, z}
  Frozen = {z}
  Locks = {l1, l2, l3}
  NoLock = NoLock
  NoOne = NoOne
  MaxDepth = 2
INVARIANTS
  MutualExclusion
PROPERTY
  CallEnds
