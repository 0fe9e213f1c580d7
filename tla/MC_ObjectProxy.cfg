SPECIFICATION Spec
CONSTANTS
  Threads = {t1, t2}
  Proxies = {p1, p2}
  Objects = {o1, o2, o3}
  NULL = NULL
  Plain = Plain
SYMMETRY Symmetry
ACTION_CONSTRAINT NewOrLeft
INVARIANTS
  TypeOK
  NeverDangling
  ReferencesExact
  NothingLeaked
  NullNeverUsed
  InitLeavesWrapped
PROPERTIES
  StaysWrapped
  ImplementsRegister
