SPECIFICATION FairSpec
CONSTANTS
  Threads = {t1, t2}
  Names = {m, n}
  Hooks = {h1, h2, h3}
  NoOne = NoOne
  Racing = {n}
  MaxFailures = 1
  MaxUnloads = 1
INVARIANTS
  TypeOK
  QuietHooksRun
  HookInOnePlace
  ChainedFiresAll
PROPERTY
  OperationsEnd
