SPECIFICATION Spec
CONSTANTS
  Threads = {t1, t2}
  Names = {m}
  Hooks = {h1}
  NoOne = NoOne
  Racing = {m}
  MaxFailures = 0
  MaxUnloads = 0
INVARIANT
  NoHookWaits
