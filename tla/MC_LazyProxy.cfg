SPECIFICATION FairSpec
CONSTANTS
  Threads = {t1, t2, t3}
  Products = {a, b}
  Gifts = {g}
  NULL = NULL
  FixupsRaise = TRUE
  MaxDepth = 2
  MaxFailures = 1
INVARIANTS
  TypeOK
  FactoryExclusive
  MarkedIsSet
  OneObject
PROPERTIES
  PythonReadsNeverWrite
  UseEnds
