SPECIFICATION FairSpec
CONSTANTS
  Threads = {t1, t2}
  Products = {a, b}
  Gifts = {g}
  NULL = NULL
  FixupsRaise = FALSE
  MaxDepth = 1
  MaxFailures = 0
PROPERTY
  ReadsNeverWrite
