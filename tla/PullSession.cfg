SPECIFICATION PullSpec
CONSTANTS
  Threads = {t1, t2, t3, t4, t5}
  Cleaner = Cleaner
  MaxDepth = 3
INVARIANTS
  NoForeignRelease
PROPERTIES
  ImplementsOwnership
