SPECIFICATION Spec
CONSTANTS
  Threads = {t1, t2, t3, t4, t5, t6, t7, t8, t9, t10}
  Cleaner = Cleaner
  MaxDepth = 2
INVARIANTS
  OneNativeCall
  DamageIsFinal
PROPERTIES
  ImplementsOwnership
