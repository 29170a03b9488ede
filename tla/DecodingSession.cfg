SPECIFICATION FairSpec
CONSTANTS
  Threads = {t1, t2, t3, t4, t5, t6}
  Cleaner = Cleaner
INVARIANTS
  NoReleaseDuringDecode
PROPERTIES
  ImplementsOwnership
  CloseRequestHonoured
  DroppedSessionReleased
