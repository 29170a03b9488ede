SPECIFICATION FairSpec
CONSTANTS
  Threads = {t1, t2}
  Sessions = {s1, s2, s3}
  NoSession = NoSession
  MaxHandle = 2
  MaxDepth = 3
INVARIANTS
  ExclusiveUse
  MemorySafe
  NoLeak
  HandlesNameOneSession
  PublishingSafe
PROPERTIES
  StaleHandlesStayStale
  ImplementsLifetime
  ClosedSessionsAreFreed
