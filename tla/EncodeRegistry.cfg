SPECIFICATION FairEncSpec
CONSTANTS
  Threads = {t1, t2}
  Sessions = {c1, c2}
  NoSession = NoSession
  MaxHandle = 2
  MaxDepth = 2
INVARIANTS
  ContextResources
  FinishIsFinal
PROPERTIES
  ImplementsRegistry
  ClosedSessionsAreFreed
