SPECIFICATION Spec
CONSTANTS
  Length = 2
  MaxSeeks = 2
  MaxFaults = 1
  None = None
INVARIANTS EndedMeansPlayed WorkerLeavesNothing CleanupFailuresReported RequestIsPending
PROPERTIES CloseStopsWorker
