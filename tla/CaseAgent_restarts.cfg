SPECIFICATION Spec
CONSTANTS
  Workers = {w1, w2}
  Free = Free
  Orphan = Orphan
  MaxLinks = 2
  MaxUploads = 1
  MaxRequests = 1
  MaxFaults = 1
  FaultKinds = {"crash", "sync", "refresh"}
SYMMETRY AnyWorker
INVARIANTS TypeOK ClearVerdictIsBacked RefreshReachesDownstream PauseIsActionable
PROPERTIES ConclusionsStand SkipIsHonoured ScopedRunsStayInScope
CHECK_DEADLOCK FALSE
