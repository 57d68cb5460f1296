SPECIFICATION Spec
CONSTANTS
  Workers = {w1, w2}
  Free = Free
  Orphan = Orphan
  MaxLinks = 2
  MaxUploads = 1
  MaxRequests = 1
  MaxFaults = 0
  FaultKinds = {}
SYMMETRY AnyWorker
INVARIANTS ClearCoversChain
CHECK_DEADLOCK FALSE
