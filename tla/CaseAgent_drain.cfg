SPECIFICATION FairSpec
CONSTANTS
  Workers = {w1, w2}
  Free = Free
  Orphan = Orphan
  MaxLinks = 2
  MaxUploads = 0
  MaxRequests = 1
  MaxFaults = 1
  FaultKinds = {"crash", "outage", "lapse", "sync", "refresh"}
PROPERTIES RunsEnd WorkDrains
CHECK_DEADLOCK FALSE
