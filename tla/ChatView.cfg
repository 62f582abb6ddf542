CONSTANTS
  k1 = k1
  s1 = s1
  s2 = s2
  None = None
  OwnIds = {k1}
  Syncs = {s1, s2}
  MaxMessages = 3
  QueueMax = 1
  MaxFaults = 1
  PageSize = 1
  SyncSize = 1
SPECIFICATION Spec
SYMMETRY Symmetry
INVARIANTS NoGap ShownOnce CaughtUpOnline
CHECK_DEADLOCK FALSE
