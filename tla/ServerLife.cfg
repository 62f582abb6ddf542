CONSTANTS
  r1 = r1
  r2 = r2
  c1 = c1
  Requests = {r1, r2}
  Conns = {c1}
  QueueMax = 1
  MaxErrors = 2
  MaxFaults = 2
SPECIFICATION FairSpec
INVARIANTS NothingPulledAway FailuresKept LeavesNothing ClosedAtExit
PROPERTY WindsUp
CHECK_DEADLOCK FALSE
