CONSTANTS
  c1 = c1
  c2 = c2
  c3 = c3
  Connections = {c1, c2, c3}
  MaxFaults = 2
SPECIFICATION PresenceSpec
SYMMETRY Symmetry
INVARIANTS ShowsTruth NeverHidden
PROPERTY OfflineIsLast
CHECK_DEADLOCK FALSE
