CONSTANTS
  Slots = {1, 2}
  MaxTroubles = 3
  MaxChanges = 1
  MaxLoads = 2
SPECIFICATION FairSpec
INVARIANTS OneChannel ListTrue
PROPERTY Redials
CHECK_DEADLOCK FALSE
