CONSTANTS
  alice = alice
  bob = bob
  k1 = k1
  k2 = k2
  x = x
  y = y
  p1 = p1
  canon = canon
  None = None
  Users = {alice, bob}
  ClientIds = {k1, k2}
  Texts = {x, y}
  Uploads = {p1}
  Owner <- MCOwner
  Asks <- MCAsks
  Canon = canon
  Used = {canon}
  Spellings = {canon}
  MaxTime = 1
  MaxId = 2
  Txs = {t1, t2, t3}
SPECIFICATION Spec
INVARIANTS AnswersStored RetryAccepted UploadsSettled Unblocked
PROPERTY ImplementsLog
SYMMETRY Symmetry
CHECK_DEADLOCK FALSE
