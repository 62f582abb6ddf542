CONSTANTS
  ann = ann
  ben = ben
  cas = cas
  nobody = nobody
  canon = canon
  other = other
  None = None
  Users = {ann, ben, cas}
  Ids = {ann, ben, cas, nobody}
  Spellings = {canon, other}
  Canon = canon
  Convs = {c1, c2}
  Txs = {t1, t2}
  Asks <- MCAsks
SPECIFICATION Spec
INVARIANT OnePerPair
CHECK_DEADLOCK FALSE
