CONSTANTS
  ann = ann
  ben = ben
  cas = cas
  nobody = nobody
  canon = canon
  None = None
  Users = {ann, ben, cas}
  Ids = {ann, ben, cas, nobody}
  Spellings = {canon}
  Canon = canon
  Convs = {c1, c2, c3}
  Txs = {t1, t2, t3}
  Asks <- MCAsks
SPECIFICATION FairSpec
INVARIANTS OnePerPair AnswerUsable
PROPERTY Ends
CHECK_DEADLOCK FALSE
