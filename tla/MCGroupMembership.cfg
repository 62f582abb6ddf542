CONSTANTS
  canon = canon
  other = other
  None = None
  Reader = Reader
  Readers = {u1}
  Users = {u1, u2}
  Spellings = {canon, other}
  Canon = canon
  Convs = {c1}
  Txs = {t1, t2}
  MaxListed = 2
  Ids <- MCIds
  Requests <- MCRequests
SPECIFICATION FairSpec
INVARIANTS TypeOK OneOwner RowsUncontended
PROPERTIES Linearizable Answered
