CONSTANTS
  ann = ann
  ben = ben
  cay = cay
  d1 = d1
  d2 = d2
  d3 = d3
  None = None
  Users = {ann, ben, cay}
  ClientIds = {1}
  Texts <- MCTexts
  Uploads = {}
  Owner <- MCOwner
  MaxTime = 1
  MaxId = 3
  Marks = {d1, d2, d3}
  UserOf <- MCUserOf
  MaxJoins = 1
SPECIFICATION ReadSpec
SYMMETRY Symmetry
PROPERTIES NeverBack MarkCounts UnreadShrinks
CHECK_DEADLOCK FALSE
