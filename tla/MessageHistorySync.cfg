CONSTANTS
  ann = ann
  k1 = k1
  k2 = k2
  k3 = k3
  k4 = k4
  app = app
  None = None
  Users = {ann}
  ClientIds = {k1, k2, k3, k4}
  Texts <- MCTexts
  Uploads = {}
  Owner <- MCOwner
  MaxTime = 2
  MaxId = 4
  Clients = {app}
  UserOf <- MCUserOf
  Limit = 2
SPECIFICATION Spec
SYMMETRY Symmetry
INVARIANT NothingMissed
