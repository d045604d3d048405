SPECIFICATION Spec
CONSTANTS
  Uids = {u1}
  Chats = {a1, a2}
  Users = {ann}
  Owner <- TwoOfAnn
  a1 = a1
  a2 = a2
  ann = ann
  Handlers = {h1, h2}
  Nobody = Nobody
  NotifyAll = FALSE
  MaxAttempts = 1
  Batch = 1
  MaxPushes = 2
  MaxCrashes = 1
  MaxChanges = 2
SYMMETRY Symmetry
INVARIANTS
  AnsweredMeansStored
  NotifiedMeansReserved
  FannedOnce
