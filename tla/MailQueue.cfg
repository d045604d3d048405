SPECIFICATION FairSpec
CONSTANTS
  Uids = {u1, u2}
  Chats = {a1}
  Users = {ann}
  Owner <- OnlyAnn
  a1 = a1
  a2 = a2
  ann = ann
  Handlers = {h1}
  Nobody = Nobody
  NotifyAll = TRUE
  MaxAttempts = 2
  Batch = 1
  MaxPushes = 2
  MaxCrashes = 1
  MaxChanges = 0
INVARIANTS
  RetriesRemain
PROPERTIES
  ImplementsLedger
  MessageSettles
